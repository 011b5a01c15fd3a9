--------------------------- MODULE WebAdminPages ----------------------------
(* The web pages of the principal and the super administrator, of sign-in and the components, in the words of ScreenParts. *)
EXTENDS ScreenParts

CollegeReportsPageFeeds ==
  {Feed("departments", {"open"}, "show", "none", "hush"),
   Feed("report", {"open", "pick", "apply"}, "show", "each", "banner")}
CollegeReportsPageView == View("shows", {}, {}, {})

DepartmentsPageFeeds == {Feed("departments", {"open"}, "show", "ends", "errorstays")}
DepartmentsPageView == View("waits", {}, {}, {})

PrincipalAlertsPageFeeds == {Feed("data", {"open"}, "show", "each", "errorstays")}
PrincipalAlertsPageActs == {Act("sendAlerts", {"form"}, "data", "load", "tells")}
PrincipalAlertsPageView == View("waits", {"sendAlerts"}, {}, {})

PrincipalAuditPageFeeds ==
  {Feed("departments", {"open"}, "show", "none", "hush"),
   Feed("data", {"open", "pick", "apply"}, "show", "each", "banner")}
PrincipalAuditPageView == View("shows", {}, {}, {})

PrincipalClassPulsePageFeeds == {Feed("reports", {"open"}, "drop", "ends", "errorstays")}
PrincipalClassPulsePageView == View("waits", {}, {}, {})

PrincipalOverviewFeeds == {Feed("data", {"open"}, "show", "ends", "errorstays")}
PrincipalOverviewView == View("waits", {}, {}, {})

AddPrincipalModalActs == {Act("submit", {"form"}, "aside", "stays", "error")}
AddPrincipalModalView == View("shows", {"submit"}, {}, {})

CollegeDetailPageFeeds == {Feed("data", {"open", "key"}, "drop", "each", "error")}
CollegeDetailPageView == View("waits", {}, {}, {})

CollegesPageFeeds == {Feed("colleges", {"open", "again", "more"}, "show", "each", "banner")}
CollegesPageView == View("shows", {}, {}, {})

CollegeFormModalActs == {Act("submit", {"form"}, "aside", "leave", "error")}
CollegeFormModalView == View("shows", {"submit"}, {}, {})

StatsPageFeeds == {Feed("stats", {"open"}, "show", "ends", "errorstays")}
StatsPageView == View("waits", {}, {}, {})

TOTPSetupPageFeeds == {Feed("setupData", {"open"}, "drop", "ends", "errorstays")}
TOTPSetupPageActs == {Act("handleConfirm", {"form"}, "aside", "leave", "error")}
TOTPSetupPageView == View("waits", {"handleConfirm"}, {}, {})

ForgotPasswordPageActs ==
  {Act("handleSendOTP", {"form"}, "aside", "stays", "error"),
   Act("handleResend", {}, "aside", "stays", "error"),
   Act("handleReset", {"form"}, "aside", "leave", "error")}
ForgotPasswordPageView ==
  View("shows", {"handleSendOTP", "handleResend", "handleReset"}, {}, {})

NotificationBellFeeds == {Feed("items", {"open", "timer", "again"}, "show", "each", "hush")}
NotificationBellView == View("shows", {}, {}, {})

AutoCapsuleCardActs == {Act("askReplay", {"form"}, "aside", "stays", "error")}
AutoCapsuleCardView == View("shows", {"askReplay"}, {}, {})

WebAdminPageTable ==
  {Screen("CollegeReportsPage", CollegeReportsPageFeeds, {}, CollegeReportsPageView),
   Screen("DepartmentsPage", DepartmentsPageFeeds, {}, DepartmentsPageView),
   Screen("PrincipalAlertsPage", PrincipalAlertsPageFeeds, PrincipalAlertsPageActs, PrincipalAlertsPageView),
   Screen("PrincipalAuditPage", PrincipalAuditPageFeeds, {}, PrincipalAuditPageView),
   Screen("PrincipalClassPulsePage", PrincipalClassPulsePageFeeds, {}, PrincipalClassPulsePageView),
   Screen("PrincipalOverview", PrincipalOverviewFeeds, {}, PrincipalOverviewView),
   Screen("AddPrincipalModal", {}, AddPrincipalModalActs, AddPrincipalModalView),
   Screen("CollegeDetailPage", CollegeDetailPageFeeds, {}, CollegeDetailPageView),
   Screen("CollegesPage", CollegesPageFeeds, {}, CollegesPageView),
   Screen("CollegeFormModal", {}, CollegeFormModalActs, CollegeFormModalView),
   Screen("StatsPage", StatsPageFeeds, {}, StatsPageView),
   Screen("TOTPSetupPage", TOTPSetupPageFeeds, TOTPSetupPageActs, TOTPSetupPageView),
   Screen("ForgotPasswordPage", {}, ForgotPasswordPageActs, ForgotPasswordPageView),
   Screen("NotificationBell", NotificationBellFeeds, {}, NotificationBellView),
   Screen("AutoCapsuleCard", {}, AutoCapsuleCardActs, AutoCapsuleCardView)}
=============================================================================

-------------------------- MODULE PrincipalScreens --------------------------
(* The screens of the principal's app, and those all roles share, in the words of ScreenParts. *)
EXTENDS ScreenParts

CollegeOverviewScreenFeeds == {Feed("data", {"open", "pull"}, "show", "ends", "hush")}
CollegeOverviewScreenView == View("waits", {}, {}, {})

DepartmentsScreenFeeds == {Feed("departments", {"open", "pull"}, "show", "ends", "hush")}
DepartmentsScreenView == View("waits", {}, {}, {})

PrincipalAlertsScreenFeeds == {Feed("audits", {"open", "pull"}, "show", "ends", "hush")}
PrincipalAlertsScreenActs == {Act("sendAlert", {"form", "sure"}, "audits", "await", "tells")}
PrincipalAlertsScreenView == View("shows", {"sendAlert"}, {}, {})

PrincipalAuditScreenFeeds == {Feed("logs", {"open", "pull"}, "show", "ends", "hush")}
PrincipalAuditScreenView == View("waits", {}, {}, {})

PrincipalClassPulseScreenFeeds ==
  {Feed("stats", {"open", "pull"}, "show", "ends", "hush"),
   Feed("analytics", {"key", "close"}, "show", "clears", "hush")}
PrincipalClassPulseScreenView == View("waits", {}, {}, {})

PrincipalDashboardScreenFeeds == {Feed("college", {"open", "pull"}, "never", "ends", "hush")}
PrincipalDashboardScreenActs == {Act("sendAlert", {"form"}, "aside", "never", "tells")}
PrincipalDashboardScreenView == View("waits", {"sendAlert"}, {}, {})

PrincipalReportsScreenActs == {Act("handleDownload", {}, "aside", "stays", "hushes")}
PrincipalReportsScreenView == View("shows", {}, {"handleDownload"}, {})

CareerRoadmapScreenFeeds == {Feed("saved", {"open", "pull"}, "show", "ends", "hush")}
CareerRoadmapScreenActs ==
  {Act("generate", {"form"}, "aside", "stays", "tells"),
   Act("saveRoadmap", {}, "saved", "load", "tells")}
CareerRoadmapScreenView == View("shows", {"generate"}, {}, {})

ProfileScreenFeeds == {Feed("deviceId", {"open"}, "show", "ends", "hush")}
ProfileScreenActs == {Act("confirmSignOut", {"sure"}, "aside", "leave", "tells")}
ProfileScreenView == View("shows", {}, {}, {})

ForgotPasswordScreenActs ==
  {Act("sendOtp", {"form"}, "aside", "stays", "error"),
   Act("resetPassword", {"form"}, "aside", "stays", "error")}
ForgotPasswordScreenView == View("shows", {"resetPassword"}, {}, {})

PrincipalScreenTable ==
  {Screen("CollegeOverviewScreen", CollegeOverviewScreenFeeds, {}, CollegeOverviewScreenView),
   Screen("DepartmentsScreen", DepartmentsScreenFeeds, {}, DepartmentsScreenView),
   Screen("PrincipalAlertsScreen", PrincipalAlertsScreenFeeds, PrincipalAlertsScreenActs, PrincipalAlertsScreenView),
   Screen("PrincipalAuditScreen", PrincipalAuditScreenFeeds, {}, PrincipalAuditScreenView),
   Screen("PrincipalClassPulseScreen", PrincipalClassPulseScreenFeeds, {}, PrincipalClassPulseScreenView),
   Screen("PrincipalDashboardScreen", PrincipalDashboardScreenFeeds, PrincipalDashboardScreenActs, PrincipalDashboardScreenView),
   Screen("PrincipalReportsScreen", {}, PrincipalReportsScreenActs, PrincipalReportsScreenView),
   Screen("CareerRoadmapScreen", CareerRoadmapScreenFeeds, CareerRoadmapScreenActs, CareerRoadmapScreenView),
   Screen("ProfileScreen", ProfileScreenFeeds, ProfileScreenActs, ProfileScreenView),
   Screen("ForgotPasswordScreen", {}, ForgotPasswordScreenActs, ForgotPasswordScreenView)}
=============================================================================

-------------------------- MODULE WebTeacherPages ---------------------------
(* The web pages of the teacher, in the words of ScreenParts. *)
EXTENDS ScreenParts

OverrideDialogView == View("shows", {}, {}, {})

GenerateQRPageFeeds ==
  {Feed("subjects", {"open"}, "show", "ends", "tells"),
   Feed("today", {"open"}, "show", "none", "blanks"),
   Feed("qr", {"timer"}, "show", "none", "hush"),
   Feed("attendance", {"open", "timer", "again"}, "show", "none", "hush")}
GenerateQRPageActs ==
  {Act("handleStart", {"form"}, "aside", "leave", "error"),
   Act("doEndSession", {}, "attendance", "await", "reloads")}
GenerateQRPageMoreActs ==
  {Act("handleOverrideConfirm", {"form"}, "attendance", "await", "hushes")}
GenerateQRPageView ==
  View("shows", {"handleStart", "handleOverrideConfirm"}, {}, {"doEndSession"})

ClassPulsePageFeeds == {Feed("dashboard", {"open"}, "show", "each", "error")}
ClassPulsePageView == View("waits", {}, {}, {})

WebTeacherCapsulesTabFeeds == {Feed("capsules", {"open", "key"}, "show", "each", "blanks")}
WebTeacherCapsulesTabActs ==
  {Act("handleToggleActive", {}, "capsules", "load", "tells"),
   Act("handleDelete", {"sure"}, "capsules", "load", "tells")}
WebTeacherCapsulesTabView == View("waits", {}, {}, {"handleToggleActive", "handleDelete"})

CapsuleUploadModalActs == {Act("submit", {"form", "once"}, "aside", "leave", "error")}
CapsuleUploadModalView == View("shows", {"submit"}, {}, {})

WebTeacherWallTabFeeds == {Feed("posts", {"open", "key"}, "show", "each", "blanks")}
WebTeacherWallTabActs == {Act("handleAnswer", {"form"}, "posts", "load", "tells")}
WebTeacherWallTabView == View("waits", {"handleAnswer"}, {}, {})

AnalyticsTabFeeds == {Feed("capsules", {"open", "key"}, "show", "each", "blanks")}
AnalyticsTabView == View("waits", {}, {}, {})

\* Mutant of CapsuleAnalyticsPanelFeeds: an answer for the capsule selected before is shown.
CapsuleAnalyticsPanelFeedsShown == {Feed("data", {"open", "key"}, "show", "each", "banner")}

CapsuleAnalyticsPanelFeeds == {Feed("data", {"open", "key"}, "drop", "each", "banner")}
CapsuleAnalyticsPanelView == View("waits", {}, {}, {})

TeacherReportsPageFeeds == {Feed("sessions", {"open"}, "show", "ends", "errorstays")}
TeacherReportsPageView == View("waits", {}, {}, {})

TeacherDisputesPageFeeds == {Feed("disputes", {"open"}, "show", "each", "errorstays")}
TeacherDisputesPageView == View("waits", {}, {}, {})

SessionRowFeeds == {Feed("details", {"open"}, "show", "each", "hush")}
SessionRowActs == {Act("handleOverride", {"form"}, "details", "await", "tells")}
SessionRowView == View("waits", {}, {}, {"handleOverride"})

AttendancePageFeeds == {Feed("sessions", {"open"}, "show", "ends", "errorstays")}
AttendancePageView == View("waits", {}, {}, {})

LeaveCardFeeds == {Feed("impact", {"open"}, "show", "ends", "hush")}
LeaveCardActs == {Act("handleAction", {}, "aside", "stays", "tells")}
LeaveCardView == View("waits", {"handleAction"}, {}, {})

LeaveRequestsPageFeeds ==
  {Feed("requests", {"open", "key"}, "show", "each", "hush"),
   Feed("summary", {"open"}, "show", "none", "hush")}
\* Mutant of LeaveRequestsPageActs: the list is not fetched again after a decision.
LeaveRequestsPageActsAlone == {Act("handleAction", {"card"}, "requests", "stays", "tells")}

LeaveRequestsPageActs == {Act("handleAction", {"card"}, "requests", "load", "tells")}
LeaveRequestsPageView == View("waits", {}, {}, {})

SubjectAnalyticsPageFeeds == {Feed("analytics", {"open", "key"}, "drop", "each", "errorstays")}
SubjectAnalyticsPageView == View("waits", {}, {}, {})

TeacherHomePageFeeds ==
  {Feed("dashboard", {"open"}, "drop", "ends", "errorstays"),
   Feed("todaySchedule", {"open"}, "drop", "none", "hush"),
   Feed("currentClass", {"open", "timer"}, "show", "none", "blanks")}
TeacherHomePageActs == {Act("handleStart", {}, "todaySchedule", "load", "tells")}
TeacherHomePageView == View("waits", {"handleStart"}, {}, {})

TutorDashboardPageFeeds ==
  {Feed("wards", {"open", "key"}, "show", "each", "errorstays"),
   Feed("report", {"key", "close"}, "show", "clears", "blanks")}
TutorDashboardPageActs ==
  {Act("submitNotify", {"form"}, "aside", "stays", "tells"),
   Act("savePhone", {}, "wards", "patch", "tells")}
TutorDashboardPageView == View("waits", {"savePhone", "submitNotify"}, {}, {})

TWMPageFeeds == {Feed("dashboard", {"open", "key"}, "show", "ends", "hush")}
TWMPageMoreFeeds == {Feed("wardReport", {"open", "key"}, "show", "each", "hush")}
TWMPageLastFeeds ==
  {Feed("history", {"open"}, "show", "each", "hush"),
   Feed("sessionReport", {"key", "close"}, "show", "none", "blanks")}
TWMPageActs ==
  {Act("handleStart", {"form"}, "aside", "stays", "tells"),
   Act("toggleStudent", {}, "aside", "stays", "hushes"),
   Act("markAllPresent", {}, "aside", "stays", "tells"),
   Act("handleEnd", {}, "dashboard", "load", "tells")}
TWMPageMoreActs == {Act("handleSendReport", {"form"}, "aside", "stays", "tells")}
TWMPageView ==
  View("waits", {"handleStart", "handleEnd", "handleSendReport"}, {}, {"toggleStudent"})

MyClassesPageFeeds == {Feed("subjects", {"open"}, "show", "ends", "errorstays")}
MyClassesPageView == View("waits", {}, {}, {})

WebTeacherPageTable ==
  {Screen("OverrideDialog", {}, {}, OverrideDialogView),
   Screen("GenerateQRPage", GenerateQRPageFeeds, GenerateQRPageActs \union GenerateQRPageMoreActs, GenerateQRPageView),
   Screen("ClassPulsePage", ClassPulsePageFeeds, {}, ClassPulsePageView),
   Screen("WebTeacherCapsulesTab", WebTeacherCapsulesTabFeeds, WebTeacherCapsulesTabActs, WebTeacherCapsulesTabView),
   Screen("CapsuleUploadModal", {}, CapsuleUploadModalActs, CapsuleUploadModalView),
   Screen("WebTeacherWallTab", WebTeacherWallTabFeeds, WebTeacherWallTabActs, WebTeacherWallTabView),
   Screen("AnalyticsTab", AnalyticsTabFeeds, {}, AnalyticsTabView),
   Screen("CapsuleAnalyticsPanel", CapsuleAnalyticsPanelFeeds, {}, CapsuleAnalyticsPanelView),
   Screen("TeacherReportsPage", TeacherReportsPageFeeds, {}, TeacherReportsPageView),
   Screen("TeacherDisputesPage", TeacherDisputesPageFeeds, {}, TeacherDisputesPageView),
   Screen("SessionRow", SessionRowFeeds, SessionRowActs, SessionRowView),
   Screen("AttendancePage", AttendancePageFeeds, {}, AttendancePageView),
   Screen("LeaveCard", LeaveCardFeeds, LeaveCardActs, LeaveCardView),
   Screen("LeaveRequestsPage", LeaveRequestsPageFeeds, LeaveRequestsPageActs, LeaveRequestsPageView),
   Screen("SubjectAnalyticsPage", SubjectAnalyticsPageFeeds, {}, SubjectAnalyticsPageView),
   Screen("TeacherHomePage", TeacherHomePageFeeds, TeacherHomePageActs, TeacherHomePageView),
   Screen("TutorDashboardPage", TutorDashboardPageFeeds, TutorDashboardPageActs, TutorDashboardPageView),
   Screen("TWMPage", TWMPageFeeds \union TWMPageMoreFeeds \union TWMPageLastFeeds, TWMPageActs \union TWMPageMoreActs, TWMPageView),
   Screen("MyClassesPage", MyClassesPageFeeds, {}, MyClassesPageView)}
=============================================================================

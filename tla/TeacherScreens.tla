--------------------------- MODULE TeacherScreens ---------------------------
(* The screens of the teacher app, in the words of ScreenParts. *)
EXTENDS ScreenParts

TeacherHistoryScreenFeeds == {Feed("items", {"open", "pull"}, "show", "ends", "hush")}
TeacherHistoryScreenView == View("waits", {}, {}, {})

AttendanceManageScreenFeeds ==
  {Feed("sessions", {"open", "pull", "retry"}, "show", "ends", "error"),
   Feed("studentList", {"key", "close"}, "show", "each", "closes")}
AttendanceManageScreenActs == {Act("updateStatus", {}, "studentList", "patch", "tells")}
AttendanceManageScreenView == View("waits", {}, {"updateStatus"}, {})

ClassesScreenFeeds == {Feed("classes", {"open", "pull"}, "show", "ends", "hush")}
ClassesScreenView == View("waits", {}, {}, {})

LeaveManagementScreenFeeds ==
  {Feed("pending", {"open", "pull", "retry"}, "show", "ends", "error")}
LeaveManagementScreenActs == {Act("submitReview", {"form"}, "pending", "patch", "tells")}
LeaveManagementScreenView == View("waits", {"submitReview"}, {}, {})

LiveSessionDashboardScreenFeeds ==
  {Feed("data", {"open", "timer", "pull"}, "show", "ends", "hush")}
LiveSessionDashboardScreenActs == {Act("endSession", {"sure"}, "aside", "leave", "tells")}
LiveSessionDashboardScreenView == View("waits", {"endSession"}, {}, {})

DashboardDoubtsTabFeeds == {Feed("list", {"open", "timer"}, "show", "ends", "hush")}
DashboardDoubtsTabActs == {Act("submitAnswer", {"form"}, "list", "load", "tells")}
DashboardDoubtsTabView == View("waits", {}, {}, {"submitAnswer"})

DashboardPulseTabActs == {Act("create", {"form"}, "aside", "stays", "tells")}
DashboardPulseTabView == View("shows", {"create"}, {}, {})

BrainTabActs == {Act("generate", {"form"}, "aside", "stays", "tells")}
BrainTabView == View("shows", {"generate"}, {}, {})

BreakoutTabFeeds == {Feed("status", {"open"}, "show", "none", "hush")}
BreakoutTabActs ==
  {Act("createRooms", {}, "status", "load", "tells"),
   Act("endAll", {"sure"}, "status", "load", "tells")}
BreakoutTabView == View("shows", {"createRooms"}, {}, {})

MyLiveSessionsScreenFeeds == {Feed("items", {"open", "pull"}, "show", "ends", "hush")}
MyLiveSessionsScreenView == View("waits", {}, {}, {})

PreClassBriefScreenFeeds == {Feed("data", {"open", "pull"}, "show", "ends", "banner")}
PreClassBriefScreenView == View("waits", {}, {}, {})

SessionHealthReportScreenFeeds == {Feed("data", {"open", "pull"}, "show", "ends", "hush")}
SessionHealthReportScreenView == View("waits", {}, {}, {})

SubjectAnalyticsScreenFeeds == {Feed("data", {"open", "pull"}, "show", "ends", "hush")}
SubjectAnalyticsScreenView == View("waits", {}, {}, {})

TWMDashboardScreenFeeds ==
  {Feed("data", {"open", "pull"}, "show", "ends", "hush"),
   Feed("history", {"open", "pull"}, "show", "ends", "hush")}
TWMDashboardScreenActs ==
  {Act("startTWM", {}, "aside", "stays", "tells"),
   Act("markStudent", {}, "aside", "stays", "tells"),
   Act("markAllPresent", {}, "aside", "stays", "tells"),
   Act("endSession", {"sure"}, "data", "load", "tells")}
TWMDashboardScreenView == View("waits", {"startTWM"}, {}, {"markStudent"})

TeacherClassPulseHomeScreenFeeds == {Feed("subjects", {"open"}, "drop", "ends", "hush")}
TeacherClassPulseHomeScreenView == View("waits", {}, {}, {})

TeacherCapsulesTabFeeds == {Feed("capsules", {"open", "key", "pull"}, "show", "key", "hush")}
TeacherCapsulesTabView == View("waits", {}, {}, {})

TeacherWallTabFeeds == {Feed("posts", {"open", "key", "pull"}, "show", "key", "hush")}
TeacherWallTabView == View("waits", {}, {}, {})

CapsuleAnalyticsMobileScreenFeeds == {Feed("data", {"open"}, "drop", "ends", "hush")}
CapsuleAnalyticsMobileScreenView == View("waits", {}, {}, {})

AnswerDoubtMobileScreenActs == {Act("submit", {"form"}, "aside", "leave", "tells")}
AnswerDoubtMobileScreenView == View("shows", {"submit"}, {}, {})

TeacherDashboardScreenFeeds == {Feed("classes", {"open", "pull"}, "show", "ends", "hush")}
TeacherDashboardScreenView == View("waits", {}, {}, {})

TeacherDisputesScreenFeeds == {Feed("disputes", {"open", "pull"}, "show", "ends", "hush")}
TeacherDisputesScreenActs == {Act("resolve", {"sure"}, "disputes", "never", "tells")}
TeacherDisputesScreenView == View("waits", {}, {"resolve"}, {})

TeacherReportsScreenFeeds == {Feed("classes", {"open", "pull"}, "show", "ends", "hush")}
TeacherReportsScreenActs == {Act("handleDownload", {}, "aside", "stays", "hushes")}
TeacherReportsScreenView == View("waits", {}, {"handleDownload"}, {})

TutorDashboardScreenFeeds ==
  {Feed("wards", {"open", "pull"}, "show", "ends", "hush"),
   Feed("defaulters", {"open", "pull"}, "show", "ends", "hush"),
   Feed("detail", {"key", "close"}, "show", "clears", "closes")}
TutorDashboardScreenActs == {Act("sendNotify", {"form"}, "aside", "stays", "tells")}
TutorDashboardScreenView == View("waits", {"sendNotify"}, {}, {})

QRGenerateScreenFeeds == {Feed("subjects", {"open"}, "never", "each", "tells")}
QRGenerateScreenView == View("waits", {}, {}, {})

TeacherScreenTable ==
  {Screen("TeacherHistoryScreen", TeacherHistoryScreenFeeds, {}, TeacherHistoryScreenView),
   Screen("AttendanceManageScreen", AttendanceManageScreenFeeds, AttendanceManageScreenActs, AttendanceManageScreenView),
   Screen("ClassesScreen", ClassesScreenFeeds, {}, ClassesScreenView),
   Screen("LeaveManagementScreen", LeaveManagementScreenFeeds, LeaveManagementScreenActs, LeaveManagementScreenView),
   Screen("LiveSessionDashboardScreen", LiveSessionDashboardScreenFeeds, LiveSessionDashboardScreenActs, LiveSessionDashboardScreenView),
   Screen("DashboardDoubtsTab", DashboardDoubtsTabFeeds, DashboardDoubtsTabActs, DashboardDoubtsTabView),
   Screen("DashboardPulseTab", {}, DashboardPulseTabActs, DashboardPulseTabView),
   Screen("BrainTab", {}, BrainTabActs, BrainTabView),
   Screen("BreakoutTab", BreakoutTabFeeds, BreakoutTabActs, BreakoutTabView),
   Screen("MyLiveSessionsScreen", MyLiveSessionsScreenFeeds, {}, MyLiveSessionsScreenView),
   Screen("PreClassBriefScreen", PreClassBriefScreenFeeds, {}, PreClassBriefScreenView),
   Screen("SessionHealthReportScreen", SessionHealthReportScreenFeeds, {}, SessionHealthReportScreenView),
   Screen("SubjectAnalyticsScreen", SubjectAnalyticsScreenFeeds, {}, SubjectAnalyticsScreenView),
   Screen("TWMDashboardScreen", TWMDashboardScreenFeeds, TWMDashboardScreenActs, TWMDashboardScreenView),
   Screen("TeacherClassPulseHomeScreen", TeacherClassPulseHomeScreenFeeds, {}, TeacherClassPulseHomeScreenView),
   Screen("TeacherCapsulesTab", TeacherCapsulesTabFeeds, {}, TeacherCapsulesTabView),
   Screen("TeacherWallTab", TeacherWallTabFeeds, {}, TeacherWallTabView),
   Screen("CapsuleAnalyticsMobileScreen", CapsuleAnalyticsMobileScreenFeeds, {}, CapsuleAnalyticsMobileScreenView),
   Screen("AnswerDoubtMobileScreen", {}, AnswerDoubtMobileScreenActs, AnswerDoubtMobileScreenView),
   Screen("TeacherDashboardScreen", TeacherDashboardScreenFeeds, {}, TeacherDashboardScreenView),
   Screen("TeacherDisputesScreen", TeacherDisputesScreenFeeds, TeacherDisputesScreenActs, TeacherDisputesScreenView),
   Screen("TeacherReportsScreen", TeacherReportsScreenFeeds, TeacherReportsScreenActs, TeacherReportsScreenView),
   Screen("TutorDashboardScreen", TutorDashboardScreenFeeds, TutorDashboardScreenActs, TutorDashboardScreenView),
   Screen("QRGenerateScreen", QRGenerateScreenFeeds, {}, QRGenerateScreenView)}
=============================================================================

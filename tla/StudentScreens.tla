--------------------------- MODULE StudentScreens ---------------------------
(* The screens of the student app, in the words of ScreenParts. *)
EXTENDS ScreenParts

StudentDashboardScreenFeeds == {Feed("dashboard", {"open", "pull"}, "never", "ends", "hush")}
StudentDashboardScreenView == View("waits", {}, {}, {})

LeaveRequestScreenFeeds ==
  {Feed("requests", {"open", "pull", "retry"}, "show", "ends", "banner")}
LeaveRequestScreenActs ==
  {Act("submitLeave", {"form"}, "requests", "await", "queues"),
   Act("cancelLeave", {"sure"}, "requests", "await", "tells")}
\* Mutant of LeaveRequestScreenView: the button stays on while the request is sent.
LeaveRequestScreenViewUnlocked == View("waits", {}, {}, {"submitLeave", "cancelLeave"})

LeaveRequestScreenView == View("waits", {"submitLeave"}, {}, {"cancelLeave"})

DisputeScreenFeeds == {Feed("disputes", {"open", "pull", "retry"}, "show", "ends", "banner")}
DisputeScreenActs == {Act("submitDispute", {"form"}, "disputes", "await", "queues")}
DisputeScreenView == View("waits", {"submitDispute"}, {}, {})

AttendanceHistoryScreenFeeds ==
  {Feed("subjects", {"open"}, "never", "none", "hush"),
   Feed("records", {"open", "key"}, "never", "each", "blanks")}
AttendanceHistoryScreenView == View("shows", {}, {}, {})

\* Mutant of NotificationsScreenFeeds: a fetch does not clear the error of the one before.
NotificationsScreenFeedsStuck ==
  {Feed("alerts", {"open", "pull", "retry"}, "show", "ends", "bannerstays")}

NotificationsScreenFeeds ==
  {Feed("alerts", {"open", "pull", "retry"}, "show", "ends", "banner")}
NotificationsScreenView == View("waits", {}, {}, {})

SuggestionBoxScreenFeeds == {Feed("history", {"open", "pull"}, "show", "ends", "hush")}
SuggestionBoxScreenActs == {Act("submit", {"form"}, "history", "await", "tells")}
SuggestionBoxScreenView == View("shows", {"submit"}, {}, {})

AttendanceForecastScreenFeeds == {Feed("items", {"open", "pull"}, "show", "ends", "hush")}
AttendanceForecastScreenView == View("waits", {}, {}, {})

FeedScreenFeeds == {Feed("items", {"open", "pull"}, "show", "ends", "hush")}
FeedScreenView == View("waits", {}, {}, {})

MySessionsScreenFeeds == {Feed("sessions", {"open", "pull"}, "show", "ends", "hush")}
MySessionsScreenView == View("waits", {}, {}, {})

MyTutorScreenFeeds == {Feed("tutor", {"open", "pull"}, "show", "ends", "blanks")}
MyTutorScreenView == View("waits", {}, {}, {})

StudentKnowledgeGraphScreenFeeds == {Feed("graph", {"open", "pull"}, "show", "ends", "hush")}
StudentKnowledgeGraphScreenView == View("waits", {}, {}, {})

TimetableScreenFeeds == {Feed("subjects", {"open", "pull"}, "show", "ends", "hush")}
TimetableScreenView == View("waits", {}, {}, {})

LiveSessionScreenFeeds == {Feed("details", {"open", "timer", "pull"}, "show", "ends", "hush")}
LiveSessionScreenView == View("waits", {}, {}, {})

DoubtsTabFeeds == {Feed("list", {"open"}, "show", "ends", "hush")}
DoubtsTabActs == {Act("submit", {"form"}, "list", "load", "tells")}
DoubtsTabView == View("shows", {"submit"}, {}, {})

PulseTabActs == {Act("respond", {}, "aside", "patch", "tells")}
PulseTabView == View("shows", {}, {"respond"}, {})

WarmupTabFeeds == {Feed("quiz", {"open"}, "show", "ends", "hush")}
WarmupTabView == View("waits", {}, {}, {})

LowBwTabFeeds == {Feed("summary", {"open", "pull"}, "show", "ends", "hush")}
LowBwTabView == View("waits", {}, {}, {})

ClassPulseHomeScreenFeeds == {Feed("subjects", {"open", "pull"}, "never", "ends", "hush")}
ClassPulseHomeScreenView == View("waits", {}, {}, {})

ClassPulseSubjectScreenFeeds == {Feed("capsules", {"open", "pull"}, "show", "ends", "hush")}
ClassPulseSubjectScreenView == View("waits", {}, {}, {})

CapsuleMobileDetailScreenFeeds == {Feed("capsule", {"open"}, "drop", "ends", "hush")}
CapsuleMobileDetailScreenActs ==
  {Act("playVoice", {}, "aside", "stays", "tells"),
   Act("openDocument", {}, "aside", "stays", "tells"),
   Act("submitDoubt", {"form"}, "aside", "stays", "tells")}
CapsuleMobileDetailScreenView == View("waits", {"playVoice", "submitDoubt"}, {}, {})

QuizSectionActs == {Act("submit", {"form"}, "aside", "patch", "tells")}
QuizSectionView == View("shows", {"submit"}, {}, {})

ClassWallMobileScreenFeeds == {Feed("posts", {"open", "pull"}, "show", "ends", "hush")}
ClassWallMobileScreenActs ==
  {Act("toggleResonance", {}, "posts", "first", "reloads"),
   Act("submit", {"form"}, "posts", "load", "tells")}
ClassWallMobileScreenView == View("waits", {"submit"}, {}, {"toggleResonance"})

StudentScreenTable ==
  {Screen("StudentDashboardScreen", StudentDashboardScreenFeeds, {}, StudentDashboardScreenView),
   Screen("LeaveRequestScreen", LeaveRequestScreenFeeds, LeaveRequestScreenActs, LeaveRequestScreenView),
   Screen("DisputeScreen", DisputeScreenFeeds, DisputeScreenActs, DisputeScreenView),
   Screen("AttendanceHistoryScreen", AttendanceHistoryScreenFeeds, {}, AttendanceHistoryScreenView),
   Screen("NotificationsScreen", NotificationsScreenFeeds, {}, NotificationsScreenView),
   Screen("SuggestionBoxScreen", SuggestionBoxScreenFeeds, SuggestionBoxScreenActs, SuggestionBoxScreenView),
   Screen("AttendanceForecastScreen", AttendanceForecastScreenFeeds, {}, AttendanceForecastScreenView),
   Screen("FeedScreen", FeedScreenFeeds, {}, FeedScreenView),
   Screen("MySessionsScreen", MySessionsScreenFeeds, {}, MySessionsScreenView),
   Screen("MyTutorScreen", MyTutorScreenFeeds, {}, MyTutorScreenView),
   Screen("StudentKnowledgeGraphScreen", StudentKnowledgeGraphScreenFeeds, {}, StudentKnowledgeGraphScreenView),
   Screen("TimetableScreen", TimetableScreenFeeds, {}, TimetableScreenView),
   Screen("LiveSessionScreen", LiveSessionScreenFeeds, {}, LiveSessionScreenView),
   Screen("DoubtsTab", DoubtsTabFeeds, DoubtsTabActs, DoubtsTabView),
   Screen("PulseTab", {}, PulseTabActs, PulseTabView),
   Screen("WarmupTab", WarmupTabFeeds, {}, WarmupTabView),
   Screen("LowBwTab", LowBwTabFeeds, {}, LowBwTabView),
   Screen("ClassPulseHomeScreen", ClassPulseHomeScreenFeeds, {}, ClassPulseHomeScreenView),
   Screen("ClassPulseSubjectScreen", ClassPulseSubjectScreenFeeds, {}, ClassPulseSubjectScreenView),
   Screen("CapsuleMobileDetailScreen", CapsuleMobileDetailScreenFeeds, CapsuleMobileDetailScreenActs, CapsuleMobileDetailScreenView),
   Screen("QuizSection", {}, QuizSectionActs, QuizSectionView),
   Screen("ClassWallMobileScreen", ClassWallMobileScreenFeeds, ClassWallMobileScreenActs, ClassWallMobileScreenView)}
=============================================================================

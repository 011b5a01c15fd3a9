-------------------------- MODULE WebStudentPages ---------------------------
(* The web pages of the student, in the words of ScreenParts. *)
EXTENDS ScreenParts

StudentClassPulsePageFeeds ==
  {Feed("subjects", {"open"}, "show", "ends", "errorstays"),
   Feed("progress", {"open"}, "show", "none", "blanks")}
StudentClassPulsePageView == View("waits", {}, {}, {})

WebStudentCapsulesTabFeeds ==
  {Feed("capsules", {"open", "key", "timer"}, "show", "each", "blanks")}
WebStudentCapsulesTabView == View("waits", {}, {}, {})

CapsuleViewerFeeds == {Feed("capsule", {"open", "again"}, "drop", "each", "error")}
CapsuleViewerMoreFeeds ==
  {Feed("pdf", {"open"}, "drop", "each", "tells"),
   Feed("heartbeat", {"timer"}, "show", "none", "hush")}
CapsuleViewerActs == {Act("handleDownload", {"once"}, "aside", "stays", "tells")}
CapsuleViewerView == View("waits", {"handleDownload"}, {}, {})

VoicePlayerFeeds == {Feed("audio", {"open", "key"}, "drop", "ends", "blanks")}
VoicePlayerView == View("shows", {}, {}, {})

QuizActs == {Act("submit", {"form"}, "aside", "stays", "tells")}
QuizView == View("shows", {"submit"}, {}, {})

AskDoubtModalActs == {Act("submit", {"form"}, "aside", "leave", "error")}
AskDoubtModalView == View("shows", {"submit"}, {}, {})

WebStudentWallTabFeeds == {Feed("posts", {"open", "key"}, "show", "each", "blanks")}
WebStudentWallTabActs ==
  {Act("submitPost", {"form"}, "posts", "load", "error"),
   Act("handleResonate", {}, "posts", "first", "undoes")}
WebStudentWallTabView == View("waits", {"submitPost"}, {}, {"handleResonate"})

ClassPulseSummaryFeeds == {Feed("counts", {"open"}, "drop", "ends", "blanks")}
ClassPulseSummaryView == View("waits", {}, {}, {})

StudentHomeFeeds == {Feed("dashboard", {"open"}, "show", "each", "errorstays")}
StudentHomeActs == {Act("handleDispute", {"form"}, "dashboard", "load", "queues")}
StudentHomeView == View("waits", {"handleDispute"}, {}, {})

AttendanceDetailPageFeeds == {Feed("summary", {"open"}, "show", "ends", "errorstays")}
AttendanceDetailPageView == View("waits", {}, {}, {})

StudentTimetablePageFeeds == {Feed("timetable", {"open"}, "show", "ends", "errorstays")}
StudentTimetablePageView == View("waits", {}, {}, {})

StudentLeavePageFeeds == {Feed("requests", {"open"}, "show", "each", "hush")}
StudentLeavePageActs ==
  {Act("handleApply", {"form"}, "requests", "load", "queues"),
   Act("handleViewDoc", {}, "aside", "stays", "tells"),
   Act("handleCancel", {}, "requests", "load", "tells")}
StudentLeavePageView == View("waits", {"handleApply"}, {}, {"handleCancel"})

DownloadReportPageFeeds == {Feed("summary", {"open"}, "show", "ends", "hush")}
DownloadReportPageView == View("waits", {}, {}, {})

DisputesPageFeeds == {Feed("disputes", {"open"}, "show", "ends", "errorstays")}
DisputesPageView == View("waits", {}, {}, {})

WebStudentPageTable ==
  {Screen("StudentClassPulsePage", StudentClassPulsePageFeeds, {}, StudentClassPulsePageView),
   Screen("WebStudentCapsulesTab", WebStudentCapsulesTabFeeds, {}, WebStudentCapsulesTabView),
   Screen("CapsuleViewer", CapsuleViewerFeeds \union CapsuleViewerMoreFeeds, CapsuleViewerActs, CapsuleViewerView),
   Screen("VoicePlayer", VoicePlayerFeeds, {}, VoicePlayerView),
   Screen("Quiz", {}, QuizActs, QuizView),
   Screen("AskDoubtModal", {}, AskDoubtModalActs, AskDoubtModalView),
   Screen("WebStudentWallTab", WebStudentWallTabFeeds, WebStudentWallTabActs, WebStudentWallTabView),
   Screen("ClassPulseSummary", ClassPulseSummaryFeeds, {}, ClassPulseSummaryView),
   Screen("StudentHome", StudentHomeFeeds, StudentHomeActs, StudentHomeView),
   Screen("AttendanceDetailPage", AttendanceDetailPageFeeds, {}, AttendanceDetailPageView),
   Screen("StudentTimetablePage", StudentTimetablePageFeeds, {}, StudentTimetablePageView),
   Screen("StudentLeavePage", StudentLeavePageFeeds, StudentLeavePageActs, StudentLeavePageView),
   Screen("DownloadReportPage", DownloadReportPageFeeds, {}, DownloadReportPageView),
   Screen("DisputesPage", DisputesPageFeeds, {}, DisputesPageView)}
=============================================================================

----------------------------- MODULE HodScreens -----------------------------
(* The screens of the head of department's app, in the words of ScreenParts. *)
EXTENDS ScreenParts

DeptOverviewScreenFeeds == {Feed("data", {"open", "pull"}, "show", "ends", "hush")}
DeptOverviewScreenView == View("waits", {}, {}, {})

ExcelImportScreenFeeds == {Feed("sections", {"open"}, "show", "ends", "hush")}
ExcelImportScreenActs ==
  {Act("pickFile", {}, "aside", "stays", "tells"),
   Act("upload", {"form"}, "aside", "stays", "tells")}
ExcelImportScreenView == View("waits", {"upload"}, {}, {})

HODAlertsScreenFeeds == {Feed("data", {"open", "pull"}, "show", "ends", "hush")}
HODAlertsScreenActs ==
  {Act("sendBulk", {"form", "sure"}, "data", "load", "tells"),
   Act("sendCustom", {"form"}, "data", "load", "tells")}
HODAlertsScreenView == View("waits", {"sendBulk", "sendCustom"}, {}, {})

HODClassPulseScreenFeeds ==
  {Feed("data", {"open", "pull"}, "show", "ends", "hush"),
   Feed("report", {"key", "close"}, "show", "none", "hush")}
HODClassPulseScreenView == View("waits", {}, {}, {})

HODDashboardScreenFeeds == {Feed("stats", {"open", "pull"}, "show", "ends", "hush")}
HODDashboardScreenView == View("waits", {}, {}, {})

HODDisputesScreenFeeds == {Feed("items", {"open", "pull"}, "show", "ends", "hush")}
HODDisputesScreenActs == {Act("escalate", {"form"}, "items", "load", "tells")}
HODDisputesScreenView == View("waits", {"escalate"}, {}, {})

HODReportsHomeScreenFeeds ==
  {Feed("sessions", {"open", "key", "pull", "again"}, "show", "ends", "hush"),
   Feed("students", {"open", "key", "pull", "again"}, "show", "ends", "hush")}
HODReportsHomeScreenActs ==
  {Act("dlDefaultersPdf", {}, "aside", "stays", "hushes"),
   Act("dlSessionPdf", {}, "aside", "stays", "hushes"),
   Act("dlStudentPdf", {}, "aside", "stays", "hushes")}
HODReportsHomeScreenView == View("waits", {}, {}, {"dlSessionPdf", "dlStudentPdf"})

HODReportsScreenFeeds == {Feed("defaulterCount", {"open", "pull"}, "show", "ends", "hush")}
HODReportsScreenActs ==
  {Act("dlDefaulters", {}, "aside", "stays", "tells"),
   Act("dlMonthly", {"form"}, "aside", "stays", "tells"),
   Act("dlClass", {"form"}, "aside", "stays", "tells")}
HODReportsScreenView == View("waits", {"dlDefaulters", "dlMonthly", "dlClass"}, {}, {})

HODTimetableScreenFeeds ==
  {Feed("timetable", {"open", "pull"}, "show", "ends", "hush"),
   Feed("options", {"open", "pull"}, "show", "ends", "blanks")}
HODTimetableScreenActs ==
  {Act("save", {"form"}, "timetable", "await", "tells"),
   Act("removeEntry", {"sure"}, "timetable", "load", "tells"),
   Act("exportExcel", {}, "aside", "stays", "hushes")}
HODTimetableScreenView == View("waits", {"save"}, {}, {"removeEntry"})

LiveAnalyticsScreenFeeds ==
  {Feed("dash", {"open", "pull"}, "show", "ends", "hush"),
   Feed("overview", {"open", "pull"}, "show", "ends", "hush"),
   Feed("detail", {"key", "close"}, "show", "none", "hush")}
LiveAnalyticsScreenView == View("waits", {}, {}, {})

PendingApprovalsScreenFeeds == {Feed("requests", {"open", "pull"}, "show", "ends", "blanks")}
PendingApprovalsScreenActs == {Act("handleAction", {"sure"}, "requests", "never", "tells")}
PendingApprovalsScreenView == View("waits", {}, {"handleAction"}, {})

SectionAnalyticsScreenFeeds == {Feed("analytics", {"open", "pull"}, "show", "ends", "blanks")}
SectionAnalyticsScreenView == View("waits", {}, {}, {})

SectionsScreenFeeds ==
  {Feed("sections", {"open", "key", "pull"}, "show", "ends", "hush"),
   Feed("members", {"key", "close"}, "show", "none", "tells")}
SectionsScreenActs ==
  {Act("save", {"form"}, "sections", "load", "tells"),
   Act("remove", {"sure"}, "sections", "load", "tells"),
   Act("removeStudent", {"sure"}, "members", "load", "tells")}
SectionsScreenView == View("waits", {"save"}, {}, {"remove", "removeStudent"})

SemesterProgressScreenFeeds == {Feed("data", {"open", "pull"}, "show", "ends", "hush")}
SemesterProgressScreenView == View("waits", {}, {}, {})

HODStudentDetailScreenFeeds == {Feed("summary", {"open", "pull"}, "show", "ends", "blanks")}
HODStudentDetailScreenView == View("waits", {}, {}, {})

HODStudentsScreenFeeds == {Feed("subjects", {"open", "pull"}, "show", "ends", "hush")}
HODStudentsScreenView == View("waits", {}, {}, {})

SubjectsScreenFeeds == {Feed("items", {"open", "pull"}, "show", "ends", "hush")}
SubjectsScreenActs == {Act("save", {"form"}, "items", "load", "tells")}
SubjectsScreenView == View("waits", {"save"}, {}, {})

TeacherDetailScreenFeeds == {Feed("list", {"open", "pull"}, "show", "ends", "hush")}
TeacherDetailScreenView == View("waits", {}, {}, {})

TeacherPerformanceScreenFeeds == {Feed("items", {"open", "pull"}, "show", "ends", "hush")}
TeacherPerformanceScreenView == View("waits", {}, {}, {})

TeachersScreenFeeds == {Feed("teachers", {"open", "pull"}, "show", "ends", "hush")}
TeachersScreenActs == {Act("saveTeacher", {"form"}, "teachers", "await", "tells")}
TeachersScreenView == View("waits", {"saveTeacher"}, {}, {})

TutorManagementScreenFeeds ==
  {Feed("items", {"open", "key", "pull", "again"}, "show", "ends", "hush"),
   Feed("unassigned", {"open", "key", "pull", "again"}, "show", "ends", "hush")}
TutorManagementScreenActs ==
  {Act("remove", {"sure"}, "items", "load", "tells"),
   Act("exportExcel", {}, "aside", "stays", "hushes"),
   Act("submitBulk", {"form"}, "items", "load", "tells")}
TutorManagementScreenView == View("waits", {"submitBulk"}, {}, {"remove"})

HodScreenTable ==
  {Screen("DeptOverviewScreen", DeptOverviewScreenFeeds, {}, DeptOverviewScreenView),
   Screen("ExcelImportScreen", ExcelImportScreenFeeds, ExcelImportScreenActs, ExcelImportScreenView),
   Screen("HODAlertsScreen", HODAlertsScreenFeeds, HODAlertsScreenActs, HODAlertsScreenView),
   Screen("HODClassPulseScreen", HODClassPulseScreenFeeds, {}, HODClassPulseScreenView),
   Screen("HODDashboardScreen", HODDashboardScreenFeeds, {}, HODDashboardScreenView),
   Screen("HODDisputesScreen", HODDisputesScreenFeeds, HODDisputesScreenActs, HODDisputesScreenView),
   Screen("HODReportsHomeScreen", HODReportsHomeScreenFeeds, HODReportsHomeScreenActs, HODReportsHomeScreenView),
   Screen("HODReportsScreen", HODReportsScreenFeeds, HODReportsScreenActs, HODReportsScreenView),
   Screen("HODTimetableScreen", HODTimetableScreenFeeds, HODTimetableScreenActs, HODTimetableScreenView),
   Screen("LiveAnalyticsScreen", LiveAnalyticsScreenFeeds, {}, LiveAnalyticsScreenView),
   Screen("PendingApprovalsScreen", PendingApprovalsScreenFeeds, PendingApprovalsScreenActs, PendingApprovalsScreenView),
   Screen("SectionAnalyticsScreen", SectionAnalyticsScreenFeeds, {}, SectionAnalyticsScreenView),
   Screen("SectionsScreen", SectionsScreenFeeds, SectionsScreenActs, SectionsScreenView),
   Screen("SemesterProgressScreen", SemesterProgressScreenFeeds, {}, SemesterProgressScreenView),
   Screen("HODStudentDetailScreen", HODStudentDetailScreenFeeds, {}, HODStudentDetailScreenView),
   Screen("HODStudentsScreen", HODStudentsScreenFeeds, {}, HODStudentsScreenView),
   Screen("SubjectsScreen", SubjectsScreenFeeds, SubjectsScreenActs, SubjectsScreenView),
   Screen("TeacherDetailScreen", TeacherDetailScreenFeeds, {}, TeacherDetailScreenView),
   Screen("TeacherPerformanceScreen", TeacherPerformanceScreenFeeds, {}, TeacherPerformanceScreenView),
   Screen("TeachersScreen", TeachersScreenFeeds, TeachersScreenActs, TeachersScreenView),
   Screen("TutorManagementScreen", TutorManagementScreenFeeds, TutorManagementScreenActs, TutorManagementScreenView)}
=============================================================================

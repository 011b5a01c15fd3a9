---------------------------- MODULE WebHodPages -----------------------------
(* The web pages of the head of department, in the words of ScreenParts. *)
EXTENDS ScreenParts

BulkAlertSectionFeeds == {Feed("count", {"open"}, "show", "none", "blanks")}
BulkAlertSectionActs == {Act("handleConfirm", {"form", "sure"}, "count", "load", "error")}
BulkAlertSectionView == View("shows", {"handleConfirm"}, {}, {})

CustomAlertSectionActs == {Act("handleSend", {"form"}, "aside", "stays", "error")}
CustomAlertSectionView == View("shows", {"handleSend"}, {}, {})

AlertHistorySectionFeeds ==
  {Feed("rows", {"open", "key", "again"}, "show", "each", "bannerstays")}
AlertHistorySectionView == View("shows", {}, {}, {})

AlertsPageFeeds == {Feed("students", {"open"}, "show", "ends", "hush")}
AlertsPageView == View("waits", {}, {}, {})

StudentReportCardActs == {Act("download", {"form"}, "aside", "stays", "error")}
StudentReportCardView == View("shows", {"download"}, {}, {})

ClassSessionCardFeeds == {Feed("sessions", {"key", "close"}, "hold", "clears", "hush")}
ClassSessionCardActs == {Act("download", {"form"}, "aside", "stays", "error")}
ClassSessionCardView == View("shows", {"download"}, {}, {})

DefaultersPDFCardActs == {Act("download", {}, "aside", "stays", "error")}
DefaultersPDFCardView == View("shows", {"download"}, {}, {})

MonthlyExcelCardActs == {Act("download", {"form"}, "aside", "stays", "error")}
MonthlyExcelCardView == View("shows", {"download"}, {}, {})

DefaultersTableFeeds == {Feed("rows", {"open", "key", "again"}, "show", "each", "bannerstays")}
DefaultersTableView == View("shows", {}, {}, {})

DeptReportsPageFeeds == {Feed("lists", {"open"}, "show", "ends", "hush")}
DeptReportsPageView == View("waits", {}, {}, {})

HODClassPulsePageFeeds == {Feed("data", {"open", "key"}, "show", "each", "errorstays")}
HODClassPulsePageView == View("waits", {}, {}, {})

StrugglingStudentsPanelFeeds == {Feed("students", {"open", "key"}, "drop", "ends", "hush")}
StrugglingStudentsPanelActs == {Act("notify", {}, "aside", "never", "tells")}
StrugglingStudentsPanelView == View("shows", {}, {"notify"}, {})

TeacherEngagementTrackerActs == {Act("remind", {}, "aside", "never", "tells")}
TeacherEngagementTrackerView == View("shows", {}, {"remind"}, {})

SubjectDetailModalFeeds == {Feed("data", {"open"}, "show", "each", "blanks")}
SubjectDetailModalView == View("shows", {}, {}, {})

CapsulesTableActs == {Act("toggleFeature", {}, "aside", "patch", "tells")}
CapsulesTableView == View("shows", {}, {"toggleFeature"}, {})

WallActivityTabFeeds == {Feed("posts", {"open"}, "show", "each", "blanks")}
WallActivityTabView == View("shows", {}, {}, {})

FaceReenrollPageFeeds == {Feed("students", {"open", "key"}, "show", "each", "error")}
FaceReenrollPageActs == {Act("confirmReset", {"form"}, "students", "load", "tells")}
FaceReenrollPageView == View("shows", {"confirmReset"}, {}, {})

ClassPulseOverviewCardFeeds == {Feed("data", {"open"}, "show", "ends", "blanks")}
ClassPulseOverviewCardView == View("waits", {}, {}, {})

HODOverviewFeeds == {Feed("data", {"open"}, "show", "each", "errorstays")}
HODOverviewActs == {Act("handleApproval", {}, "data", "load", "tells")}
HODOverviewView == View("waits", {}, {"handleApproval"}, {})

PendingApprovalsFeeds == {Feed("pending", {"open"}, "show", "each", "blanks")}
PendingApprovalsView == View("shows", {}, {}, {})

HODDisputesPageFeeds == {Feed("disputes", {"open"}, "show", "each", "errorstays")}
HODDisputesPageActs == {Act("handleResolve", {"form"}, "disputes", "load", "tells")}
HODDisputesPageView == View("waits", {"handleResolve"}, {}, {})

LiveSessionAnalyticsPageFeeds ==
  {Feed("overview", {"open"}, "drop", "ends", "errorstays"),
   Feed("details", {"key", "close"}, "show", "clears", "blanks")}
LiveSessionAnalyticsPageView == View("waits", {}, {}, {})

SectionAnalyticsPageFeeds == {Feed("sections", {"open"}, "show", "ends", "errorstays")}
SectionAnalyticsPageView == View("waits", {}, {}, {})

SectionsPageFeeds ==
  {Feed("sections", {"open", "key"}, "show", "each", "bannerstays"),
   Feed("courses", {"open"}, "show", "none", "hush")}
SectionsPageMoreFeeds ==
  {Feed("sectionStudents", {"key", "close"}, "show", "each", "blanks"),
   Feed("unassigned", {"key", "close"}, "show", "each", "blanks")}
SectionsPageActs ==
  {Act("submitForm", {"form"}, "sections", "load", "error"),
   Act("handleDelete", {"sure"}, "sections", "load", "tells")}
SectionsPageMoreActs ==
  {Act("removeStudent", {}, "sectionStudents", "patch", "tells"),
   Act("submitAssign", {"form"}, "sections", "load", "tells"),
   Act("submitExcel", {"form"}, "sections", "load", "tells")}
SectionsPageView ==
  View("empty", {"submitForm", "submitAssign", "submitExcel"}, {}, {"handleDelete", "removeStudent"})

SemesterProgressPageFeeds == {Feed("rows", {"open"}, "show", "ends", "errorstays")}
SemesterProgressPageView == View("waits", {}, {}, {})

StudentsPageFeeds == {Feed("data", {"open"}, "show", "ends", "errorstays")}
StudentsPageView == View("waits", {}, {}, {})

SubjectsPageFeeds == {Feed("subjects", {"open"}, "show", "ends", "errorstays")}
SubjectsPageActs == {Act("saveTotalLectures", {"form"}, "subjects", "patch", "hushes")}
SubjectsPageView == View("waits", {"saveTotalLectures"}, {}, {})

TeacherPerformancePageFeeds == {Feed("teachers", {"open"}, "show", "ends", "errorstays")}
TeacherPerformancePageView == View("waits", {}, {}, {})

TeachersPageFeeds == {Feed("teachers", {"open"}, "show", "each", "errorstays")}
TeachersPageActs == {Act("submitAddTeacher", {"form"}, "teachers", "load", "error")}
TeachersPageView == View("waits", {"submitAddTeacher"}, {}, {})

TimetablePageFeeds ==
  {Feed("entries", {"open"}, "show", "each", "tells"),
   Feed("options", {"open"}, "show", "none", "hush")}
TimetablePageActs ==
  {Act("handleUpload", {"form"}, "entries", "load", "tells"),
   Act("handleExport", {}, "aside", "stays", "tells"),
   Act("handleDelete", {"sure"}, "entries", "load", "tells")}
TimetablePageView == View("waits", {"handleUpload", "handleExport"}, {}, {"handleDelete"})

EntryModalActs == {Act("submit", {"form"}, "aside", "leave", "tells")}
EntryModalView == View("shows", {"submit"}, {}, {})

ExportButtonActs == {Act("handleExport", {}, "aside", "stays", "tells")}
ExportButtonView == View("shows", {"handleExport"}, {}, {})

AssignmentsTabFeeds == {Feed("data", {"open", "key"}, "show", "each", "tells")}
AssignmentsTabActs == {Act("handleDelete", {"sure"}, "data", "load", "tells")}
AssignmentsTabView == View("waits", {}, {}, {"handleDelete"})

AssignTabFeeds == {Feed("options", {"open", "key"}, "show", "none", "hush")}
AssignTabActs == {Act("assign", {"form"}, "aside", "stays", "tells")}
AssignTabView == View("shows", {"assign"}, {}, {})

UnassignedTabFeeds == {Feed("data", {"open", "key"}, "show", "each", "tells")}
UnassignedTabActs == {Act("assignNow", {"form"}, "data", "load", "tells")}
UnassignedTabView == View("waits", {"assignNow"}, {}, {})

TutorOverviewPageFeeds == {Feed("tutors", {"open"}, "show", "ends", "errorstays")}
TutorOverviewPageView == View("waits", {}, {}, {})

WebHodPageTable ==
  {Screen("BulkAlertSection", BulkAlertSectionFeeds, BulkAlertSectionActs, BulkAlertSectionView),
   Screen("CustomAlertSection", {}, CustomAlertSectionActs, CustomAlertSectionView),
   Screen("AlertHistorySection", AlertHistorySectionFeeds, {}, AlertHistorySectionView),
   Screen("AlertsPage", AlertsPageFeeds, {}, AlertsPageView),
   Screen("StudentReportCard", {}, StudentReportCardActs, StudentReportCardView),
   Screen("ClassSessionCard", ClassSessionCardFeeds, ClassSessionCardActs, ClassSessionCardView),
   Screen("DefaultersPDFCard", {}, DefaultersPDFCardActs, DefaultersPDFCardView),
   Screen("MonthlyExcelCard", {}, MonthlyExcelCardActs, MonthlyExcelCardView),
   Screen("DefaultersTable", DefaultersTableFeeds, {}, DefaultersTableView),
   Screen("DeptReportsPage", DeptReportsPageFeeds, {}, DeptReportsPageView),
   Screen("HODClassPulsePage", HODClassPulsePageFeeds, {}, HODClassPulsePageView),
   Screen("StrugglingStudentsPanel", StrugglingStudentsPanelFeeds, StrugglingStudentsPanelActs, StrugglingStudentsPanelView),
   Screen("TeacherEngagementTracker", {}, TeacherEngagementTrackerActs, TeacherEngagementTrackerView),
   Screen("SubjectDetailModal", SubjectDetailModalFeeds, {}, SubjectDetailModalView),
   Screen("CapsulesTable", {}, CapsulesTableActs, CapsulesTableView),
   Screen("WallActivityTab", WallActivityTabFeeds, {}, WallActivityTabView),
   Screen("FaceReenrollPage", FaceReenrollPageFeeds, FaceReenrollPageActs, FaceReenrollPageView),
   Screen("ClassPulseOverviewCard", ClassPulseOverviewCardFeeds, {}, ClassPulseOverviewCardView),
   Screen("HODOverview", HODOverviewFeeds, HODOverviewActs, HODOverviewView),
   Screen("PendingApprovals", PendingApprovalsFeeds, {}, PendingApprovalsView),
   Screen("HODDisputesPage", HODDisputesPageFeeds, HODDisputesPageActs, HODDisputesPageView),
   Screen("LiveSessionAnalyticsPage", LiveSessionAnalyticsPageFeeds, {}, LiveSessionAnalyticsPageView),
   Screen("SectionAnalyticsPage", SectionAnalyticsPageFeeds, {}, SectionAnalyticsPageView),
   Screen("SectionsPage", SectionsPageFeeds \union SectionsPageMoreFeeds, SectionsPageActs \union SectionsPageMoreActs, SectionsPageView),
   Screen("SemesterProgressPage", SemesterProgressPageFeeds, {}, SemesterProgressPageView),
   Screen("StudentsPage", StudentsPageFeeds, {}, StudentsPageView),
   Screen("SubjectsPage", SubjectsPageFeeds, SubjectsPageActs, SubjectsPageView),
   Screen("TeacherPerformancePage", TeacherPerformancePageFeeds, {}, TeacherPerformancePageView),
   Screen("TeachersPage", TeachersPageFeeds, TeachersPageActs, TeachersPageView),
   Screen("TimetablePage", TimetablePageFeeds, TimetablePageActs, TimetablePageView),
   Screen("EntryModal", {}, EntryModalActs, EntryModalView),
   Screen("ExportButton", {}, ExportButtonActs, ExportButtonView),
   Screen("AssignmentsTab", AssignmentsTabFeeds, AssignmentsTabActs, AssignmentsTabView),
   Screen("AssignTab", AssignTabFeeds, AssignTabActs, AssignTabView),
   Screen("UnassignedTab", UnassignedTabFeeds, UnassignedTabActs, UnassignedTabView),
   Screen("TutorOverviewPage", TutorOverviewPageFeeds, {}, TutorOverviewPageView)}
=============================================================================

--------------------------- MODULE WebSharedPages ---------------------------
(* The web pages all roles share, in the words of ScreenParts. *)
EXTENDS ScreenParts

ArticleDetailPageFeeds == {Feed("article", {"open", "key"}, "show", "each", "error")}
ArticleDetailPageView == View("waits", {}, {}, {})

CareerRoadmapPageFeeds == {Feed("saved", {"open"}, "show", "none", "hush")}
CareerRoadmapPageActs ==
  {Act("generate", {"form"}, "aside", "stays", "error"),
   Act("saveRoadmap", {}, "saved", "await", "tells")}
CareerRoadmapPageView == View("shows", {"saveRoadmap"}, {}, {})

FeedPageFeeds == {Feed("articles", {"open", "key", "pull", "more"}, "show", "each", "banner")}
FeedPageView == View("waits", {}, {}, {})

NotificationsInboxPageFeeds == {Feed("items", {"open", "again"}, "show", "each", "banner")}
NotificationsInboxPageView == View("empty", {}, {}, {})

ProfilePageFeeds == {Feed("profile", {"open"}, "drop", "ends", "errorstays")}
ProfilePageActs ==
  {Act("requestOtp", {}, "aside", "stays", "error"),
   Act("confirmPwChange", {"form"}, "aside", "leave", "error")}
ProfilePageView == View("waits", {"requestOtp", "confirmPwChange"}, {}, {})

SubmitTabFeeds == {Feed("subjects", {"open"}, "never", "none", "hush")}
SubmitTabActs == {Act("handleSubmit", {"form"}, "aside", "stays", "error")}
SubmitTabView == View("shows", {"handleSubmit"}, {}, {})

MySubmissionsTabFeeds == {Feed("items", {"open"}, "show", "ends", "hush")}
MySubmissionsTabView == View("waits", {}, {}, {})

TeacherFeedbackTabFeeds == {Feed("data", {"open"}, "show", "ends", "hush")}
TeacherFeedbackTabView == View("waits", {}, {}, {})

AIAnalysisTabFeeds == {Feed("report", {"open"}, "show", "ends", "hush")}
AIAnalysisTabActs == {Act("generateReport", {}, "report", "patch", "error")}
AIAnalysisTabView == View("waits", {"generateReport"}, {}, {})

AllFeedbackTabFeeds == {Feed("items", {"open", "again"}, "show", "each", "hush")}
AllFeedbackTabView == View("waits", {}, {}, {})

RespondModalActs == {Act("save", {"form"}, "aside", "leave", "error")}
RespondModalView == View("shows", {"save"}, {}, {})

WebSharedPageTable ==
  {Screen("ArticleDetailPage", ArticleDetailPageFeeds, {}, ArticleDetailPageView),
   Screen("CareerRoadmapPage", CareerRoadmapPageFeeds, CareerRoadmapPageActs, CareerRoadmapPageView),
   Screen("FeedPage", FeedPageFeeds, {}, FeedPageView),
   Screen("NotificationsInboxPage", NotificationsInboxPageFeeds, {}, NotificationsInboxPageView),
   Screen("ProfilePage", ProfilePageFeeds, ProfilePageActs, ProfilePageView),
   Screen("SubmitTab", SubmitTabFeeds, SubmitTabActs, SubmitTabView),
   Screen("MySubmissionsTab", MySubmissionsTabFeeds, {}, MySubmissionsTabView),
   Screen("TeacherFeedbackTab", TeacherFeedbackTabFeeds, {}, TeacherFeedbackTabView),
   Screen("AIAnalysisTab", AIAnalysisTabFeeds, AIAnalysisTabActs, AIAnalysisTabView),
   Screen("AllFeedbackTab", AllFeedbackTabFeeds, {}, AllFeedbackTabView),
   Screen("RespondModal", {}, RespondModalActs, RespondModalView)}
=============================================================================

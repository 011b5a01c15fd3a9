---------------------------- MODULE WebLivePages ----------------------------
(* The web pages of live sessions, in the words of ScreenParts. *)
EXTENDS ScreenParts

CreateSessionModalFeeds ==
  {Feed("subjects", {"open"}, "show", "each", "blanks"),
   Feed("capsules", {"open"}, "show", "none", "blanks")}
CreateSessionModalActs == {Act("submit", {"form"}, "aside", "leave", "error")}
CreateSessionModalView == View("shows", {"submit"}, {}, {})

WhiteboardModalActs ==
  {Act("generate", {"form"}, "aside", "stays", "error"),
   Act("generateFromCode", {"form"}, "aside", "stays", "error")}
WhiteboardModalView == View("shows", {"generate", "generateFromCode"}, {}, {})

PulseModalFeeds == {Feed("counts", {"timer"}, "drop", "none", "hush")}
PulseModalActs ==
  {Act("sendPulse", {"form"}, "aside", "stays", "error"),
   Act("closeEarly", {}, "aside", "stays", "error")}
PulseModalView == View("shows", {"sendPulse", "closeEarly"}, {}, {})

AIBrainPanelFeeds == {Feed("obs", {"open", "timer"}, "show", "none", "hush")}
AIBrainPanelActs == {Act("triggerNow", {}, "obs", "patch", "error")}
AIBrainPanelView == View("shows", {"triggerNow"}, {}, {})

DoubtWallFeeds == {Feed("doubts", {"open", "timer"}, "never", "none", "hush")}
DoubtWallActs == {Act("post", {}, "doubts", "never", "hushes")}
DoubtWallView == View("shows", {}, {}, {"post"})

LivePanelFeeds ==
  {Feed("details", {"open", "timer"}, "show", "none", "hush"),
   Feed("credentials", {"open"}, "drop", "ends", "error")}
LivePanelMoreFeeds ==
  {Feed("names", {"open", "timer"}, "drop", "none", "hush"),
   Feed("attention", {"open", "timer"}, "drop", "none", "hush"),
   Feed("intervention", {"timer"}, "drop", "none", "hush")}
LivePanelActs == {Act("handleInterventionAction", {}, "aside", "first", "hushes")}
LivePanelView == View("shows", {}, {}, {})

PostSessionViewFeeds ==
  {Feed("report", {"open"}, "show", "none", "hush"),
   Feed("capsule", {"timer"}, "show", "none", "hush")}
PostSessionViewView == View("shows", {}, {}, {})

BreakoutModalActs ==
  {Act("start", {"form"}, "aside", "leave", "error"),
   Act("endNow", {}, "aside", "leave", "error")}
BreakoutModalView == View("shows", {"start", "endNow"}, {}, {})

BreakoutStatusPanelFeeds == {Feed("rooms", {"open", "timer"}, "drop", "none", "hush")}
BreakoutStatusPanelActs == {Act("endAll", {}, "aside", "stays", "hushes")}
BreakoutStatusPanelView == View("shows", {}, {}, {})

TeacherPreClassBriefFeeds == {Feed("brief", {"open"}, "never", "ends", "errorstays")}
TeacherPreClassBriefActs == {Act("sendResource", {}, "aside", "never", "hushes")}
TeacherPreClassBriefView == View("waits", {}, {}, {"sendResource"})

StudentKnowledgeGraphPageFeeds ==
  {Feed("subjects", {"open"}, "show", "ends", "hush"),
   Feed("graph", {"open", "key"}, "show", "each", "bannerstays")}
StudentKnowledgeGraphPageView == View("waits", {}, {}, {})

JoinSessionPageFeeds == {Feed("meta", {"open"}, "drop", "none", "hush")}
JoinSessionPageActs == {Act("probe", {}, "aside", "leave", "error")}
JoinSessionPageView == View("shows", {"probe"}, {}, {})

AskTopicModalActs == {Act("submit", {"form"}, "aside", "leave", "error")}
AskTopicModalView == View("shows", {"submit"}, {}, {})

StudentLiveSessionFeeds ==
  {Feed("doubts", {"open", "timer"}, "never", "none", "hush"),
   Feed("warmup", {"open"}, "show", "none", "hush"),
   Feed("liveSummary", {"open", "timer"}, "show", "none", "hush")}
StudentLiveSessionActs ==
  {Act("sendDoubt", {"form"}, "doubts", "never", "hushes"),
   Act("sendResonance", {}, "doubts", "first", "hushes"),
   Act("submitPulse", {"form"}, "aside", "never", "hushes")}
StudentLiveSessionMoreActs ==
  {Act("completeLiveness", {}, "aside", "never", "hushes"),
   Act("leave", {}, "aside", "never", "hushes")}
StudentLiveSessionView == View("waits", {}, {}, {"sendResonance"})

SmartReplayPageFeeds ==
  {Feed("replay", {"open"}, "show", "each", "errorstays"),
   Feed("clips", {"open"}, "show", "none", "hush")}
SmartReplayPageView == View("waits", {}, {}, {})

TeacherLiveDashboardFeeds == {Feed("sessions", {"open", "timer"}, "show", "none", "hush")}
TeacherLiveDashboardActs ==
  {Act("startSession", {}, "sessions", "load", "hushes"),
   Act("endSession", {}, "sessions", "load", "hushes")}
TeacherLiveDashboardView == View("shows", {}, {}, {"startSession", "endSession"})

SessionHealthReportFeeds ==
  {Feed("report", {"open"}, "show", "ends", "errorstays"),
   Feed("bookmarks", {"open"}, "show", "none", "hush")}
SessionHealthReportActs == {Act("saveRecordingUrl", {"form"}, "aside", "stays", "hushes")}
SessionHealthReportView == View("waits", {"saveRecordingUrl"}, {}, {})

WebLivePageTable ==
  {Screen("CreateSessionModal", CreateSessionModalFeeds, CreateSessionModalActs, CreateSessionModalView),
   Screen("WhiteboardModal", {}, WhiteboardModalActs, WhiteboardModalView),
   Screen("PulseModal", PulseModalFeeds, PulseModalActs, PulseModalView),
   Screen("AIBrainPanel", AIBrainPanelFeeds, AIBrainPanelActs, AIBrainPanelView),
   Screen("DoubtWall", DoubtWallFeeds, DoubtWallActs, DoubtWallView),
   Screen("LivePanel", LivePanelFeeds \union LivePanelMoreFeeds, LivePanelActs, LivePanelView),
   Screen("PostSessionView", PostSessionViewFeeds, {}, PostSessionViewView),
   Screen("BreakoutModal", {}, BreakoutModalActs, BreakoutModalView),
   Screen("BreakoutStatusPanel", BreakoutStatusPanelFeeds, BreakoutStatusPanelActs, BreakoutStatusPanelView),
   Screen("TeacherPreClassBrief", TeacherPreClassBriefFeeds, TeacherPreClassBriefActs, TeacherPreClassBriefView),
   Screen("StudentKnowledgeGraphPage", StudentKnowledgeGraphPageFeeds, {}, StudentKnowledgeGraphPageView),
   Screen("JoinSessionPage", JoinSessionPageFeeds, JoinSessionPageActs, JoinSessionPageView),
   Screen("AskTopicModal", {}, AskTopicModalActs, AskTopicModalView),
   Screen("StudentLiveSession", StudentLiveSessionFeeds, StudentLiveSessionActs \union StudentLiveSessionMoreActs, StudentLiveSessionView),
   Screen("SmartReplayPage", SmartReplayPageFeeds, {}, SmartReplayPageView),
   Screen("TeacherLiveDashboard", TeacherLiveDashboardFeeds, TeacherLiveDashboardActs, TeacherLiveDashboardView),
   Screen("SessionHealthReport", SessionHealthReportFeeds, SessionHealthReportActs, SessionHealthReportView)}
=============================================================================

--------------------------- MODULE Screens_proofs ---------------------------
(***************************************************************************)
(* Proofs about Screens, for every screen of its tables and any number of  *)
(* fetches and calls, and about PhoneScan, the one screen that is more     *)
(* than a table row, for any number of photos and codes.                   *)
(***************************************************************************)
EXTENDS Screens, PhoneScan, FiniteSetTheorems, TLAPS

-----------------------------------------------------------------------------
(* What the tables say of the screens that a promise names *)

\* The screens of which something is promised by name.
Pledged ==
  {"LeaveRequestScreen", "DisputeScreen", "NotificationsScreen", "AttendanceManageScreen",
   "LeaveManagementScreen", "HODDisputesScreen", "BulkAlertSection", "ClassSessionCard",
   "HODDisputesPage", "TeachersPage", "PulseModal", "VoicePlayer", "Quiz", "StudentHome",
   "StudentLeavePage", "GenerateQRPage", "CapsuleUploadModal", "CapsuleAnalyticsPanel",
   "LeaveRequestsPage", "SubjectAnalyticsPage", "TWMPage", "CollegeReportsPage",
   "PrincipalAlertsPage", "PrincipalAuditPage", "CollegeDetailPage"}

\* Failures that show an error, and those that the next fetch clears again.
SetsError == {"error", "errorstays", "banner", "bannerstays"}
ClearsError == {"error", "banner"}

\* f never shows an answer for a key that is no longer selected, and leaves nothing
\* of the old key, or an error, when it fails.
ShowsItsKey(f) ==
  /\ f.fails # "closes" /\ "pick" \notin f.on
  /\ "key" \in f.on => /\ f.late \in {"drop", "hold"}
                       /\ f.spin = "clears" \/ f.fails \in SetsError \union {"blanks"}
  /\ "close" \in f.on => f.late = "hold"
LeavesRows(a) == a.ok = "stays" /\ a.no \notin {"undoes", "reloads"}

\* The rows stay open, and a decision is followed by a fetch or by a change of the rows.
StaysOpen(f) == "open" \in f.on /\ "close" \notin f.on /\ f.fails # "closes"
ShowsItsEffect(a) == a.ok \in {"load", "await", "patch"} /\ a.no # "undoes"

\* A fetch clears the error of the one before.
Recovers(f) == f.fails \in SetsError => f.fails \in ClearsError

\* One fetch at a time, where the error view has no button of its own.
Lone(f) == f.fails \in SetsError /\ "retry" \notin f.on
OneByOne(f, first) == Lone(f) =>
  /\ f.on \subseteq {"open", "key", "pull", "pick", "apply"}
  /\ "key" \in f.on => f.late \in {"drop", "hold"} /\ {"pull", "apply"} \intersect f.on = {}
  /\ "pull" \in f.on => first = "waits" /\ f.spin # "none"
  /\ "apply" \in f.on => f.spin = "each"
StartsNoFetch(a) == a.ok \notin {"load", "await"} /\ a.no # "reloads"

FilterSafe(s) ==
  s.name \in FilteredPages =>
    (\A f \in s.feeds : ShowsItsKey(f)) /\ (\A a \in s.acts : LeavesRows(a))
OnceSafe(s) ==
  \A a \in s.acts : <<s.name, a.name>> \in SingleShots =>
    a.name \in s.view.locks /\ \A f \in s.feeds : "await" \notin f.on
DecisionSafe(s) ==
  \A a \in s.acts : <<s.name, a.name>> \in DecisionQueues =>
    ShowsItsEffect(a) /\ a.hits \notin {"none", "aside"} /\ \A f \in s.feeds : f.name = a.hits => StaysOpen(f)
TruthSafe(s) ==
  s.name \in RecoveringScreens =>
    /\ \A f \in s.feeds : Recovers(f) /\ OneByOne(f, s.view.first)
    /\ (\A f \in s.feeds : ~Lone(f)) \/ (\A a \in s.acts : StartsNoFetch(a))
Sound(s) == FilterSafe(s) /\ OnceSafe(s) /\ DecisionSafe(s) /\ TruthSafe(s)

LEMMA StudentScreensSound == \A s \in StudentScreenTable : s.name \in Pledged => Sound(s)
  <1> USE DEF Sound, FilterSafe, OnceSafe, DecisionSafe, TruthSafe, ShowsItsKey, LeavesRows,
              StaysOpen, ShowsItsEffect, Recovers, Lone, OneByOne, StartsNoFetch, SetsError, ClearsError,
              FilteredPages, SingleShots, DecisionQueues, RecoveringScreens, Screen, Feed, Act, View
  <1>1. Sound(Screen("LeaveRequestScreen",
        LeaveRequestScreenFeeds,
        LeaveRequestScreenActs,
        LeaveRequestScreenView))
    BY DEF LeaveRequestScreenFeeds, LeaveRequestScreenActs, LeaveRequestScreenView
  <1>2. Sound(Screen("DisputeScreen", DisputeScreenFeeds, DisputeScreenActs, DisputeScreenView))
    BY DEF DisputeScreenFeeds, DisputeScreenActs, DisputeScreenView
  <1>3. Sound(Screen("NotificationsScreen",
        NotificationsScreenFeeds, {},
        NotificationsScreenView))
    BY DEF NotificationsScreenFeeds, NotificationsScreenView
  <1>4. ASSUME NEW s \in StudentScreenTable, s.name \in Pledged PROVE Sound(s)
    BY <1>4, <1>1, <1>2, <1>3 DEF StudentScreenTable, Pledged
  <1> QED  BY <1>4

LEMMA TeacherScreensSound == \A s \in TeacherScreenTable : s.name \in Pledged => Sound(s)
  <1> USE DEF Sound, FilterSafe, OnceSafe, DecisionSafe, TruthSafe, ShowsItsKey, LeavesRows,
              StaysOpen, ShowsItsEffect, Recovers, Lone, OneByOne, StartsNoFetch, SetsError, ClearsError,
              FilteredPages, SingleShots, DecisionQueues, RecoveringScreens, Screen, Feed, Act, View
  <1>1. Sound(Screen("AttendanceManageScreen",
        AttendanceManageScreenFeeds,
        AttendanceManageScreenActs,
        AttendanceManageScreenView))
    BY DEF AttendanceManageScreenFeeds, AttendanceManageScreenActs, AttendanceManageScreenView
  <1>2. Sound(Screen("LeaveManagementScreen",
        LeaveManagementScreenFeeds,
        LeaveManagementScreenActs,
        LeaveManagementScreenView))
    BY DEF LeaveManagementScreenFeeds, LeaveManagementScreenActs, LeaveManagementScreenView
  <1>3. ASSUME NEW s \in TeacherScreenTable, s.name \in Pledged PROVE Sound(s)
    BY <1>3, <1>1, <1>2 DEF TeacherScreenTable, Pledged
  <1> QED  BY <1>3

LEMMA HodScreensSound == \A s \in HodScreenTable : s.name \in Pledged => Sound(s)
  <1> USE DEF Sound, FilterSafe, OnceSafe, DecisionSafe, TruthSafe, ShowsItsKey, LeavesRows,
              StaysOpen, ShowsItsEffect, Recovers, Lone, OneByOne, StartsNoFetch, SetsError, ClearsError,
              FilteredPages, SingleShots, DecisionQueues, RecoveringScreens, Screen, Feed, Act, View
  <1>1. Sound(Screen("HODDisputesScreen",
        HODDisputesScreenFeeds,
        HODDisputesScreenActs,
        HODDisputesScreenView))
    BY DEF HODDisputesScreenFeeds, HODDisputesScreenActs, HODDisputesScreenView
  <1>2. ASSUME NEW s \in HodScreenTable, s.name \in Pledged PROVE Sound(s)
    BY <1>2, <1>1 DEF HodScreenTable, Pledged
  <1> QED  BY <1>2

LEMMA PrincipalScreensSound == \A s \in PrincipalScreenTable : s.name \in Pledged => Sound(s)
  BY DEF PrincipalScreenTable, Pledged, Screen

LEMMA WebHodPagesSound == \A s \in WebHodPageTable : s.name \in Pledged => Sound(s)
  <1> USE DEF Sound, FilterSafe, OnceSafe, DecisionSafe, TruthSafe, ShowsItsKey, LeavesRows,
              StaysOpen, ShowsItsEffect, Recovers, Lone, OneByOne, StartsNoFetch, SetsError, ClearsError,
              FilteredPages, SingleShots, DecisionQueues, RecoveringScreens, Screen, Feed, Act, View
  <1>1. Sound(Screen("BulkAlertSection",
        BulkAlertSectionFeeds,
        BulkAlertSectionActs,
        BulkAlertSectionView))
    BY DEF BulkAlertSectionFeeds, BulkAlertSectionActs, BulkAlertSectionView
  <1>2. Sound(Screen("ClassSessionCard",
        ClassSessionCardFeeds,
        ClassSessionCardActs,
        ClassSessionCardView))
    BY DEF ClassSessionCardFeeds, ClassSessionCardActs, ClassSessionCardView
  <1>3. Sound(Screen("HODDisputesPage",
        HODDisputesPageFeeds,
        HODDisputesPageActs,
        HODDisputesPageView))
    BY DEF HODDisputesPageFeeds, HODDisputesPageActs, HODDisputesPageView
  <1>4. Sound(Screen("TeachersPage", TeachersPageFeeds, TeachersPageActs, TeachersPageView))
    BY DEF TeachersPageFeeds, TeachersPageActs, TeachersPageView
  <1>5. ASSUME NEW s \in WebHodPageTable, s.name \in Pledged PROVE Sound(s)
    BY <1>5, <1>1, <1>2, <1>3, <1>4 DEF WebHodPageTable, Pledged
  <1> QED  BY <1>5

LEMMA WebLivePagesSound == \A s \in WebLivePageTable : s.name \in Pledged => Sound(s)
  <1> USE DEF Sound, FilterSafe, OnceSafe, DecisionSafe, TruthSafe, ShowsItsKey, LeavesRows,
              StaysOpen, ShowsItsEffect, Recovers, Lone, OneByOne, StartsNoFetch, SetsError, ClearsError,
              FilteredPages, SingleShots, DecisionQueues, RecoveringScreens, Screen, Feed, Act, View
  <1>1. Sound(Screen("PulseModal", PulseModalFeeds, PulseModalActs, PulseModalView))
    BY DEF PulseModalFeeds, PulseModalActs, PulseModalView
  <1>2. ASSUME NEW s \in WebLivePageTable, s.name \in Pledged PROVE Sound(s)
    BY <1>2, <1>1 DEF WebLivePageTable, Pledged
  <1> QED  BY <1>2

LEMMA WebStudentPagesSound == \A s \in WebStudentPageTable : s.name \in Pledged => Sound(s)
  <1> USE DEF Sound, FilterSafe, OnceSafe, DecisionSafe, TruthSafe, ShowsItsKey, LeavesRows,
              StaysOpen, ShowsItsEffect, Recovers, Lone, OneByOne, StartsNoFetch, SetsError, ClearsError,
              FilteredPages, SingleShots, DecisionQueues, RecoveringScreens, Screen, Feed, Act, View
  <1>1. Sound(Screen("VoicePlayer", VoicePlayerFeeds, {}, VoicePlayerView))
    BY DEF VoicePlayerFeeds, VoicePlayerView
  <1>2. Sound(Screen("Quiz", {}, QuizActs, QuizView))
    BY DEF QuizActs, QuizView
  <1>3. Sound(Screen("StudentHome", StudentHomeFeeds, StudentHomeActs, StudentHomeView))
    BY DEF StudentHomeFeeds, StudentHomeActs, StudentHomeView
  <1>4. Sound(Screen("StudentLeavePage",
        StudentLeavePageFeeds,
        StudentLeavePageActs,
        StudentLeavePageView))
    BY DEF StudentLeavePageFeeds, StudentLeavePageActs, StudentLeavePageView
  <1>5. ASSUME NEW s \in WebStudentPageTable, s.name \in Pledged PROVE Sound(s)
    BY <1>5, <1>1, <1>2, <1>3, <1>4 DEF WebStudentPageTable, Pledged
  <1> QED  BY <1>5

LEMMA WebTeacherPagesSound == \A s \in WebTeacherPageTable : s.name \in Pledged => Sound(s)
  <1> USE DEF Sound, FilterSafe, OnceSafe, DecisionSafe, TruthSafe, ShowsItsKey, LeavesRows,
              StaysOpen, ShowsItsEffect, Recovers, Lone, OneByOne, StartsNoFetch, SetsError, ClearsError,
              FilteredPages, SingleShots, DecisionQueues, RecoveringScreens, Screen, Feed, Act, View
  <1>1. Sound(Screen("GenerateQRPage",
        GenerateQRPageFeeds,
        GenerateQRPageActs \union GenerateQRPageMoreActs,
        GenerateQRPageView))
    BY DEF GenerateQRPageFeeds, GenerateQRPageActs, GenerateQRPageMoreActs, GenerateQRPageView
  <1>2. Sound(Screen("CapsuleUploadModal", {}, CapsuleUploadModalActs, CapsuleUploadModalView))
    BY DEF CapsuleUploadModalActs, CapsuleUploadModalView
  <1>3. Sound(Screen("CapsuleAnalyticsPanel",
        CapsuleAnalyticsPanelFeeds, {},
        CapsuleAnalyticsPanelView))
    BY DEF CapsuleAnalyticsPanelFeeds, CapsuleAnalyticsPanelView
  <1>4. Sound(Screen("LeaveRequestsPage",
        LeaveRequestsPageFeeds,
        LeaveRequestsPageActs,
        LeaveRequestsPageView))
    BY DEF LeaveRequestsPageFeeds, LeaveRequestsPageActs, LeaveRequestsPageView
  <1>5. Sound(Screen("SubjectAnalyticsPage",
        SubjectAnalyticsPageFeeds, {},
        SubjectAnalyticsPageView))
    BY DEF SubjectAnalyticsPageFeeds, SubjectAnalyticsPageView
  <1>6. Sound(Screen("TWMPage",
        TWMPageFeeds \union TWMPageMoreFeeds \union TWMPageLastFeeds,
        TWMPageActs \union TWMPageMoreActs,
        TWMPageView))
    BY DEF TWMPageFeeds, TWMPageMoreFeeds, TWMPageLastFeeds, TWMPageActs, TWMPageMoreActs,
           TWMPageView
  <1>7. ASSUME NEW s \in WebTeacherPageTable, s.name \in Pledged PROVE Sound(s)
    BY <1>7, <1>1, <1>2, <1>3, <1>4, <1>5, <1>6 DEF WebTeacherPageTable, Pledged
  <1> QED  BY <1>7

LEMMA WebSharedPagesSound == \A s \in WebSharedPageTable : s.name \in Pledged => Sound(s)
  BY DEF WebSharedPageTable, Pledged, Screen

LEMMA WebAdminPagesSound == \A s \in WebAdminPageTable : s.name \in Pledged => Sound(s)
  <1> USE DEF Sound, FilterSafe, OnceSafe, DecisionSafe, TruthSafe, ShowsItsKey, LeavesRows,
              StaysOpen, ShowsItsEffect, Recovers, Lone, OneByOne, StartsNoFetch, SetsError, ClearsError,
              FilteredPages, SingleShots, DecisionQueues, RecoveringScreens, Screen, Feed, Act, View
  <1>1. Sound(Screen("CollegeReportsPage", CollegeReportsPageFeeds, {}, CollegeReportsPageView))
    BY DEF CollegeReportsPageFeeds, CollegeReportsPageView
  <1>2. Sound(Screen("PrincipalAlertsPage",
        PrincipalAlertsPageFeeds,
        PrincipalAlertsPageActs,
        PrincipalAlertsPageView))
    BY DEF PrincipalAlertsPageFeeds, PrincipalAlertsPageActs, PrincipalAlertsPageView
  <1>3. Sound(Screen("PrincipalAuditPage", PrincipalAuditPageFeeds, {}, PrincipalAuditPageView))
    BY DEF PrincipalAuditPageFeeds, PrincipalAuditPageView
  <1>4. Sound(Screen("CollegeDetailPage", CollegeDetailPageFeeds, {}, CollegeDetailPageView))
    BY DEF CollegeDetailPageFeeds, CollegeDetailPageView
  <1>5. ASSUME NEW s \in WebAdminPageTable, s.name \in Pledged PROVE Sound(s)
    BY <1>5, <1>1, <1>2, <1>3, <1>4 DEF WebAdminPageTable, Pledged
  <1> QED  BY <1>5

LEMMA ScreensSound ==
  /\ \A s \in AllScreens : s.name \in Pledged => Sound(s)
  /\ \A s \in AllScreens : \A a : s.name \notin Pledged => Promised(s, a) = {}
  <1>1. ASSUME NEW s \in AllScreens, s.name \in Pledged PROVE Sound(s)
    BY <1>1, StudentScreensSound, TeacherScreensSound, HodScreensSound, PrincipalScreensSound,
       WebHodPagesSound, WebLivePagesSound, WebStudentPagesSound, WebTeacherPagesSound,
       WebSharedPagesSound, WebAdminPagesSound DEF AllScreens
  <1>2. ASSUME NEW s, NEW a, s.name \notin Pledged PROVE Promised(s, a) = {}
    BY <1>2 DEF Promised, Pledged, FilteredPages, SingleShots, DecisionQueues, RecoveringScreens
  <1> QED  BY <1>1, <1>2

\* What is promised of a mode rests on how its fetch and its call behave.
Kept(m) ==
  /\ "filter" \in m.keeps => ShowsItsKey(m) /\ LeavesRows(m)
  /\ "once" \in m.keeps => m.lock = "whole" /\ "await" \notin m.on
  /\ "decided" \in m.keeps => ShowsItsEffect(m) /\ StaysOpen(m)
  /\ "truth" \in m.keeps => Recovers(m) /\ OneByOne(m, m.first) /\ (Lone(m) => StartsNoFetch(m))

LEMMA ModeFields ==
  ASSUME NEW s, NEW f, NEW a, NEW m, m = Mode(s, f, a)
  PROVE  /\ m.on = f.on /\ m.late = f.late /\ m.spin = f.spin /\ m.fails = f.fails
         /\ m.act \in BOOLEAN /\ m.ok = a.ok /\ m.no = a.no
         /\ m.lock = Lock(s, a) /\ m.lock \in {"whole", "row", "card", "none"}
         /\ m.first = s.view.first /\ m.keeps = Promised(s, a)
  BY DEF Mode, Lock

LEMMA ModesKept ==
  ASSUME NEW m \in Modes
  PROVE  m.act \in BOOLEAN /\ m.lock \in {"whole", "row", "card", "none"} /\ Kept(m)
  <1>0. \E s \in AllScreens : \E f, a :
          /\ m = Mode(s, f, a) /\ a.hits \in {f.name, "aside"}
          /\ f \in s.feeds \/ f = NoFeed
          /\ a \in s.acts \/ a = NoAct
    <2> DEFINE OfFeed(s, f) == {Mode(s, f, a) : a \in IF ActsOn(s, f) = {} THEN {NoAct} ELSE ActsOn(s, f)}
               OfFeeds(s) == UNION {OfFeed(s, f) : f \in s.feeds}
               Aside(s) == {Mode(s, NoFeed, a) : a \in {b \in s.acts : b.hits = "aside"}}
    <2>1. \A s : m \in OfFeeds(s) => \E f \in s.feeds : m \in OfFeed(s, f)
      OBVIOUS
    <2>2. \A s, f : m \in OfFeed(s, f) =>
            \E a : m = Mode(s, f, a) /\ a.hits \in {f.name, "aside"} /\ (a \in s.acts \/ a = NoAct)
      BY DEF ActsOn, NoAct, Act
    <2>3. \A s : m \in Aside(s) => \E a : m = Mode(s, NoFeed, a) /\ a.hits = "aside" /\ a \in s.acts
      OBVIOUS
    <2>4. \A s : ModesOf(s) = OfFeeds(s) \union Aside(s)
      BY DEF ModesOf
    <2> HIDE DEF OfFeed, OfFeeds, Aside
    <2>5. PICK s \in AllScreens : m \in OfFeeds(s) \/ m \in Aside(s)
      BY <2>4 DEF Modes
    <2> QED  BY <2>1, <2>2, <2>3, <2>5
  <1>s. PICK s \in AllScreens : \E f, a :
          /\ m = Mode(s, f, a) /\ a.hits \in {f.name, "aside"}
          /\ f \in s.feeds \/ f = NoFeed
          /\ a \in s.acts \/ a = NoAct
    BY <1>0
  <1>1. PICK f, a :
          /\ m = Mode(s, f, a) /\ a.hits \in {f.name, "aside"}
          /\ f \in s.feeds \/ f = NoFeed
          /\ a \in s.acts \/ a = NoAct
    BY <1>s
  <1>4. /\ m.on = f.on /\ m.late = f.late /\ m.spin = f.spin /\ m.fails = f.fails
        /\ m.act \in BOOLEAN /\ m.ok = a.ok /\ m.no = a.no
        /\ m.lock = Lock(s, a) /\ m.lock \in {"whole", "row", "card", "none"}
        /\ m.first = s.view.first /\ m.keeps = Promised(s, a)
    BY <1>1, ModeFields
  <1>5. CASE s.name \notin Pledged
    BY <1>4, <1>5, ScreensSound DEF Kept
  <1>6. CASE s.name \in Pledged
    <2>1. Sound(s)
      BY <1>6, ScreensSound
    <2>2. /\ NoFeed.name = "none" /\ NoFeed.on = {} /\ NoFeed.fails = "hush"
          /\ NoAct.name = "none" /\ NoAct.ok = "stays" /\ NoAct.no = "hushes" /\ NoAct.hits = "aside"
      BY DEF NoFeed, NoAct, Feed, Act
    <2>3. ASSUME "filter" \in m.keeps PROVE ShowsItsKey(m) /\ LeavesRows(m)
      <3>1. s.name \in FilteredPages
        BY <1>4, <2>3 DEF Promised
      <3>2. ShowsItsKey(f) /\ LeavesRows(a)
        BY <1>1, <2>1, <2>2, <3>1 DEF Sound, FilterSafe, ShowsItsKey, LeavesRows, SetsError
      <3> QED  BY <1>4, <3>2 DEF ShowsItsKey, LeavesRows
    <2>4. ASSUME "once" \in m.keeps PROVE m.lock = "whole" /\ "await" \notin m.on
      <3>1. <<s.name, a.name>> \in SingleShots
        BY <1>4, <2>4 DEF Promised
      <3>2. a.name # "none"
        BY <3>1 DEF SingleShots
      <3>3. a.name \in s.view.locks /\ "await" \notin f.on
        BY <1>1, <2>1, <2>2, <3>1, <3>2 DEF Sound, OnceSafe
      <3> QED  BY <1>4, <3>3 DEF Lock
    <2>5. ASSUME "decided" \in m.keeps PROVE ShowsItsEffect(m) /\ StaysOpen(m)
      <3>1. <<s.name, a.name>> \in DecisionQueues
        BY <1>4, <2>5 DEF Promised
      <3>2. a.name # "none"
        BY <3>1 DEF DecisionQueues
      <3>3. ShowsItsEffect(a) /\ a.hits \notin {"none", "aside"}
        BY <1>1, <2>1, <2>2, <3>1, <3>2 DEF Sound, DecisionSafe
      <3>4. StaysOpen(f)
        BY <1>1, <2>1, <2>2, <3>1, <3>2, <3>3 DEF Sound, DecisionSafe
      <3> QED  BY <1>4, <3>3, <3>4 DEF ShowsItsEffect, StaysOpen
    <2>6. ASSUME "truth" \in m.keeps
          PROVE  Recovers(m) /\ OneByOne(m, m.first) /\ (Lone(m) => StartsNoFetch(m))
      <3>1. s.name \in RecoveringScreens
        BY <1>4, <2>6 DEF Promised
      <3>2. Recovers(f) /\ OneByOne(f, s.view.first)
        BY <1>1, <2>1, <2>2, <3>1 DEF Sound, TruthSafe, Recovers, Lone, OneByOne, SetsError
      <3>3. Lone(f) => StartsNoFetch(a)
        BY <1>1, <2>1, <2>2, <3>1 DEF Sound, TruthSafe, Lone, StartsNoFetch, SetsError
      <3> QED  BY <1>4, <3>2, <3>3 DEF Recovers, Lone, OneByOne, StartsNoFetch
    <2> QED  BY <1>4, <2>3, <2>4, <2>5, <2>6 DEF Kept
  <1> QED  BY <1>4, <1>5, <1>6

-----------------------------------------------------------------------------
(* Screens: types *)

Starters == mode.on \union {"open", "key", "call", "await"}
Load == [id : 0..asked, key : KeyIds, by : Starters, read : BOOLEAN, acts : SUBSET server,
         dropped : BOOLEAN]

RowsState == [key : KeyIds \union {0}, acts : SUBSET (1..MaxCalls)]

ScreenTypes ==
  /\ mode \in Modes
  /\ key \in KeyIds \union {0} /\ rows \in RowsState
  /\ asked \in Nat /\ loads \subseteq Load
  /\ {spin, err, failed, raced, overtaken} \subseteq BOOLEAN
  /\ sent \in 0..MaxCalls /\ calls \subseteq [id : 1..sent, row : RowIds] /\ lock \subseteq RowIds
  /\ server \subseteq 1..sent /\ acked \subseteq server

LEMMA LoadChanges ==
  /\ \A l \in Load : [l EXCEPT !.dropped = TRUE] \in Load
  /\ \A l \in Load : [l EXCEPT !.read = TRUE, !.acts = server] \in Load
  BY DEF Load

LEMMA LoadGrows ==
  ASSUME asked \in Nat, asked' \in {asked, asked + 1}, server \subseteq server', UNCHANGED mode
  PROVE  Load \subseteq Load'
  <1>1. 0..asked \subseteq 0..asked' /\ SUBSET server \subseteq SUBSET server' /\ Starters' = Starters
    BY DEF Starters
  <1> QED  BY <1>1 DEF Load

\* A fetch that starts keeps what is known of the others.
LEMMA StartTypes ==
  ASSUME ScreenTypes, NEW k \in KeyIds, NEW by \in Starters, NEW others, Start(k, by, others),
         others \subseteq Load, UNCHANGED <<server, mode>>
  PROVE  asked' \in Nat /\ loads' \subseteq Load' /\ {spin', err', raced'} \subseteq BOOLEAN
  <1>1. asked' = asked + 1 /\ asked \in Nat /\ Load \subseteq Load'
    BY LoadGrows DEF Start, ScreenTypes
  <1>2. Fetch(asked + 1, k, by) \in Load'
    <2>1. asked + 1 \in 0..asked' /\ by \in Starters'
      BY <1>1 DEF Starters
    <2> QED  BY <2>1 DEF Fetch, Load
  <1>3. loads' = others \union {Fetch(asked + 1, k, by)}
    BY DEF Start
  <1>4. {spin', err', raced'} \subseteq BOOLEAN
    BY DEF Start, ScreenTypes
  <1> QED  BY <1>1, <1>2, <1>3, <1>4

LEMMA RowsKept ==
  ASSUME rows \in RowsState
  PROVE  /\ Nothing \in RowsState /\ WhenStarting(rows) \in RowsState
         /\ \A i \in 1..MaxCalls : [rows EXCEPT !.acts = @ \union {i}] \in RowsState
         /\ \A i : [rows EXCEPT !.acts = @ \ {i}] \in RowsState
  BY DEF RowsState, Nothing, WhenStarting, KeyIds

LEMMA LoadsKept ==
  ASSUME ScreenTypes, UNCHANGED <<loads, asked, mode>>, server \subseteq server'
  PROVE  asked' \in Nat /\ loads' \subseteq Load'
  BY LoadGrows DEF ScreenTypes

LEMMA ScreenTypesStep == ScreenTypes /\ [ScreensStep]_screenVars => ScreenTypes'
  <1> SUFFICES ASSUME ScreenTypes, [ScreensStep]_screenVars PROVE ScreenTypes'
    OBVIOUS
  <1>a. MaxCalls \in Nat /\ MaxLoads \in Nat
    BY ScreensAssumption
  <1>t. /\ mode \in Modes /\ key \in KeyIds \union {0} /\ rows \in RowsState
        /\ asked \in Nat /\ loads \subseteq Load
        /\ spin \in BOOLEAN /\ err \in BOOLEAN /\ failed \in BOOLEAN /\ raced \in BOOLEAN
        /\ overtaken \in BOOLEAN
        /\ sent \in 0..MaxCalls /\ calls \subseteq [id : 1..sent, row : RowIds] /\ lock \subseteq RowIds
        /\ server \subseteq 1..sent /\ acked \subseteq server
        /\ 1..sent \subseteq 1..MaxCalls
    BY <1>a DEF ScreenTypes
  <1>k. key # 0 => key \in KeyIds
    BY <1>t
  <1>1. CASE UNCHANGED screenVars
    BY <1>1, <1>t DEF ScreenTypes, screenVars, Load, Starters
  <1>2. ASSUME NEW k \in KeyIds, Select(k) PROVE ScreenTypes'
    <2> DEFINE others == IF mode.late = "drop" THEN {[l EXCEPT !.dropped = TRUE] : l \in loads} ELSE loads
    <2>1. Start(k, "key", others) /\ UNCHANGED <<mode, failed, calls, sent, lock, server, acked, overtaken>>
          /\ key' = k /\ rows' = WhenStarting(rows)
      BY <1>2 DEF Select
    <2>2. others \subseteq Load
      BY <1>t, LoadChanges
    <2> HIDE DEF others
    <2>3. asked' \in Nat /\ loads' \subseteq Load' /\ {spin', err', raced'} \subseteq BOOLEAN
      BY <2>1, <2>2, StartTypes DEF Starters
    <2> QED  BY <1>t, <2>1, <2>3, RowsKept DEF ScreenTypes
  <1>3. CASE Close \/ \E k \in KeyIds : Pick(k)
    <2>1. UNCHANGED <<loads, asked, server, mode, spin, err, failed, raced, calls, sent, lock, acked, overtaken>>
          /\ key' \in KeyIds \union {0} /\ rows' \in {rows, Nothing}
      BY <1>3 DEF Close, Pick
    <2> QED  BY <1>t, <2>1, LoadsKept, RowsKept DEF ScreenTypes
  <1>4. ASSUME NEW by \in mode.on, Refresh(by) PROVE ScreenTypes'
    <2>1. Start(key, by, loads) /\ key \in KeyIds /\ rows' = WhenStarting(rows)
          /\ UNCHANGED <<mode, key, failed, calls, sent, lock, server, acked, overtaken>>
      BY <1>4, <1>k DEF Refresh
    <2>2. asked' \in Nat /\ loads' \subseteq Load' /\ {spin', err', raced'} \subseteq BOOLEAN
      BY <1>t, <2>1, StartTypes DEF Starters
    <2> QED  BY <1>t, <2>1, <2>2, RowsKept DEF ScreenTypes
  <1>5. ASSUME NEW l \in loads, ServerReads(l) PROVE ScreenTypes'
    <2> DEFINE now == [l EXCEPT !.read = TRUE, !.acts = server]
    <2>1. now \in Load
      BY <1>t, LoadChanges
    <2> HIDE DEF now
    <2>2. loads' = (loads \ {l}) \union {now}
          /\ UNCHANGED <<mode, key, rows, asked, spin, err, failed, raced, calls, sent, lock, server, acked, overtaken>>
      BY <1>5 DEF ServerReads, now
    <2>3. loads' \subseteq Load'
      BY <1>t, <2>1, <2>2, LoadGrows
    <2> QED  BY <1>t, <2>2, <2>3 DEF ScreenTypes
  <1>6. ASSUME NEW l \in loads, Disowned(l) PROVE ScreenTypes'
    <2>1. loads' \subseteq loads
          /\ UNCHANGED <<mode, key, rows, asked, spin, err, failed, raced, calls, sent, lock, server, acked, overtaken>>
      BY <1>6 DEF Disowned
    <2>2. loads' \subseteq Load'
      BY <1>t, <2>1, LoadGrows
    <2> QED  BY <1>t, <2>1, <2>2 DEF ScreenTypes
  <1>7. ASSUME NEW l \in loads, Arrives(l) \/ Fails(l) PROVE ScreenTypes'
    <2>1. loads' \subseteq loads /\ spin' = FALSE /\ lock' \in {lock, {}}
          /\ UNCHANGED <<mode, asked, calls, sent, server, acked>>
      BY <1>7 DEF Arrives, Fails, Ends
    <2>2. loads' \subseteq Load'
      BY <1>t, <2>1, LoadGrows
    <2>3. l.key \in KeyIds /\ l.acts \in SUBSET (1..MaxCalls)
      BY <1>t DEF Load
    <2>4. rows' \in RowsState /\ key' \in {key, 0}
      BY <1>7, <1>t, <2>3, RowsKept DEF Arrives, Fails, RowsState
    <2>5. {err', failed', raced', overtaken'} \subseteq BOOLEAN
      BY <1>7, <1>t DEF Arrives, Fails
    <2> QED  BY <1>t, <2>1, <2>2, <2>4, <2>5 DEF ScreenTypes
  <1>8. ASSUME NEW row \in ActedOn, Press(row) PROVE ScreenTypes'
    <2>1. sent' = sent + 1 /\ sent' \in 0..MaxCalls /\ sent + 1 \in 1..MaxCalls /\ 1..sent \subseteq 1..sent'
          /\ sent + 1 \in 1..sent'
      BY <1>8, <1>a, <1>t DEF Press
    <2>2. row \in RowIds
      BY DEF ActedOn, RowIds
    <2>3. [id |-> sent + 1, row |-> row] \in [id : 1..sent', row : RowIds]
      BY <2>1, <2>2
    <2>4. [id : 1..sent, row : RowIds] \subseteq [id : 1..sent', row : RowIds]
      BY <2>1
    <2>5. calls' \subseteq [id : 1..sent', row : RowIds]
      BY <1>8, <1>t, <2>3, <2>4 DEF Press
    <2>6. lock' \subseteq RowIds
      BY <1>8, <1>t, <2>2 DEF Press
    <2>7. rows' \in RowsState
      BY <1>8, <1>t, <2>1, RowsKept DEF Press
    <2>8. UNCHANGED <<mode, key, loads, asked, spin, err, failed, raced, server, acked, overtaken>>
      BY <1>8 DEF Press
    <2>9. loads' \subseteq Load'
      BY <1>t, <2>8, LoadGrows
    <2> QED  BY <1>t, <2>1, <2>5, <2>6, <2>7, <2>8, <2>9 DEF ScreenTypes
  <1>9. ASSUME NEW c \in calls PROVE c.id \in 1..sent /\ c.row \in RowIds /\ Released(c) \subseteq RowIds
    BY <1>t, <1>9 DEF Released
  <1>10. ASSUME NEW c \in calls, ServerActs(c) PROVE ScreenTypes'
    <2>1. server' = server \union {c.id}
          /\ UNCHANGED <<mode, key, rows, loads, asked, spin, err, failed, raced, calls, sent, lock, acked, overtaken>>
      BY <1>10 DEF ServerActs
    <2>2. loads' \subseteq Load'
      BY <1>t, <2>1, LoadGrows
    <2> QED  BY <1>t, <1>9, <2>1, <2>2 DEF ScreenTypes
  <1>11. ASSUME NEW c \in calls, Succeeds(c) PROVE ScreenTypes'
    <2>1. c.id \in server /\ calls' = calls \ {c} /\ acked' = acked \union {c.id}
          /\ lock' \in {lock, Released(c)} /\ UNCHANGED <<mode, key, failed, sent, server, overtaken>>
      BY <1>11 DEF Succeeds
    <2>2. asked' \in Nat /\ loads' \subseteq Load' /\ {spin', err', raced'} \subseteq BOOLEAN
      <3>1. CASE mode.ok \in {"load", "await"} /\ key # 0
        <4>1. PICK by \in Starters : Start(key, by, loads)
          BY <1>11, <3>1 DEF Succeeds, Starters
        <4> QED  BY <1>k, <1>t, <2>1, <3>1, <4>1, StartTypes DEF Starters
      <3>2. CASE ~(mode.ok \in {"load", "await"} /\ key # 0)
        <4>1. UNCHANGED <<loads, asked, spin, err, raced>>
          BY <1>11, <3>2 DEF Succeeds
        <4> QED  BY <1>t, <2>1, <4>1, LoadsKept
      <3> QED  BY <3>1, <3>2
    <2>3. rows' \in {rows, WhenStarting(rows), [rows EXCEPT !.acts = @ \union {c.id}]}
      BY <1>11 DEF Succeeds
    <2>4. rows' \in RowsState
      BY <1>t, <1>9, <2>3, RowsKept
    <2> QED  BY <1>t, <1>9, <2>1, <2>2, <2>4 DEF ScreenTypes
  <1>12. ASSUME NEW c \in calls, Refused(c) PROVE ScreenTypes'
    <2>1. calls' = calls \ {c} /\ lock' = Released(c)
          /\ UNCHANGED <<mode, key, failed, sent, server, acked, overtaken>>
      BY <1>12 DEF Refused
    <2>2. asked' \in Nat /\ loads' \subseteq Load' /\ {spin', err', raced'} \subseteq BOOLEAN
      <3>1. CASE mode.no = "reloads" /\ key # 0
        <4>1. Start(key, "call", loads)
          BY <1>12, <3>1 DEF Refused
        <4> QED  BY <1>k, <1>t, <2>1, <3>1, <4>1, StartTypes DEF Starters
      <3>2. CASE ~(mode.no = "reloads" /\ key # 0)
        <4>1. UNCHANGED <<loads, asked, spin, err, raced>>
          BY <1>12, <3>2 DEF Refused
        <4> QED  BY <1>t, <2>1, <4>1, LoadsKept
      <3> QED  BY <3>1, <3>2
    <2>3. rows' \in RowsState
      BY <1>12, <1>t, RowsKept DEF Refused
    <2> QED  BY <1>t, <1>9, <2>1, <2>2, <2>3 DEF ScreenTypes
  <1> QED  BY <1>1, <1>2, <1>3, <1>4, <1>5, <1>6, <1>7, <1>8, <1>10, <1>11, <1>12 DEF ScreensStep

-----------------------------------------------------------------------------
(* What each step does to the fetches whose answer will be shown *)

LEMMA StartFetching ==
  ASSUME NEW k, NEW by, NEW others, Start(k, by, others)
  PROVE  \E n : /\ n.key = k /\ n.by = by
                /\ Fetching' = {l \in others : ~l.dropped} \union {n}
  <1> DEFINE n == Fetch(asked + 1, k, by)
  <1>1. n.key = k /\ n.by = by /\ ~n.dropped
    BY DEF Fetch
  <1>2. loads' = others \union {n}
    BY DEF Start
  <1> HIDE DEF n
  <1>3. Fetching' = {l \in others : ~l.dropped} \union {n}
    BY <1>1, <1>2 DEF Fetching
  <1> QED  BY <1>1, <1>3

LEMMA SelectFetching ==
  ASSUME ScreenTypes, NEW k, Select(k)
  PROVE  \E n : /\ n.key = k /\ n.by = "key"
                /\ Fetching' = (IF mode.late = "drop" THEN {} ELSE Fetching) \union {n}
                /\ mode.late = "hold" => Fetching = {}
  <1> DEFINE others == IF mode.late = "drop" THEN {[l EXCEPT !.dropped = TRUE] : l \in loads} ELSE loads
  <1>1. Start(k, "key", others) /\ (mode.late = "hold" => Fetching = {})
    BY DEF Select
  <1>2. \A l \in loads : [l EXCEPT !.dropped = TRUE].dropped
    BY DEF ScreenTypes, Load
  <1>3. {l \in others : ~l.dropped} = IF mode.late = "drop" THEN {} ELSE Fetching
    BY <1>2 DEF Fetching
  <1> HIDE DEF others
  <1> QED  BY <1>1, <1>3, StartFetching

LEMMA ReadFetching ==
  ASSUME ScreenTypes, NEW l \in loads, ServerReads(l)
  PROVE  \E n : /\ n.key = l.key /\ n.by = l.by
                /\ Fetching' = IF l \in Fetching THEN (Fetching \ {l}) \union {n} ELSE Fetching
  <1> DEFINE n == [l EXCEPT !.read = TRUE, !.acts = server]
  <1>1. n.key = l.key /\ n.by = l.by /\ n.dropped = l.dropped
    BY DEF ScreenTypes, Load
  <1>2. loads' = (loads \ {l}) \union {n}
    BY DEF ServerReads
  <1> HIDE DEF n
  <1>3. Fetching' = IF l \in Fetching THEN (Fetching \ {l}) \union {n} ELSE Fetching
    BY <1>1, <1>2 DEF Fetching
  <1> QED  BY <1>1, <1>3

LEMMA SameFetching ==
  ASSUME UNCHANGED loads \/ \E l \in loads : Disowned(l)
  PROVE  Fetching' = Fetching
  BY DEF Fetching, Disowned

LEMMA EndFetching ==
  ASSUME NEW l \in loads, Arrives(l) \/ Fails(l)
  PROVE  /\ l \in Fetching /\ Fetching' = Fetching \ {l}
         /\ ~spin' /\ spin' = FALSE /\ lock' = IF l.by = "await" THEN {} ELSE lock
         /\ UNCHANGED <<mode, asked, calls, sent, server, acked>>
  BY DEF Arrives, Fails, Ends, Fetching

\* The calls of a screen that start a fetch, and those that do not.
LEMMA CallFetching ==
  ASSUME NEW c \in calls, Succeeds(c) \/ Refused(c)
  PROVE  \/ /\ \E n : /\ n.key = key /\ n.by \in {"call", "await"}
                      /\ n.by = "await" => Succeeds(c) /\ mode.ok = "await" /\ key # 0
                      /\ Fetching' = Fetching \union {n}
            /\ ~StartsNoFetch(mode)
            /\ ~raced' /\ (err' => err /\ mode.fails \notin ClearsError)
         \/ UNCHANGED <<loads, spin, err, raced>> /\ Fetching' = Fetching
  <1>1. CASE Succeeds(c) /\ mode.ok \in {"load", "await"} /\ key # 0
    <2> DEFINE by == IF mode.ok = "await" THEN "await" ELSE "call"
    <2>1. Start(key, by, loads) /\ {l \in loads : ~l.dropped} = Fetching
      BY <1>1 DEF Succeeds, Fetching
    <2>2. by \in {"call", "await"} /\ (by = "await" => mode.ok = "await")
      OBVIOUS
    <2>4. ~raced' /\ (err' => err /\ mode.fails \notin ClearsError)
      BY <2>1 DEF Start, ClearsError
    <2>3. ~StartsNoFetch(mode)
      BY <1>1 DEF StartsNoFetch
    <2> HIDE DEF by
    <2> QED  BY <1>1, <2>1, <2>2, <2>3, <2>4, StartFetching
  <1>2. CASE Refused(c) /\ mode.no = "reloads" /\ key # 0
    <2>1. Start(key, "call", loads) /\ {l \in loads : ~l.dropped} = Fetching
      BY <1>2 DEF Refused, Fetching
    <2>2. ~StartsNoFetch(mode)
      BY <1>2 DEF StartsNoFetch
    <2>3. ~raced' /\ (err' => err /\ mode.fails \notin ClearsError)
      BY <2>1 DEF Start, ClearsError
    <2> QED  BY <2>1, <2>2, <2>3, StartFetching
  <1>3. UNCHANGED <<loads, spin, err, raced>> => Fetching' = Fetching
    BY SameFetching
  <1> QED  BY <1>1, <1>2, <1>3 DEF Succeeds, Refused

-----------------------------------------------------------------------------
(* The loading flag is up only while a fetch runs *)

Spinning == spin => Fetching # {}

LEMMA SpinningStep == ScreenTypes /\ Spinning /\ [ScreensStep]_screenVars => Spinning'
  <1> SUFFICES ASSUME ScreenTypes, Spinning, [ScreensStep]_screenVars PROVE Spinning'
    OBVIOUS
  <1>1. ASSUME UNCHANGED <<loads, spin>> PROVE Spinning'
    BY <1>1, SameFetching DEF Spinning
  <1>2. ASSUME NEW k \in KeyIds, Select(k) PROVE Spinning'
    BY <1>2, SelectFetching DEF Spinning
  <1>3. ASSUME NEW by \in mode.on, Refresh(by) PROVE Spinning'
    BY <1>3, StartFetching DEF Spinning, Refresh
  <1>4. ASSUME NEW l \in loads, ServerReads(l) PROVE Spinning'
    BY <1>4, ReadFetching DEF Spinning, ServerReads
  <1>5. ASSUME NEW l \in loads, Disowned(l) PROVE Spinning'
    <2>1. spin' = spin
      BY <1>5 DEF Disowned
    <2> QED  BY <1>5, <2>1, SameFetching DEF Spinning
  <1>6. ASSUME NEW l \in loads, Arrives(l) \/ Fails(l) PROVE Spinning'
    BY <1>6, EndFetching DEF Spinning
  <1>7. ASSUME NEW c \in calls, Succeeds(c) \/ Refused(c) PROVE Spinning'
    BY <1>7, CallFetching DEF Spinning
  <1>8. ASSUME UNCHANGED screenVars \/ Close \/ (\E k \in KeyIds : Pick(k))
               \/ (\E row \in ActedOn : Press(row)) \/ (\E c \in calls : ServerActs(c))
        PROVE  UNCHANGED <<loads, spin>>
    BY <1>8 DEF screenVars, Close, Pick, Press, ServerActs
  <1> QED  BY <1>1, <1>2, <1>3, <1>4, <1>5, <1>6, <1>7, <1>8 DEF ScreensStep

-----------------------------------------------------------------------------
(* The rows of the selected filter *)

FilterInv == "filter" \in mode.keeps =>
  /\ \A l \in Fetching : l.key = key
  /\ mode.fails \notin SetsError \union {"blanks"} => rows = Nothing \/ rows.key = key
  /\ Fetching # {} \/ err \/ rows = Nothing \/ rows.key = key

LEMMA FilterStep == ScreenTypes /\ FilterInv /\ [ScreensStep]_screenVars => FilterInv'
  <1> SUFFICES ASSUME ScreenTypes, FilterInv, [ScreensStep]_screenVars, "filter" \in mode'.keeps
               PROVE  FilterInv'
    BY DEF FilterInv
  <1>m. mode' = mode
    BY DEF ScreensStep, screenVars, Select, Pick, Close, Refresh, ServerReads, Disowned, Arrives, Fails, Ends,
           Press, ServerActs, Succeeds, Refused
  <1>k. "filter" \in mode.keeps /\ ShowsItsKey(mode) /\ LeavesRows(mode)
    BY <1>m, ModesKept DEF ScreenTypes, Kept
  <1>i. /\ \A l \in Fetching : l.key = key
        /\ mode.fails \notin SetsError \union {"blanks"} => rows = Nothing \/ rows.key = key
        /\ Fetching # {} \/ err \/ rows = Nothing \/ rows.key = key
    BY <1>k DEF FilterInv
  <1>n. WhenStarting(rows) \in {rows, Nothing} /\ (mode.spin = "clears" => WhenStarting(rows) = Nothing)
    BY DEF WhenStarting
  <1>1. ASSUME Fetching' = Fetching, UNCHANGED <<key, rows, err>> PROVE FilterInv'
    BY <1>1, <1>i, <1>m DEF FilterInv
  <1>2. ASSUME NEW k \in KeyIds, Select(k) PROVE FilterInv'
    <2>1. "key" \in mode.on /\ key' = k /\ rows' = WhenStarting(rows)
      BY <1>2 DEF Select
    <2>2. PICK n : n.key = k /\ Fetching' = {n}
      BY <1>2, <1>k, <2>1, SelectFetching DEF ShowsItsKey
    <2> QED  BY <1>k, <1>m, <1>n, <2>1, <2>2 DEF FilterInv, ShowsItsKey
  <1>3. CASE Close
    <2>1. "close" \in mode.on /\ Fetching = {} /\ rows' = Nothing /\ loads' = loads
      BY <1>3, <1>k DEF Close, ShowsItsKey
    <2> QED  BY <2>1, SameFetching DEF FilterInv
  <1>4. ASSUME NEW by \in mode.on, Refresh(by) PROVE FilterInv'
    <2>1. Start(key, by, loads) /\ rows' = WhenStarting(rows) /\ key' = key
      BY <1>4 DEF Refresh
    <2>2. PICK n : n.key = key /\ Fetching' = Fetching \union {n}
      BY <2>1, StartFetching DEF Fetching
    <2> QED  BY <1>i, <1>m, <1>n, <2>1, <2>2 DEF FilterInv
  <1>5. ASSUME NEW l \in loads, ServerReads(l) PROVE FilterInv'
    <2>1. UNCHANGED <<key, rows, err>>
      BY <1>5 DEF ServerReads
    <2>2. PICK n : n.key = l.key /\ Fetching' = IF l \in Fetching THEN (Fetching \ {l}) \union {n} ELSE Fetching
      BY <1>5, ReadFetching
    <2> QED  BY <1>i, <1>m, <2>1, <2>2 DEF FilterInv
  <1>6. ASSUME NEW l \in loads, Arrives(l) PROVE FilterInv'
    <2>1. l \in Fetching /\ Fetching' = Fetching \ {l}
      BY <1>6, EndFetching
    <2>2. rows' = [key |-> l.key, acts |-> l.acts] /\ key' = key
      BY <1>6 DEF Arrives
    <2>3. rows'.key = key'
      BY <1>i, <2>1, <2>2
    <2> QED  BY <1>i, <2>1, <2>2, <2>3 DEF FilterInv
  <1>7. ASSUME NEW l \in loads, Fails(l) PROVE FilterInv'
    <2>1. l \in Fetching /\ Fetching' = Fetching \ {l}
      BY <1>7, EndFetching
    <2>2. /\ key' = key /\ rows' \in {rows, Nothing} /\ (mode.fails = "blanks" => rows' = Nothing)
          /\ mode.fails \in SetsError => err'
      BY <1>7, <1>k DEF Fails, ShowsItsKey, SetsError
    <2> QED  BY <1>i, <1>m, <2>1, <2>2 DEF FilterInv
  <1>8. ASSUME NEW row \in ActedOn, Press(row) PROVE FilterInv'
    <2>1. UNCHANGED <<key, rows, err, loads>>
      BY <1>8, <1>k DEF Press, LeavesRows
    <2> QED  BY <1>1, <2>1, SameFetching
  <1>9. ASSUME NEW c \in calls, Succeeds(c) \/ Refused(c) PROVE FilterInv'
    <2>1. UNCHANGED <<key, rows, err, loads>>
      BY <1>9, <1>k DEF Succeeds, Refused, LeavesRows
    <2> QED  BY <1>1, <2>1, SameFetching
  <1>10. ASSUME UNCHANGED screenVars \/ (\E l \in loads : Disowned(l)) \/ (\E c \in calls : ServerActs(c))
         PROVE  FilterInv'
    <2>1. UNCHANGED <<key, rows, err>> /\ (UNCHANGED loads \/ \E l \in loads : Disowned(l))
      BY <1>10 DEF screenVars, Disowned, ServerActs
    <2> QED  BY <1>1, <2>1, SameFetching
  <1>11. \A k \in KeyIds : ~Pick(k)
    BY <1>k DEF Pick, ShowsItsKey
  <1> QED  BY <1>2, <1>3, <1>4, <1>5, <1>6, <1>7, <1>8, <1>9, <1>10, <1>11 DEF ScreensStep

-----------------------------------------------------------------------------
(* One call at a time *)

\* The flag is up from the press to the answer, and to the end of the fetch that
\* the handler awaits.
OnceInv == "once" \in mode.keeps =>
  /\ \A c, d \in calls : c = d
  /\ calls # {} => lock # {}
  /\ \A l \in Fetching : l.by = "await" => calls = {} /\ lock # {}
  /\ \A l, k \in Fetching : l.by = "await" /\ k.by = "await" => l = k

LEMMA OnceStep == ScreenTypes /\ OnceInv /\ [ScreensStep]_screenVars => OnceInv'
  <1> SUFFICES ASSUME ScreenTypes, OnceInv, [ScreensStep]_screenVars, "once" \in mode'.keeps
               PROVE  OnceInv'
    BY DEF OnceInv
  <1>m. mode' = mode
    BY DEF ScreensStep, screenVars, Select, Pick, Close, Refresh, ServerReads, Disowned, Arrives, Fails, Ends,
           Press, ServerActs, Succeeds, Refused
  <1>k. mode.lock = "whole" /\ "await" \notin mode.on
    BY <1>m, ModesKept DEF ScreenTypes, Kept
  <1>i. /\ \A c, d \in calls : c = d
        /\ calls # {} => lock # {}
        /\ \A l \in Fetching : l.by = "await" => calls = {} /\ lock # {}
        /\ \A l, k \in Fetching : l.by = "await" /\ k.by = "await" => l = k
    BY <1>m DEF OnceInv
  <1>1. ASSUME Fetching' \subseteq Fetching, UNCHANGED <<calls, lock>> PROVE OnceInv'
    BY <1>1, <1>i DEF OnceInv
  <1>2. ASSUME NEW n, n.by # "await", Fetching' \subseteq Fetching \union {n}, UNCHANGED <<calls, lock>>
        PROVE  OnceInv'
    BY <1>2, <1>i DEF OnceInv
  <1>3. ASSUME NEW k \in KeyIds, Select(k) PROVE OnceInv'
    <2>1. PICK n : n.by = "key" /\ Fetching' \subseteq Fetching \union {n}
      BY <1>3, SelectFetching
    <2>2. UNCHANGED <<calls, lock>>
      BY <1>3 DEF Select
    <2> QED  BY <1>2, <2>1, <2>2
  <1>4. ASSUME NEW by \in mode.on, Refresh(by) PROVE OnceInv'
    <2>1. Start(key, by, loads) /\ UNCHANGED <<calls, lock>> /\ by # "await"
      BY <1>4, <1>k DEF Refresh
    <2>2. PICK n : n.by = by /\ Fetching' = Fetching \union {n}
      BY <2>1, StartFetching DEF Fetching
    <2> QED  BY <1>2, <2>1, <2>2
  <1>5. ASSUME NEW l \in loads, ServerReads(l) PROVE OnceInv'
    <2>1. UNCHANGED <<calls, lock>>
      BY <1>5 DEF ServerReads
    <2>2. PICK n : n.by = l.by /\ Fetching' = IF l \in Fetching THEN (Fetching \ {l}) \union {n} ELSE Fetching
      BY <1>5, ReadFetching
    <2> QED  BY <1>i, <2>1, <2>2 DEF OnceInv
  <1>6. ASSUME NEW l \in loads, Arrives(l) \/ Fails(l) PROVE OnceInv'
    <2>1. /\ l \in Fetching /\ Fetching' = Fetching \ {l} /\ calls' = calls
          /\ lock' = IF l.by = "await" THEN {} ELSE lock
      BY <1>6, EndFetching
    <2>2. CASE l.by = "await"
      <3>1. calls' = {} /\ \A k \in Fetching' : k.by # "await"
        BY <1>i, <2>1, <2>2
      <3> QED  BY <3>1 DEF OnceInv
    <2>3. CASE l.by # "await"
      BY <1>1, <2>1, <2>3
    <2> QED  BY <2>2, <2>3
  <1>7. ASSUME NEW row \in ActedOn, Press(row) PROVE OnceInv'
    <2>1. /\ lock = {} /\ loads' = loads /\ lock' = {row}
          /\ calls' = calls \union {[id |-> sent + 1, row |-> row]}
      BY <1>7, <1>k DEF Press
    <2>2. calls = {} /\ \A l \in Fetching : l.by # "await"
      BY <1>i, <2>1
    <2> QED  BY <2>1, <2>2, SameFetching DEF OnceInv
  <1>8. ASSUME NEW c \in calls, Succeeds(c) \/ Refused(c) PROVE OnceInv'
    <2>1. calls' = {} /\ \A l \in Fetching : l.by # "await"
      BY <1>8, <1>i DEF Succeeds, Refused
    <2>2. CASE UNCHANGED loads
      BY <2>1, <2>2, SameFetching DEF OnceInv
    <2>3. CASE \E n : /\ n.by = "await" => Succeeds(c) /\ mode.ok = "await" /\ key # 0
                      /\ Fetching' = Fetching \union {n}
      <3>1. PICK n : /\ n.by = "await" => Succeeds(c) /\ mode.ok = "await" /\ key # 0
                     /\ Fetching' = Fetching \union {n}
        BY <2>3
      <3>2. n.by = "await" => lock' = lock /\ lock # {}
        BY <1>8, <1>i, <3>1 DEF Succeeds
      <3> QED  BY <2>1, <3>1, <3>2 DEF OnceInv
    <2> QED  BY <1>8, <2>2, <2>3, CallFetching
  <1>9. ASSUME \/ UNCHANGED screenVars \/ Close \/ (\E k \in KeyIds : Pick(k))
               \/ (\E l \in loads : Disowned(l)) \/ \E c \in calls : ServerActs(c)
        PROVE  OnceInv'
    <2>1. UNCHANGED <<calls, lock>> /\ (UNCHANGED loads \/ \E l \in loads : Disowned(l))
      BY <1>9 DEF screenVars, Close, Pick, Disowned, ServerActs
    <2> QED  BY <1>1, <2>1, SameFetching
  <1> QED  BY <1>3, <1>4, <1>5, <1>6, <1>7, <1>8, <1>9 DEF ScreensStep

-----------------------------------------------------------------------------
(* Decisions reach the rows *)

QueueInv == "decided" \in mode.keeps =>
  /\ key # 0
  /\ Fetching # {} \/ acked \subseteq rows.acts \/ failed \/ overtaken

LEMMA QueueStep == ScreenTypes /\ QueueInv /\ [ScreensStep]_screenVars => QueueInv'
  <1> SUFFICES ASSUME ScreenTypes, QueueInv, [ScreensStep]_screenVars, "decided" \in mode'.keeps
               PROVE  QueueInv'
    BY DEF QueueInv
  <1>m. mode' = mode
    BY DEF ScreensStep, screenVars, Select, Pick, Close, Refresh, ServerReads, Disowned, Arrives, Fails, Ends,
           Press, ServerActs, Succeeds, Refused
  <1>k. ShowsItsEffect(mode) /\ StaysOpen(mode)
    BY <1>m, ModesKept DEF ScreenTypes, Kept
  <1>i. key # 0 /\ (Fetching # {} \/ acked \subseteq rows.acts \/ failed \/ overtaken)
    BY <1>m DEF QueueInv
  <1>r. rows = [key |-> rows.key, acts |-> rows.acts]
    BY DEF ScreenTypes, RowsState
  <1>1. ASSUME Fetching' = Fetching, UNCHANGED <<key, acked, failed, overtaken>>,
               rows.acts \subseteq rows'.acts
        PROVE  QueueInv'
    BY <1>1, <1>i DEF QueueInv
  <1>2. ASSUME Fetching' # {}, key' # 0 PROVE QueueInv'
    BY <1>2 DEF QueueInv
  <1>3. ASSUME NEW k \in KeyIds, Select(k) PROVE QueueInv'
    <2>1. key' = k /\ k # 0
      BY <1>3 DEF Select, KeyIds
    <2> QED  BY <1>2, <1>3, <2>1, SelectFetching
  <1>4. ASSUME NEW by \in mode.on, Refresh(by) PROVE QueueInv'
    <2>1. Start(key, by, loads) /\ key' = key
      BY <1>4 DEF Refresh
    <2> QED  BY <1>2, <1>i, <2>1, StartFetching
  <1>5. ASSUME NEW l \in loads, ServerReads(l) PROVE QueueInv'
    <2>1. UNCHANGED <<key, rows, acked, failed, overtaken>>
      BY <1>5 DEF ServerReads
    <2> QED  BY <1>1, <1>2, <1>5, <1>i, <2>1, ReadFetching
  <1>6. ASSUME NEW l \in loads, Arrives(l) PROVE QueueInv'
    <2>1. /\ rows' = [key |-> l.key, acts |-> l.acts] /\ key' = key /\ acked' = acked
          /\ overtaken' = (overtaken \/ ~(acked \subseteq l.acts))
      BY <1>6 DEF Arrives, Ends
    <2> QED  BY <1>i, <2>1 DEF QueueInv
  <1>7. ASSUME NEW l \in loads, Fails(l) PROVE QueueInv'
    <2>1. failed' /\ key' = key
      BY <1>7, <1>k DEF Fails, StaysOpen
    <2> QED  BY <1>i, <2>1 DEF QueueInv
  <1>8. ASSUME NEW row \in ActedOn, Press(row) PROVE QueueInv'
    <2>1. UNCHANGED <<key, acked, failed, overtaken, loads>>
          /\ rows' \in {rows, [rows EXCEPT !.acts = @ \union {sent + 1}]}
      BY <1>8 DEF Press
    <2>2. rows.acts \subseteq rows'.acts
      BY <1>r, <2>1
    <2> QED  BY <1>1, <2>1, <2>2, SameFetching
  <1>9. ASSUME NEW c \in calls, Succeeds(c) PROVE QueueInv'
    <2>1. acked' = acked \union {c.id} /\ UNCHANGED <<key, failed, overtaken>>
      BY <1>9 DEF Succeeds
    <2>2. CASE mode.ok \in {"load", "await"}
      <3>1. \E by : Start(key, by, loads)
        BY <1>9, <1>i, <2>2 DEF Succeeds
      <3> QED  BY <1>2, <1>i, <2>1, <3>1, StartFetching
    <2>3. CASE mode.ok = "patch"
      <3>1. rows' = [rows EXCEPT !.acts = @ \union {c.id}] /\ loads' = loads
        BY <1>9, <2>3 DEF Succeeds
      <3>2. rows'.acts = rows.acts \union {c.id}
        BY <1>r, <3>1
      <3> QED  BY <1>i, <2>1, <3>1, <3>2, SameFetching DEF QueueInv
    <2> QED  BY <1>k, <2>2, <2>3 DEF ShowsItsEffect
  <1>10. ASSUME NEW c \in calls, Refused(c) PROVE QueueInv'
    <2>1. UNCHANGED <<key, rows, acked, failed, overtaken>>
      BY <1>10, <1>k DEF Refused, ShowsItsEffect
    <2> QED  BY <1>1, <1>2, <1>10, <1>i, <2>1, CallFetching
  <1>11. ASSUME UNCHANGED screenVars \/ (\E l \in loads : Disowned(l)) \/ (\E c \in calls : ServerActs(c))
         PROVE  QueueInv'
    <2>1. UNCHANGED <<key, rows, acked, failed, overtaken>> /\ (UNCHANGED loads \/ \E l \in loads : Disowned(l))
      BY <1>11 DEF screenVars, Disowned, ServerActs
    <2> QED  BY <1>1, <2>1, SameFetching
  <1>12. ~Close
    BY <1>k DEF Close, StaysOpen
  <1>13. ASSUME NEW k \in KeyIds, Pick(k) PROVE QueueInv'
    <2>1. key' # 0 /\ UNCHANGED <<rows, acked, failed, overtaken, loads>>
      BY <1>13 DEF Pick, KeyIds
    <2> QED  BY <1>i, <2>1, SameFetching DEF QueueInv
  <1> QED
    BY <1>3, <1>4, <1>5, <1>6, <1>7, <1>8, <1>9, <1>10, <1>11, <1>12, <1>13 DEF ScreensStep

-----------------------------------------------------------------------------
(* An error is that of the latest fetch *)

\* An error stands beside a fetch on its way, or after one that succeeded, only when
\* a fetch failed beside another; and where the error view has no button there is one
\* fetch at a time.
TruthInv == "truth" \in mode.keeps =>
  /\ err => mode.fails \in SetsError
  /\ err => raced \/ (failed /\ Fetching = {})
  /\ Lone(mode) =>
       /\ ~raced
       /\ \A l, k \in Fetching : l = k
       /\ "pull" \in mode.on => \A l \in Fetching : l.by = "pull" \/ spin
       /\ "apply" \in mode.on /\ Fetching # {} => spin

LEMMA TruthStep == ScreenTypes /\ Spinning /\ TruthInv /\ [ScreensStep]_screenVars => TruthInv'
  <1> SUFFICES ASSUME ScreenTypes, Spinning, TruthInv, [ScreensStep]_screenVars, "truth" \in mode'.keeps
               PROVE  TruthInv'
    BY DEF TruthInv
  <1>m. mode' = mode
    BY DEF ScreensStep, screenVars, Select, Pick, Close, Refresh, ServerReads, Disowned, Arrives, Fails,
           Ends, Press, ServerActs, Succeeds, Refused
  <1>k. Recovers(mode) /\ OneByOne(mode, mode.first) /\ (Lone(mode) => StartsNoFetch(mode))
    BY <1>m, ModesKept DEF ScreenTypes, Kept
  <1>i. /\ err => mode.fails \in SetsError
        /\ err => raced \/ (failed /\ Fetching = {})
        /\ Lone(mode) =>
             /\ ~raced
             /\ \A l, k \in Fetching : l = k
             /\ "pull" \in mode.on => \A l \in Fetching : l.by = "pull" \/ spin
             /\ "apply" \in mode.on /\ Fetching # {} => spin
    BY <1>m DEF TruthInv
  <1>1. ASSUME Fetching' = Fetching, UNCHANGED <<err, failed, spin, raced>> PROVE TruthInv'
    BY <1>1, <1>i, <1>m DEF TruthInv, Lone
  <1>2. ASSUME ~raced', err' => err /\ mode.fails \notin ClearsError,
               Lone(mode) => \E n : Fetching' = {n} /\ (n.by = "pull" \/ "pull" \notin mode.on \/ spin'),
               Lone(mode) => "apply" \notin mode.on \/ spin'
        PROVE  TruthInv'
    <2>1. ~err'
      BY <1>2, <1>i, <1>k DEF Recovers
    <2> QED  BY <1>2, <1>m, <2>1 DEF TruthInv, Lone
  <1>3. ASSUME NEW k \in KeyIds, Select(k) PROVE TruthInv'
    <2>1. "key" \in mode.on /\ ~raced' /\ (err' => err /\ mode.fails \notin ClearsError)
      BY <1>3 DEF Select, Start, ClearsError
    <2>2. ASSUME Lone(mode)
          PROVE  {"pull", "apply"} \intersect mode.on = {} /\ \E n : Fetching' = {n}
      <3>1. mode.late \in {"drop", "hold"} /\ {"pull", "apply"} \intersect mode.on = {}
        BY <1>k, <2>1, <2>2 DEF OneByOne
      <3>2. PICK n : Fetching' = {n}
        BY <1>3, <3>1, SelectFetching
      <3> QED  BY <3>1, <3>2
    <2> QED  BY <1>2, <2>1, <2>2
  <1>4. ASSUME NEW by \in mode.on, Refresh(by) PROVE TruthInv'
    <2>1. Start(key, by, loads) /\ ~raced' /\ (err' => err /\ mode.fails \notin ClearsError)
      BY <1>4 DEF Refresh, Start, ClearsError
    <2>2. ASSUME Lone(mode)
          PROVE  /\ \E n : Fetching' = {n} /\ (n.by = "pull" \/ spin')
                 /\ "apply" \in mode.on => spin'
      <3>1. by \in {"pull", "apply"}
        BY <1>4, <1>k, <2>2 DEF OneByOne, Refresh
      <3>2. ~spin /\ (by = "pull" => \A l \in Fetching : l.by # "pull")
        BY <1>4, <1>k, <2>2, <3>1 DEF Refresh, Hidden, OneByOne
      <3>3. Fetching = {}
        BY <1>i, <2>2, <3>1, <3>2
      <3>4. PICK n : n.by = by /\ Fetching' = {n}
        BY <2>1, <3>3, StartFetching DEF Fetching
      <3>5. "apply" \in mode.on => spin'
        BY <1>k, <2>1, <2>2 DEF OneByOne, Start
      <3> QED  BY <3>1, <3>4, <3>5
    <2> QED  BY <1>2, <2>1, <2>2
  <1>5. ASSUME NEW l \in loads, ServerReads(l) PROVE TruthInv'
    <2>1. UNCHANGED <<err, failed, spin, raced>>
      BY <1>5 DEF ServerReads
    <2>2. PICK n : n.by = l.by /\ Fetching' = IF l \in Fetching THEN (Fetching \ {l}) \union {n} ELSE Fetching
      BY <1>5, ReadFetching
    <2> QED  BY <1>i, <1>m, <2>1, <2>2 DEF TruthInv, Lone
  <1>6. ASSUME NEW l \in loads, Arrives(l) \/ Fails(l) PROVE TruthInv'
    <2>1. l \in Fetching /\ Fetching' = Fetching \ {l}
      BY <1>6, EndFetching
    <2>2. CASE Arrives(l)
      <3>1. UNCHANGED <<err, raced>>
        BY <2>2 DEF Arrives
      <3>2. err => raced
        BY <1>i, <2>1
      <3>3. Lone(mode) => Fetching' = {}
        BY <1>i, <2>1
      <3> QED  BY <1>i, <1>m, <3>1, <3>2, <3>3 DEF TruthInv, Lone
    <2>3. CASE Fails(l)
      <3>1. failed' /\ raced' = (raced \/ Fetching' # {})
        BY <2>1, <2>3 DEF Fails
      <3>2. err' => mode.fails \in SetsError
        BY <1>i, <2>3 DEF Fails, SetsError
      <3>3. Lone(mode) => Fetching' = {} /\ ~raced
        BY <1>i, <2>1
      <3> QED  BY <1>m, <3>1, <3>2, <3>3 DEF TruthInv, Lone
    <2> QED  BY <1>6, <2>2, <2>3
  <1>7. ASSUME NEW c \in calls, Succeeds(c) \/ Refused(c) PROVE TruthInv'
    <2>1. failed' = failed
      BY <1>7 DEF Succeeds, Refused
    <2>2. CASE UNCHANGED <<loads, spin, err, raced>> /\ Fetching' = Fetching
      BY <1>1, <2>1, <2>2
    <2>3. CASE ~StartsNoFetch(mode) /\ ~raced' /\ (err' => err /\ mode.fails \notin ClearsError)
      BY <1>2, <1>k, <2>3
    <2> QED  BY <1>7, <2>2, <2>3, CallFetching
  <1>8. ASSUME \/ UNCHANGED screenVars \/ Close \/ (\E k \in KeyIds : Pick(k))
               \/ (\E row \in ActedOn : Press(row))
               \/ (\E l \in loads : Disowned(l)) \/ \E c \in calls : ServerActs(c)
        PROVE  TruthInv'
    <2>1. UNCHANGED <<failed, spin, err, raced>> /\ (UNCHANGED loads \/ \E l \in loads : Disowned(l))
      BY <1>8 DEF screenVars, Close, Pick, Disowned, ServerActs, Press
    <2> QED  BY <1>1, <2>1, SameFetching
  <1> QED  BY <1>3, <1>4, <1>5, <1>6, <1>7, <1>8 DEF ScreensStep

-----------------------------------------------------------------------------
(* The properties *)

ScreenInv ==
  /\ ScreenTypes /\ Spinning
  /\ FilterInv /\ OnceInv /\ QueueInv /\ TruthInv

LEMMA ScreenStart == ASSUME NEW m \in Modes, ScreensInit(m) PROVE ScreenInv
  <1>i. /\ mode = m /\ key = (IF "open" \in m.on THEN 1 ELSE 0) /\ rows = Nothing /\ asked = 0
        /\ loads = (IF "open" \in m.on THEN {Fetch(0, 1, "open")} ELSE {})
        /\ spin = ("open" \in m.on /\ m.spin # "none")
        /\ err = FALSE /\ failed = FALSE /\ raced = FALSE
        /\ calls = {} /\ sent = 0 /\ lock = {} /\ server = {} /\ acked = {} /\ overtaken = FALSE
    BY DEF ScreensInit
  <1>f. /\ Fetch(0, 1, "open").key = 1 /\ Fetch(0, 1, "open").by = "open"
        /\ ~Fetch(0, 1, "open").dropped
    BY DEF Fetch
  <1>1. ScreenTypes
    <2>1. Fetch(0, 1, "open") \in Load
      BY <1>i DEF Fetch, Load, KeyIds, Starters
    <2>2. rows \in RowsState
      BY <1>i DEF RowsState, Nothing
    <2>3. mode \in Modes /\ loads \subseteq Load /\ key \in KeyIds \union {0}
      BY <1>i, <2>1 DEF KeyIds
    <2>4. {spin, err, failed, raced, overtaken} \subseteq BOOLEAN
      BY <1>i
    <2>5. asked \in Nat /\ sent \in 0..MaxCalls
      BY <1>i, ScreensAssumption
    <2>6. /\ calls \subseteq [id : 1..sent, row : RowIds] /\ lock \subseteq RowIds
          /\ server \subseteq 1..sent /\ acked \subseteq server
      BY <1>i
    <2> QED  BY <2>2, <2>3, <2>4, <2>5, <2>6 DEF ScreenTypes
  <1>2. Fetching = loads
    BY <1>i, <1>f DEF Fetching
  <1>3. Spinning
    BY <1>i, <1>2 DEF Spinning
  <1>4. FilterInv
    BY <1>i, <1>f, <1>2 DEF FilterInv
  <1>5. OnceInv
    BY <1>i, <1>f, <1>2 DEF OnceInv
  <1>6. QueueInv
    BY <1>i, ModesKept DEF QueueInv, Kept, StaysOpen
  <1>7. TruthInv
    <2>1. "truth" \in m.keeps /\ Lone(m) /\ ("pull" \in m.on \/ "apply" \in m.on) => m.spin # "none"
      BY ModesKept DEF Kept, OneByOne
    <2> QED  BY <1>i, <1>f, <1>2, <2>1 DEF TruthInv
  <1> QED  BY <1>1, <1>3, <1>4, <1>5, <1>6, <1>7 DEF ScreenInv

LEMMA ScreenStep == ScreenInv /\ [ScreensStep]_screenVars => ScreenInv'
  BY ScreenTypesStep, SpinningStep, FilterStep, OnceStep, QueueStep, TruthStep DEF ScreenInv

LEMMA ScreenMeans ==
  ScreenInv => ScreensTypeOK /\ RowsMatchFilter /\ NoDoubleSubmit /\ DecisionsShown /\ SettledViewTruthful
  <1> SUFFICES ASSUME ScreenInv
               PROVE  ScreensTypeOK /\ RowsMatchFilter /\ NoDoubleSubmit /\ DecisionsShown
                      /\ SettledViewTruthful
    OBVIOUS
  <1>1. ScreensTypeOK
    <2>1. mode.act \in BOOLEAN /\ mode.lock \in {"whole", "row", "card", "none"}
      BY ModesKept DEF ScreenInv, ScreenTypes
    <2>2. rows.key \in KeyIds \union {0} /\ rows.acts \subseteq 1..MaxCalls
      BY DEF ScreenInv, ScreenTypes, RowsState
    <2>3. \A l \in loads : l.key \in KeyIds /\ l.id <= asked /\ l.acts \subseteq server
      BY DEF ScreenInv, ScreenTypes, Load
    <2>4. \A c \in calls : c.id \in 1..sent /\ c.row \in RowIds
      BY DEF ScreenInv, ScreenTypes
    <2> QED  BY <2>1, <2>2, <2>3, <2>4 DEF ScreensTypeOK, ScreenInv, ScreenTypes
  <1>2. RowsMatchFilter
    BY DEF RowsMatchFilter, Settled, ScreenInv, FilterInv
  <1>3. NoDoubleSubmit
    BY DEF NoDoubleSubmit, ScreenInv, OnceInv
  <1>4. DecisionsShown
    BY DEF DecisionsShown, Settled, ScreenInv, QueueInv
  <1>5. SettledViewTruthful
    BY DEF SettledViewTruthful, Settled, ScreenInv, Spinning, TruthInv, Lone
  <1> QED  BY <1>1, <1>2, <1>3, <1>4, <1>5

LEMMA ScreenAlways == ScreensSpec => []ScreenInv
  <1>1. (\E m \in Modes : ScreensInit(m)) => ScreenInv
    BY ScreenStart
  <1> QED  BY <1>1, ScreenStep, PTL DEF ScreensSpec

\* Every screen keeps its types, with any number of fetches and calls.
THEOREM ScreensTyped == ScreensSpec => []ScreensTypeOK
  BY ScreenAlways, ScreenMeans, PTL

\* On the filtered pages no order of answers and failures leaves the rows of
\* another filter on screen.
THEOREM FilteredRows == ScreensSpec => []RowsMatchFilter
  BY ScreenAlways, ScreenMeans, PTL

\* The forms that create something have one call on the way at a time.
THEOREM OneCreation == ScreensSpec => []NoDoubleSubmit
  BY ScreenAlways, ScreenMeans, PTL

\* The queues show the decisions taken in them, whatever the order of the answers.
THEOREM DecisionsReachTheRows == ScreensSpec => []DecisionsShown
  BY ScreenAlways, ScreenMeans, PTL

\* A screen at rest does not spin, and an error is that of its latest fetch, unless
\* a fetch started beside the error view's Retry failed first.
THEOREM ScreensSettle == ScreensSpec => []SettledViewTruthful
  BY ScreenAlways, ScreenMeans, PTL

-----------------------------------------------------------------------------
(* PhoneScan: types *)

LEMMA ScanTypeStep == ScanTypeOK /\ [ScanStep]_scanVars => ScanTypeOK'
  <1> SUFFICES ASSUME ScanTypeOK, [ScanStep]_scanVars PROVE ScanTypeOK'
    OBVIOUS
  <1> USE ScanAssumption
  <1>1. CASE UNCHANGED scanVars
    BY <1>1 DEF ScanTypeOK, scanVars
  <1>2. CASE StartAttendance \/ CloseAlert \/ FaceTokenEnds \/ TryAgain
    BY <1>2 DEF StartAttendance, CloseAlert, FaceTokenEnds, TryAgain, GoTo, ScanTypeOK,
                WizardStates, photoVars, frameVars, codeVars
  <1>3. CASE TapCapture \/ AutoCapture
    <2>1. ASSUME SendPhoto
          PROVE  photos' \in 0..MaxPhotos /\ verifying' \in 0..photos' /\ capturing' \in BOOLEAN
      BY <2>1 DEF SendPhoto, ScanTypeOK
    <2> QED  BY <1>3, <2>1 DEF TapCapture, AutoCapture, ScanTypeOK, photoVars, frameVars, codeVars
  <1>4. CASE FaceMatched \/ FaceRefused \/ FaceUnclear \/ PhotoFails
    <2>1. verifying' \in 0..photos /\ capturing' \in BOOLEAN /\ astray' \in BOOLEAN
          /\ UNCHANGED <<photos, checking, alert, codeVars>>
      <3>1. FaceAnswered
        BY <1>4 DEF FaceMatched, FaceRefused, FaceUnclear, PhotoFails
      <3>2. verifying \in Int /\ 0 < verifying /\ verifying <= photos
        BY <3>1 DEF FaceAnswered, ScanTypeOK
      <3>3. verifying - 1 \in 0..photos
        BY <3>2 DEF ScanTypeOK
      <3> QED  BY <3>1, <3>3 DEF FaceAnswered, ScanTypeOK
    <2>2. screen' \in WizardStates /\ shutter' \in {"off", "free", "busy"}
          /\ collecting' \in BOOLEAN /\ reason' \in {reason, "face_not_matched"}
      BY <1>4 DEF FaceMatched, FaceRefused, FaceUnclear, PhotoFails, GoTo, ScanTypeOK, WizardStates
    <2> QED  BY <2>1, <2>2 DEF ScanTypeOK, Refusals, codeVars
  <1>5. CASE FramesTaken \/ LivenessConfirmed \/ LivenessFails
    <2>1. checking' \in Nat /\ alert' \in BOOLEAN /\ collecting' \in BOOLEAN
      <3>1. checking' \in {checking, checking + 1} \/ (checking > 0 /\ checking' = checking - 1)
        BY <1>5 DEF FramesTaken, LivenessConfirmed, LivenessFails
      <3>2. checking' \in Nat
        BY <3>1 DEF ScanTypeOK
      <3>3. alert' \in {alert, TRUE} /\ collecting' \in {collecting, FALSE}
        BY <1>5 DEF FramesTaken, LivenessConfirmed, LivenessFails
      <3> QED  BY <3>2, <3>3 DEF ScanTypeOK
    <2>2. screen' \in WizardStates /\ shutter' \in {"off", "free", "busy"} /\ astray' \in BOOLEAN
          /\ UNCHANGED <<reason, photoVars, codeVars>>
      BY <1>5 DEF FramesTaken, LivenessConfirmed, LivenessFails, GoTo, ScanTypeOK, WizardStates
    <2> QED  BY <2>1, <2>2 DEF ScanTypeOK, photoVars, codeVars
  <1>6. ASSUME NEW code \in Codes, Scan(code) PROVE ScanTypeOK'
    BY <1>6 DEF Scan, ScanTypeOK, photoVars, frameVars
  <1>7. ASSUME NEW s \in scans, BiometricPassed(s) PROVE ScanTypeOK'
    BY <1>7 DEF BiometricPassed, GoTo, ScanTypeOK, WizardStates, photoVars, frameVars
  <1>8. ASSUME NEW s \in scans,
               BiometricFails(s) \/ MarkUnreadable(s) \/ MarkAnswered(s) \/ MarkRefused(s) \/ MarkQueued(s)
        PROVE  ScanTypeOK'
    BY <1>8 DEF BiometricFails, MarkUnreadable, MarkAnswered, MarkRefused, MarkQueued, Fail, GoTo,
                ScanTypeOK, WizardStates, Refusals, Rescans, photoVars, frameVars
  <1> QED  BY <1>1, <1>2, <1>3, <1>4, <1>5, <1>6, <1>7, <1>8 DEF ScanStep

LEMMA ScanStart == ScanInit => ScanTypeOK
  <1> SUFFICES ASSUME ScanInit PROVE ScanTypeOK
    OBVIOUS
  <1>1. photos \in 0..MaxPhotos /\ verifying \in 0..photos /\ checking \in Nat /\ scanned \in 0..MaxScans
    BY ScanAssumption DEF ScanInit
  <1> QED  BY <1>1 DEF ScanInit, ScanTypeOK, WizardStates

\* Every variable of the wizard keeps its type.
THEOREM ScanTypes == ScanSpec => []ScanTypeOK
  BY ScanStart, ScanTypeStep, PTL DEF ScanSpec

-----------------------------------------------------------------------------
(* One submission at a time *)

\* The scanner is latched while a submission goes on, and what resets it (the
\* start, Try Again) is offered only where none goes on.
Latched ==
  /\ scans = {} \/ \E s \in scans : scans = {s}
  /\ ~qrScanned => scans = {}
  /\ screen = "idle" => scans = {}
  /\ screen = "failed" /\ reason \in Rescans => scans = {}

LEMMA LatchedStep == Latched /\ [ScanStep]_scanVars => Latched'
  <1> SUFFICES ASSUME Latched, [ScanStep]_scanVars PROVE Latched'
    OBVIOUS
  <1>1. CASE UNCHANGED scanVars
    BY <1>1 DEF Latched, scanVars
  <1>2. CASE StartAttendance \/ CloseAlert \/ FaceTokenEnds \/ TryAgain
    BY <1>2 DEF StartAttendance, CloseAlert, FaceTokenEnds, TryAgain, GoTo, Latched, codeVars
  <1>3. CASE TapCapture \/ AutoCapture
    BY <1>3 DEF TapCapture, AutoCapture, Latched, codeVars
  <1>4. CASE FaceMatched \/ FaceRefused \/ FaceUnclear \/ PhotoFails
    BY <1>4 DEF FaceMatched, FaceRefused, FaceUnclear, PhotoFails, FaceAnswered, GoTo, Latched,
                Rescans, codeVars
  <1>5. CASE FramesTaken \/ LivenessConfirmed \/ LivenessFails
    BY <1>5 DEF FramesTaken, LivenessConfirmed, LivenessFails, GoTo, Latched, codeVars
  <1>6. ASSUME NEW code \in Codes, Scan(code) PROVE Latched'
    BY <1>6 DEF Scan, Latched
  <1>7. ASSUME NEW s \in scans, BiometricPassed(s) PROVE Latched'
    <2>1. scans = {s} /\ qrScanned
      BY DEF Latched
    <2>2. scans' = {[s EXCEPT !.step = "sending"]}
      BY <1>7, <2>1 DEF BiometricPassed
    <2> QED  BY <1>7, <2>1, <2>2 DEF BiometricPassed, GoTo, Latched
  <1>8. ASSUME NEW s \in scans,
               BiometricFails(s) \/ MarkUnreadable(s) \/ MarkAnswered(s) \/ MarkRefused(s) \/ MarkQueued(s)
        PROVE  Latched'
    <2>1. scans = {s}
      BY DEF Latched
    <2>2. scans' = {}
      BY <1>8, <2>1 DEF BiometricFails, MarkUnreadable, MarkAnswered, MarkRefused, MarkQueued, Fail
    <2> QED  BY <2>2 DEF Latched
  <1> QED  BY <1>1, <1>2, <1>3, <1>4, <1>5, <1>6, <1>7, <1>8 DEF ScanStep

LEMMA LatchedAlways == ScanSpec => []Latched
  <1>1. ScanInit => Latched
    BY DEF ScanInit, Latched
  <1> QED  BY <1>1, LatchedStep, PTL DEF ScanSpec

\* One code is acted upon at a time, however the wizard is moved meanwhile.
THEOREM OneScan == ScanSpec => []OneScanAtATime
  <1>1. ASSUME Latched PROVE OneScanAtATime
    <2>1. CASE scans = {}
      BY <2>1, FS_EmptySet DEF OneScanAtATime
    <2>2. ASSUME NEW s \in scans, scans = {s} PROVE OneScanAtATime
      <3>1. Cardinality({s}) = 1
        BY FS_Singleton
      <3> QED  BY <2>2, <3>1 DEF OneScanAtATime
    <2> QED  BY <1>1, <2>1, <2>2 DEF Latched
  <1> QED  BY <1>1, LatchedAlways, PTL

-----------------------------------------------------------------------------
(* The scanner that ignores every code *)

NoChecks == ~collecting /\ checking = 0 /\ ~alert

\* As long as the wizard is moved only as its header says, the liveness check is
\* one thing at a time, and the scanner is free before the code is scanned.
InOrder ==
  ~astray =>
    /\ screen # "liveness_check" => NoChecks
    /\ screen = "liveness_check" =>
         \/ collecting /\ checking = 0 /\ ~alert
         \/ ~collecting /\ checking = 1 /\ ~alert
         \/ ~collecting /\ checking = 0 /\ alert
    /\ screen \in {"idle", "face_verify", "liveness_check"} => ~qrScanned
    /\ screen = "qr_scan" /\ qrScanned => scans # {}
    /\ \A s \in scans : screen = IF s.step = "sending" THEN "submitting" ELSE "qr_scan"

LEMMA InOrderStep == ScanTypeOK /\ Latched /\ InOrder /\ [ScanStep]_scanVars => InOrder'
  <1> SUFFICES ASSUME ScanTypeOK, Latched, InOrder, [ScanStep]_scanVars PROVE InOrder'
    OBVIOUS
  <1>t. /\ checking \in Nat /\ collecting \in BOOLEAN /\ alert \in BOOLEAN
        /\ qrScanned \in BOOLEAN /\ astray \in BOOLEAN /\ screen \in WizardStates
    BY DEF ScanTypeOK
  <1>1. CASE UNCHANGED scanVars
    BY <1>1 DEF InOrder, NoChecks, scanVars
  <1>2. CASE StartAttendance
    BY <1>2 DEF StartAttendance, GoTo, InOrder, NoChecks, frameVars
  <1>3. CASE TapCapture \/ AutoCapture
    BY <1>3 DEF TapCapture, AutoCapture, InOrder, NoChecks, frameVars, codeVars
  <1>4. CASE FaceMatched \/ FaceRefused \/ FaceUnclear \/ PhotoFails
    BY <1>4 DEF FaceMatched, FaceRefused, FaceUnclear, PhotoFails, FaceAnswered, GoTo, InOrder,
                NoChecks, codeVars
  <1>5. CASE FramesTaken
    BY <1>5, <1>t DEF FramesTaken, InOrder, NoChecks, codeVars
  <1>6. CASE LivenessConfirmed
    BY <1>6, <1>t DEF LivenessConfirmed, GoTo, InOrder, NoChecks, codeVars
  <1>7. CASE LivenessFails
    BY <1>7, <1>t DEF LivenessFails, InOrder, NoChecks, codeVars
  <1>8. CASE CloseAlert
    BY <1>8, <1>t DEF CloseAlert, GoTo, InOrder, NoChecks, codeVars
  <1>9. CASE FaceTokenEnds
    BY <1>9, <1>t DEF FaceTokenEnds, GoTo, InOrder, NoChecks, frameVars, codeVars
  <1>10. ASSUME NEW code \in Codes, Scan(code) PROVE InOrder'
    <2> DEFINE new == [id |-> scanned, code |-> code, step |-> "biometric"]
    <2>1. scans' = {new} /\ screen' = "qr_scan" /\ screen = "qr_scan" /\ UNCHANGED <<frameVars, astray>>
      BY <1>10 DEF Scan, Latched
    <2> QED  BY <2>1 DEF InOrder, NoChecks, frameVars
  <1>11. ASSUME NEW s \in scans, BiometricPassed(s) PROVE InOrder'
    <2>1. /\ scans' = {[s EXCEPT !.step = "sending"]}
          /\ screen' = "submitting" /\ UNCHANGED <<frameVars, astray>>
      BY <1>11 DEF BiometricPassed, GoTo, Latched
    <2>2. s.step = "biometric" /\ [s EXCEPT !.step = "sending"].step = "sending"
      BY <1>11 DEF BiometricPassed, ScanTypeOK
    <2>3. ~astray => screen = "qr_scan"
      BY <2>2 DEF InOrder
    <2> QED  BY <2>1, <2>2, <2>3 DEF InOrder, NoChecks, frameVars
  <1>12. ASSUME NEW s \in scans,
                BiometricFails(s) \/ MarkUnreadable(s) \/ MarkAnswered(s) \/ MarkRefused(s) \/ MarkQueued(s)
         PROVE  InOrder'
    <2>1. scans' = {} /\ UNCHANGED <<frameVars, astray>>
      BY <1>12 DEF BiometricFails, MarkUnreadable, MarkAnswered, MarkRefused, MarkQueued, Fail, Latched
    <2>2. screen' \in {"failed", "success"} \/ (s.step = "sending" /\ screen' = screen)
      BY <1>12 DEF BiometricFails, MarkUnreadable, MarkAnswered, MarkRefused, MarkQueued, Fail, GoTo
    <2>3. ~astray => screen \in {"qr_scan", "submitting"} /\ (s.step = "sending" => screen = "submitting")
      BY DEF InOrder
    <2> QED  BY <2>1, <2>2, <2>3 DEF InOrder, NoChecks, frameVars
  <1>13. CASE TryAgain
    BY <1>13 DEF TryAgain, GoTo, InOrder, NoChecks, frameVars
  <1> QED
    BY <1>1, <1>2, <1>3, <1>4, <1>5, <1>6, <1>7, <1>8, <1>9, <1>10, <1>11, <1>12, <1>13 DEF ScanStep

\* A scanner that ignores every code is reached only by the ways that keep the
\* latch: see the property.
THEOREM DeadScanner == ScanSpec => []DeadScannerExplained
  <1>1. ScanInit => InOrder
    BY DEF ScanInit, InOrder, NoChecks
  <1>2. InOrder => DeadScannerExplained
    BY DEF InOrder, DeadScannerExplained
  <1> QED  BY <1>1, <1>2, InOrderStep, ScanTypes, LatchedAlways, PTL DEF ScanSpec
=============================================================================

------------------------------ MODULE Screens ------------------------------
(***************************************************************************)
(* One screen at work: its fetches and calls are answered in any order, or *)
(* fail, while the user selects, refreshes and acts.  The tables say how   *)
(* each screen of the app and each page of the web front end behaves; what *)
(* is followed is one fetch of one screen with one call that changes it.   *)
(***************************************************************************)
EXTENDS Integers, FiniteSets, StudentScreens, TeacherScreens, HodScreens,
        PrincipalScreens, WebHodPages, WebLivePages, WebStudentPages,
        WebTeacherPages, WebSharedPages, WebAdminPages

CONSTANTS
  MaxLoads,    \* bound: fetches the user or a timer starts
  MaxCalls     \* bound: calls sent

ASSUME ScreensAssumption == MaxLoads \in Nat /\ MaxCalls \in Nat

VARIABLES
  mode,        \* what is followed: see Mode
  key,         \* the selected filter or item; 0 when none is
  rows,        \* the rows on screen: for which key, with the effect of which calls
  loads,       \* fetches on the way
  asked,       \* fetches started
  spin,        \* the loading flag
  err,         \* an error is shown
  failed,      \* the latest fetch to end failed
  raced,       \* since the last start, a fetch failed while another was on its way
  calls,       \* calls on the way
  sent,        \* calls sent
  lock,        \* the rows for which the flag of the call is up
  server,      \* calls the server has carried out
  acked,       \* calls answered with success
  overtaken    \* an answer older than a successful call has been shown after it

screenVars == <<mode, key, rows, loads, asked, spin, err, failed, raced, calls, sent,
                lock, server, acked, overtaken>>

KeyIds == 1..2
RowIds == 1..2
Nothing == [key |-> 0, acts |-> {}]

AllScreens ==
  StudentScreenTable \union TeacherScreenTable \union HodScreenTable \union
  PrincipalScreenTable \union WebHodPageTable \union WebLivePageTable \union
  WebStudentPageTable \union WebTeacherPageTable \union WebSharedPageTable \union
  WebAdminPageTable

-----------------------------------------------------------------------------
(* What is promised of some screens by name: see the properties.           *)

\* Pages whose rows must be those of the filter or item rows as selected.
FilteredPages ==
  {"CapsuleAnalyticsPanel", "CollegeDetailPage", "SubjectAnalyticsPage", "VoicePlayer",
   "ClassSessionCard"}

\* Calls that create something a second call would create again.
SingleShots ==
  {<<"LeaveRequestScreen", "submitLeave">>, <<"DisputeScreen", "submitDispute">>,
   <<"StudentLeavePage", "handleApply">>, <<"StudentHome", "handleDispute">>,
   <<"PulseModal", "sendPulse">>, <<"CapsuleUploadModal", "submit">>,
   <<"TeachersPage", "submitAddTeacher">>, <<"Quiz", "submit">>,
   <<"TWMPage", "handleStart">>,
   <<"PrincipalAlertsPage", "sendAlerts">>, <<"BulkAlertSection", "handleConfirm">>}

\* Queues whose rows must show what was decided.
DecisionQueues ==
  {<<"LeaveManagementScreen", "submitReview">>, <<"LeaveRequestsPage", "handleAction">>,
   <<"HODDisputesPage", "handleResolve">>, <<"HODDisputesScreen", "escalate">>,
   <<"LeaveRequestScreen", "cancelLeave">>,
   <<"StudentLeavePage", "handleCancel">>, <<"GenerateQRPage", "handleOverrideConfirm">>}

\* Screens that recover from a failed fetch.
RecoveringScreens ==
  {"NotificationsScreen", "LeaveManagementScreen", "AttendanceManageScreen",
   "LeaveRequestScreen", "DisputeScreen", "CollegeReportsPage", "PrincipalAuditPage",
   "CollegeDetailPage"}

Promised(s, a) ==
  {p \in {"filter", "once", "decided", "truth"} :
     \/ p = "filter" /\ s.name \in FilteredPages
     \/ p = "once" /\ <<s.name, a.name>> \in SingleShots
     \/ p = "decided" /\ <<s.name, a.name>> \in DecisionQueues
     \/ p = "truth" /\ s.name \in RecoveringScreens}

-----------------------------------------------------------------------------
NoFeed == Feed("none", {}, "show", "none", "hush")
NoAct == Act("none", {}, "aside", "stays", "hushes")

Lock(s, a) == IF a.name \in s.view.locks \/ "once" \in a.needs THEN "whole"
              ELSE IF a.name \in s.view.busy THEN "row"
              ELSE IF "card" \in a.needs THEN "card" ELSE "none"

\* The behaviour of a fetch and a call of a screen; screens that share it are one.
Mode(s, f, a) ==
  [on |-> f.on, late |-> f.late, spin |-> f.spin, fails |-> f.fails,
   act |-> a.name # "none", ok |-> a.ok, no |-> a.no, lock |-> Lock(s, a),
   first |-> s.view.first, keeps |-> Promised(s, a)]

ActsOn(s, f) == {a \in s.acts : a.hits = f.name}

ModesOf(s) ==
  (UNION {{Mode(s, f, a) : a \in IF ActsOn(s, f) = {} THEN {NoAct} ELSE ActsOn(s, f)} : f \in s.feeds})
  \union {Mode(s, NoFeed, a) : a \in {b \in s.acts : b.hits = "aside"}}

Modes == UNION {ModesOf(s) : s \in AllScreens}

\* Types of the variables.
ScreensTypeOK ==
  /\ mode.act \in BOOLEAN /\ mode.lock \in {"whole", "row", "card", "none"}
  /\ key \in KeyIds \union {0} /\ rows.key \in KeyIds \union {0}
  /\ rows.acts \subseteq 1..MaxCalls
  /\ \A l \in loads : l.key \in KeyIds /\ l.id <= asked /\ l.acts \subseteq server
  /\ {spin, err, failed, raced, overtaken} \subseteq BOOLEAN
  /\ \A c \in calls : c.id \in 1..sent /\ c.row \in RowIds
  /\ sent \in 0..MaxCalls /\ lock \subseteq RowIds
  /\ server \subseteq 1..sent /\ acked \subseteq server

Fetch(n, k, by) ==
  [id |-> n, key |-> k, by |-> by, read |-> FALSE, acts |-> {}, dropped |-> FALSE]

ScreensInit(m) ==
  /\ mode = m
  /\ key = IF "open" \in m.on THEN 1 ELSE 0
  /\ rows = Nothing
  /\ asked = 0
  /\ loads = IF "open" \in m.on THEN {Fetch(0, 1, "open")} ELSE {}
  /\ spin = ("open" \in m.on /\ m.spin # "none")
  /\ err = FALSE /\ failed = FALSE /\ raced = FALSE
  /\ calls = {} /\ sent = 0 /\ lock = {}
  /\ server = {} /\ acked = {}
  /\ overtaken = FALSE

Fetching == {l \in loads : ~l.dropped}

\* The loading flag hides the rows and their buttons; so may an error.
Hidden == spin /\ (mode.first = "waits" \/ (mode.first = "empty" /\ rows = Nothing))
Replaced == err /\ mode.fails \in {"error", "errorstays"}

\* A fetch starts: what the flags of the screen become.
Start(k, by, others) ==
  /\ asked' = asked + 1
  /\ loads' = others \union {Fetch(asked + 1, k, by)}
  /\ spin' = (spin \/ mode.spin \in {"each", "clears"} \/ (mode.spin = "key" /\ by = "key"))
  /\ err' = (err /\ mode.fails \notin {"error", "banner"})
  /\ raced' = FALSE

WhenStarting(shown) == IF mode.spin = "clears" THEN Nothing ELSE shown

\* The effect of a new key: its cleanup disowns the fetches of the old one.
\* Where only the first fetch raises the flag, what it hides includes the selectors.
Select(k) ==
  /\ "key" \in mode.on
  /\ k # key /\ asked < MaxLoads
  /\ mode.spin = "ends" => ~Hidden
  /\ mode.late = "hold" => Fetching = {}
  /\ key' = k
  /\ Start(k, "key", IF mode.late = "drop" THEN {[l EXCEPT !.dropped = TRUE] : l \in loads}
                     ELSE loads)
  /\ rows' = WhenStarting(rows)
  /\ UNCHANGED <<mode, failed, calls, sent, lock, server, acked, overtaken>>

\* A filter that the next fetch will use; the rows stay as they are.
Pick(k) ==
  /\ "pick" \in mode.on /\ k # key
  /\ key' = k
  /\ UNCHANGED <<mode, rows, loads, asked, spin, err, failed, raced, calls, sent, lock,
                 server, acked, overtaken>>

Close ==
  /\ "close" \in mode.on /\ key # 0
  /\ mode.late = "hold" => Fetching = {}
  /\ key' = 0 /\ rows' = Nothing
  /\ UNCHANGED <<mode, loads, asked, spin, err, failed, raced, calls, sent, lock, server,
                 acked, overtaken>>

\* The same fetch again.
Refresh(by) ==
  /\ by \in mode.on
  /\ key # 0 /\ asked < MaxLoads
  /\ \/ by = "timer"
     \/ by = "pull" /\ ~Hidden /\ ~Replaced /\ \A l \in Fetching : l.by # "pull"
     \/ by = "again" /\ ~Hidden
     \/ by \in {"apply", "more"} /\ ~spin
     \/ by = "retry" /\ err /\ ~spin
  /\ Start(key, by, loads)
  /\ rows' = WhenStarting(rows)
  /\ UNCHANGED <<mode, key, failed, calls, sent, lock, server, acked, overtaken>>

ServerReads(l) ==
  /\ ~l.read
  /\ loads' = (loads \ {l}) \union {[l EXCEPT !.read = TRUE, !.acts = server]}
  /\ UNCHANGED <<mode, key, rows, asked, spin, err, failed, raced, calls, sent, lock,
                 server, acked, overtaken>>

\* A disowned answer changes nothing.
Disowned(l) ==
  /\ l.dropped
  /\ loads' = loads \ {l}
  /\ UNCHANGED <<mode, key, rows, asked, spin, err, failed, raced, calls, sent, lock,
                 server, acked, overtaken>>

Ends(l) ==
  /\ ~l.dropped
  /\ loads' = loads \ {l}
  /\ spin' = FALSE
  /\ lock' = IF l.by = "await" THEN {} ELSE lock
  /\ UNCHANGED <<mode, asked, calls, sent, server, acked>>

Arrives(l) ==
  /\ l.read /\ mode.late # "never"
  /\ Ends(l)
  /\ rows' = [key |-> l.key, acts |-> l.acts]
  /\ failed' = FALSE
  /\ overtaken' = (overtaken \/ ~(acked \subseteq l.acts))
  /\ UNCHANGED <<key, err, raced>>

Fails(l) ==
  /\ Ends(l)
  /\ rows' = IF mode.fails \in {"blanks", "closes"} THEN Nothing ELSE rows
  /\ key' = IF mode.fails = "closes" THEN 0 ELSE key
  /\ err' = (err \/ mode.fails \in {"error", "errorstays", "banner", "bannerstays"})
  /\ failed' = TRUE
  /\ raced' = (raced \/ Fetching \ {l} # {})
  /\ UNCHANGED overtaken

\* The user acts on a row, or sends the form; only flags of rows tell rows apart.
ActedOn == IF mode.lock \in {"row", "card"} THEN RowIds ELSE {1}

Press(row) ==
  /\ mode.act /\ sent < MaxCalls
  /\ ~Hidden /\ ~Replaced
  /\ mode.lock = "whole" => lock = {}
  /\ mode.lock \in {"row", "card"} => row \notin lock
  /\ sent' = sent + 1
  /\ calls' = calls \union {[id |-> sent + 1, row |-> row]}
  /\ lock' = IF mode.lock = "none" THEN lock
             ELSE IF mode.lock = "card" THEN lock \union {row} ELSE {row}
  /\ rows' = IF mode.ok = "first" THEN [rows EXCEPT !.acts = @ \union {sent + 1}] ELSE rows
  /\ UNCHANGED <<mode, key, loads, asked, spin, err, failed, raced, server, acked, overtaken>>

ServerActs(c) ==
  /\ c.id \notin server /\ mode.ok # "never"
  /\ server' = server \union {c.id}
  /\ UNCHANGED <<mode, key, rows, loads, asked, spin, err, failed, raced, calls, sent,
                 lock, acked, overtaken>>

Released(c) == IF mode.lock = "card" THEN lock \ {c.row} ELSE {}

\* The call is answered with success: the flag falls in the finally of the
\* handler, after the fetch that it awaits; a screen that is left keeps it.
Succeeds(c) ==
  /\ c.id \in server
  /\ calls' = calls \ {c}
  /\ acked' = acked \union {c.id}
  /\ IF mode.ok \in {"load", "await"} /\ key # 0
     THEN Start(key, IF mode.ok = "await" THEN "await" ELSE "call", loads)
          /\ rows' = WhenStarting(rows)
     ELSE /\ rows' = IF mode.ok = "patch" THEN [rows EXCEPT !.acts = @ \union {c.id}] ELSE rows
          /\ UNCHANGED <<loads, asked, spin, err, raced>>
  /\ lock' = IF mode.ok = "leave" \/ (mode.ok = "await" /\ key # 0) THEN lock ELSE Released(c)
  /\ UNCHANGED <<mode, key, failed, sent, server, overtaken>>

\* The call is refused, or its answer is lost.
Refused(c) ==
  /\ calls' = calls \ {c}
  /\ rows' = IF mode.no = "undoes" THEN [rows EXCEPT !.acts = @ \ {c.id}] ELSE rows
  /\ IF mode.no = "reloads" /\ key # 0 THEN Start(key, "call", loads)
     ELSE UNCHANGED <<loads, asked, spin, err, raced>>
  /\ lock' = Released(c)
  /\ UNCHANGED <<mode, key, failed, sent, server, acked, overtaken>>

ScreensStep ==
  \/ \E k \in KeyIds : Select(k) \/ Pick(k)
  \/ Close
  \/ \E by \in mode.on : Refresh(by)
  \/ \E l \in loads : ServerReads(l) \/ Disowned(l) \/ Arrives(l) \/ Fails(l)
  \/ \E row \in ActedOn : Press(row)
  \/ \E c \in calls : ServerActs(c) \/ Succeeds(c) \/ Refused(c)

ScreensSpec == (\E m \in Modes : ScreensInit(m)) /\ [][ScreensStep]_screenVars

-----------------------------------------------------------------------------
Settled == Fetching = {}

\* On these pages no order of answers and failures leaves the rows of another
\* filter or item on screen, without an error, as those of the selected one.
RowsMatchFilter ==
  "filter" \in mode.keeps /\ Settled /\ ~err /\ rows # Nothing => rows.key = key

\* What these forms create is never being created twice at a time for one press.
NoDoubleSubmit ==
  "once" \in mode.keeps => \A c, d \in calls : c.row = d.row => c = d

\* When everything has been answered, the queue shows every decision that was
\* taken in it, unless its last fetch failed or an older answer came after one.
DecisionsShown ==
  "decided" \in mode.keeps /\ Settled /\ calls = {} =>
    acked \subseteq rows.acts \/ failed \/ overtaken

\* When everything has been answered no screen spins; and where failures are
\* recovered from, an error is that of the latest fetch, unless the Retry button of
\* the error view was followed by a pull: the retry may then fail first, and nothing
\* clears its error when the pull succeeds.
SettledViewTruthful ==
  Settled => /\ ~spin
             /\ "truth" \in mode.keeps /\ err => failed \/ ("retry" \in mode.on /\ raced)
=============================================================================

----------------------------- MODULE LiveSession -----------------------------
(***************************************************************************)
(* A live online class of one subject and one section, on one day, and the *)
(* attendance sheet linked to it.  Starting the class opens the sheet; a   *)
(* student's heartbeats accrue time on a participant row; ending the class *)
(* turns the time of every row into an attendance record.                  *)
(*                                                                         *)
(* Handlers run in a pool of threads, each with its own transaction at     *)
(* READ COMMITTED and autoflush off: a handler reads rows into its job and *)
(* commits later, writing only attributes whose value differs from the one *)
(* it loaded.  Between the two, others commit.                             *)
(*                                                                         *)
(* beats, told, vouched, raced and late record what happened, for the      *)
(* properties.                                                             *)
(***************************************************************************)
EXTENDS Integers, FiniteSets, Sequences

CONSTANTS
    Students,     \* students of the section
    NoStudent,
    Threads,      \* handlers that may be in flight at once
    MinBeats,     \* heartbeats that make LIVE_SESSION_MIN_ATTENDANCE_MINUTES
    MaxRows,      \* bound on participant rows
    MaxBeats,     \* bound on heartbeats accepted for one row
    MaxOutside    \* bound on scans, overrides, expiries and restarts

ASSUME LiveAssumption ==
    /\ NoStudent \notin Students
    /\ IsFiniteSet(Students)
    /\ MinBeats \in Nat \ {0}
    /\ MaxRows \in Nat
    /\ MaxBeats \in Nat
    /\ MaxOutside \in Nat

VARIABLES
    live,      \* live_sessions.status
    sheet,     \* status of the linked attendance_sessions row
    rows,      \* live_session_participants, in the order of their ids
    rec,       \* attendance_records of the sheet
    count,     \* present_count of the sheet
    job,       \* what each thread is doing
    beats,     \* heartbeats accepted for each row
    told,      \* students whose leave was answered attendance_counted
    vouched,   \* students whose record a scan or an override wrote
    raced,     \* students with two rows, or with an undone heartbeat
    late,      \* rows inserted once an end had begun
    outside    \* scans, overrides, expiries and restarts so far

vars == <<live, sheet, rows, rec, count, job, beats, told, vouched, raced, late, outside>>

Ids == 1 .. MaxRows
NoRow == 0
Unseen == -1
Row == [who : Students, time : 0 .. MaxBeats, active : BOOLEAN]
Marks == {"none", "present", "absent"}
NoSight == [r \in Ids |-> Unseen]
NoRecords == [s \in Students |-> "none"]

\* seen: time of the rows an end has loaded; left: those it marks as left;
\* had, cnt: the records and the count it has loaded.
Idle == [pc |-> "idle", who |-> NoStudent, row |-> NoRow, time |-> 0, active |-> FALSE,
         seen |-> NoSight, left |-> {}, had |-> NoRecords, cnt |-> 0]

Job == [pc : {"idle", "insert sheet", "go live", "look up", "join", "beat", "leave", "answer",
              "mark left", "load", "close"},
        who : Students \cup {NoStudent}, row : Ids \cup {NoRow}, time : 0 .. MaxBeats,
        active : BOOLEAN, seen : [Ids -> Unseen .. MaxBeats], left : SUBSET Ids,
        had : [Students -> Marks], cnt : Nat]

TypeOK ==
    /\ live \in {"waiting", "live", "ended"}
    /\ sheet \in {"none", "active", "ended", "expired"}
    /\ rows \in Seq(Row)
    /\ Len(rows) <= MaxRows
    /\ rec \in [Students -> Marks]
    /\ count \in Nat
    /\ job \in [Threads -> Job]
    /\ beats \in [Ids -> 0 .. MaxBeats]
    /\ told \subseteq Students
    /\ vouched \subseteq Students
    /\ raced \subseteq Students
    /\ late \subseteq Ids
    /\ outside \in 0 .. MaxOutside

\* create_live_session commits a class that waits for its teacher.
Init ==
    /\ live = "waiting"
    /\ sheet = "none"
    /\ rows = <<>>
    /\ rec = NoRecords
    /\ count = 0
    /\ job = [t \in Threads |-> Idle]
    /\ beats = [r \in Ids |-> 0]
    /\ told = {}
    /\ vouched = {}
    /\ raced = {}
    /\ late = {}
    /\ outside = 0

Begins(t, j) == job[t].pc = "idle" /\ job' = [job EXCEPT ![t] = j]
Continues(t, j) == job' = [job EXCEPT ![t] = j]
Done(t) == job' = [job EXCEPT ![t] = Idle]

RowsOf(s) == {r \in DOMAIN rows : rows[r].who = s}
NumPresent == Cardinality({s \in Students : rec[s] = "present"})
Ending == \E t \in Threads : job[t].pc \in {"mark left", "load", "close"}

-----------------------------------------------------------------------------
(* start_live_session: one commit for the sheet, a second one for the class *)

StartChecks(t) ==
    /\ live = "waiting"
    /\ Begins(t, [Idle EXCEPT !.pc = "insert sheet"])
    /\ UNCHANGED <<live, sheet, rows, rec, count, beats, told, vouched, raced, late, outside>>

\* uq_attendance_session_subject_date_section lets one sheet in.
MayInsertAnySheet == TRUE
MayInsertSheet == sheet = "none"

SheetInserted(t) ==
    /\ job[t].pc = "insert sheet"
    /\ MayInsertSheet
    /\ sheet' = "active"
    /\ Continues(t, [job[t] EXCEPT !.pc = "go live"])
    /\ UNCHANGED <<live, rows, rec, count, beats, told, vouched, raced, late, outside>>

SheetConflicts(t) ==
    /\ job[t].pc = "insert sheet"
    /\ ~MayInsertSheet
    /\ Done(t)
    /\ UNCHANGED <<live, sheet, rows, rec, count, beats, told, vouched, raced, late, outside>>

GoesLive(t) ==
    /\ job[t].pc = "go live"
    /\ live' = "live"
    /\ Done(t)
    /\ UNCHANGED <<sheet, rows, rec, count, beats, told, vouched, raced, late, outside>>

-----------------------------------------------------------------------------
(* join_live_session of a student of the section *)

JoinChecks(t, s) ==
    /\ live = "live"
    /\ Begins(t, [Idle EXCEPT !.pc = "look up", !.who = s])
    /\ UNCHANGED <<live, sheet, rows, rec, count, beats, told, vouched, raced, late, outside>>

\* .first() without an order: any row of the student.
JoinLooksUp(t) ==
    /\ job[t].pc = "look up"
    /\ \/ /\ RowsOf(job[t].who) = {}
          /\ Continues(t, [job[t] EXCEPT !.pc = "join"])
       \/ \E r \in RowsOf(job[t].who) :
             Continues(t, [job[t] EXCEPT !.pc = "join", !.row = r, !.active = rows[r].active])
    /\ UNCHANGED <<live, sheet, rows, rec, count, beats, told, vouched, raced, late, outside>>

\* A row found keeps its time; active is written if it was loaded as false.
RejoinedCredited(row, wasActive) == [row EXCEPT !.active = @ \/ ~wasActive, !.time = @ + 1]
RejoinedAnew(row, wasActive) == [row EXCEPT !.active = @ \/ ~wasActive, !.time = 0]
Rejoined(row, wasActive) == [row EXCEPT !.active = @ \/ ~wasActive]

Rejoins(t) ==
    /\ job[t].pc = "join"
    /\ job[t].row # NoRow
    /\ rows' = [rows EXCEPT ![job[t].row] = Rejoined(@, job[t].active)]
    /\ Done(t)
    /\ UNCHANGED <<live, sheet, rec, count, beats, told, vouched, raced, late, outside>>

\* No constraint keeps a second row of the student out.
Joins(t) ==
    /\ job[t].pc = "join"
    /\ job[t].row = NoRow
    /\ Len(rows) < MaxRows
    /\ rows' = Append(rows, [who |-> job[t].who, time |-> 0, active |-> TRUE])
    /\ raced' = raced \cup (IF RowsOf(job[t].who) = {} THEN {} ELSE {job[t].who})
    /\ late' = late \cup (IF Ending \/ live = "ended" THEN {Len(rows) + 1} ELSE {})
    /\ Done(t)
    /\ UNCHANGED <<live, sheet, rec, count, beats, told, vouched, outside>>

-----------------------------------------------------------------------------
(* heartbeat and leave_session: neither asks for the status of the class *)

BeatReads(t, r) ==
    /\ beats[r] < MaxBeats
    /\ rows[r].time < MaxBeats
    /\ Begins(t, [Idle EXCEPT !.pc = "beat", !.row = r, !.time = rows[r].time,
                              !.active = rows[r].active])
    /\ UNCHANGED <<live, sheet, rows, rec, count, beats, told, vouched, raced, late, outside>>

Beaten(row, j) == [row EXCEPT !.time = j.time + 1, !.active = @ \/ ~j.active]

BeatCommits(t) ==
    LET j == job[t] IN
    /\ j.pc = "beat"
    /\ beats[j.row] < MaxBeats
    /\ rows' = [rows EXCEPT ![j.row] = Beaten(@, j)]
    /\ beats' = [beats EXCEPT ![j.row] = @ + 1]
    /\ raced' = raced \cup (IF rows[j.row].time = j.time THEN {} ELSE {rows[j.row].who})
    /\ Done(t)
    /\ UNCHANGED <<live, sheet, rec, count, told, vouched, late, outside>>

LeaveReads(t, r) ==
    /\ Begins(t, [Idle EXCEPT !.pc = "leave", !.row = r, !.active = rows[r].active])
    /\ UNCHANGED <<live, sheet, rows, rec, count, beats, told, vouched, raced, late, outside>>

LeaveCommits(t) ==
    /\ job[t].pc = "leave"
    /\ rows' = [rows EXCEPT ![job[t].row].active = @ /\ ~job[t].active]
    /\ Continues(t, [job[t] EXCEPT !.pc = "answer"])
    /\ UNCHANGED <<live, sheet, rec, count, beats, told, vouched, raced, late, outside>>

QualifiesEarly(time) == time >= MinBeats - 1
Qualifies(time) == time >= MinBeats

\* The answer reads the row again.  One given while the class is being ended,
\* or after, promises nothing about the end.
LeaveAnswers(t) ==
    LET r == job[t].row IN
    /\ job[t].pc = "answer"
    /\ told' = told \cup (IF Qualifies(rows[r].time) /\ live = "live" /\ ~Ending
                            THEN {rows[r].who} ELSE {})
    /\ Done(t)
    /\ UNCHANGED <<live, sheet, rows, rec, count, beats, vouched, raced, late, outside>>

-----------------------------------------------------------------------------
(* end_live_session *)

EndChecks(t) ==
    /\ live = "live"
    /\ Begins(t, [Idle EXCEPT !.pc = "mark left"])
    /\ UNCHANGED <<live, sheet, rows, rec, count, beats, told, vouched, raced, late, outside>>

\* Loads the active rows, time included.
EndMarksLeft(t) ==
    LET active == {r \in DOMAIN rows : rows[r].active} IN
    /\ job[t].pc = "mark left"
    /\ Continues(t, [job[t] EXCEPT !.pc = "load", !.left = active,
                        !.seen = [r \in Ids |-> IF r \in active THEN rows[r].time ELSE Unseen]])
    /\ UNCHANGED <<live, sheet, rows, rec, count, beats, told, vouched, raced, late, outside>>

\* The rows of every student who joined, not only of those still there.
StillThere == {r \in DOMAIN rows : rows[r].active}
ToRecord == DOMAIN rows

\* Loads the other rows, the sheet and its records: nobody writes two of them, so
\* these reads are one step.  A row loaded already keeps the time loaded with it.
EndLoads(t) ==
    LET j == job[t] IN
    /\ j.pc = "load"
    /\ Continues(t, [j EXCEPT !.pc = "close", !.had = rec, !.cnt = count,
                        !.seen = [r \in Ids |-> IF r \in ToRecord /\ j.seen[r] = Unseen
                                                  THEN rows[r].time
                                                  ELSE j.seen[r]]])
    /\ UNCHANGED <<live, sheet, rows, rec, count, beats, told, vouched, raced, late, outside>>

SeenOf(j, s) == {r \in RowsOf(s) : j.seen[r] # Unseen}
SeenRows(j) == {r \in Ids : j.seen[r] # Unseen}
Verdict(time) == IF Qualifies(time) THEN "present" ELSE "absent"

\* rec after the records are written; of two rows of a student the later wins,
\* in whatever order they were loaded.  A record is updated if its status
\* differs from the one loaded.
Recorded(j, last) ==
    [s \in Students |->
        IF SeenOf(j, s) = {} \/ Verdict(j.seen[last[s]]) = j.had[s]
          THEN rec[s]
          ELSE Verdict(j.seen[last[s]])]

StudentsMarked(j) == Cardinality(SeenRows(j))
AttendanceMarked(j) == Cardinality({r \in SeenRows(j) : Qualifies(j.seen[r])})

\* uq_attendance_record_session_student
RecordConflict(j) == \E s \in Students : SeenOf(j, s) # {} /\ j.had[s] = "none" /\ rec[s] # "none"

EndCommits(t) ==
    LET j == job[t] IN
    /\ j.pc = "close"
    /\ ~RecordConflict(j)
    /\ live' = "ended"
    /\ sheet' = "ended"
    /\ rows' = [r \in DOMAIN rows |-> [rows[r] EXCEPT !.active = @ /\ r \notin j.left]]
    /\ \E last \in [Students -> Ids \cup {NoRow}] :
          /\ \A s \in Students : IF SeenOf(j, s) = {} THEN last[s] = NoRow
                                                       ELSE last[s] \in SeenOf(j, s)
          /\ rec' = Recorded(j, last)
    /\ count' = IF AttendanceMarked(j) = j.cnt THEN count ELSE AttendanceMarked(j)
    /\ Done(t)
    /\ UNCHANGED <<beats, told, vouched, raced, late, outside>>

\* A record was inserted since: the commit fails and nothing of the end is kept.
EndConflicts(t) ==
    /\ job[t].pc = "close"
    /\ RecordConflict(job[t])
    /\ Done(t)
    /\ UNCHANGED <<live, sheet, rows, rec, count, beats, told, vouched, raced, late, outside>>

-----------------------------------------------------------------------------
(* The sheet is an attendance session like any other: what AttendanceSession *)
(* does step by step is one commit here.                                     *)

Outside == outside < MaxOutside /\ outside' = outside + 1

Scan(s) ==
    /\ Outside
    /\ sheet = "active"
    /\ rec[s] # "present"
    /\ rec' = [rec EXCEPT ![s] = "present"]
    /\ count' = count + 1
    /\ vouched' = vouched \cup {s}
    /\ UNCHANGED <<live, sheet, rows, job, beats, told, raced, late>>

\* present_count is recounted before the new status is flushed.
Override(s) ==
    /\ Outside
    /\ rec[s] # "none"
    /\ \E m \in Marks \ {"none"} : rec' = [rec EXCEPT ![s] = m]
    /\ count' = NumPresent
    /\ vouched' = vouched \cup {s}
    /\ UNCHANGED <<live, sheet, rows, job, beats, told, raced, late>>

AutoExpire ==
    /\ Outside
    /\ sheet = "active"
    /\ sheet' = "expired"
    /\ count' = NumPresent
    /\ UNCHANGED <<live, rows, rec, job, beats, told, vouched, raced, late>>

\* The server restarts: what was not committed is gone.
Restart ==
    /\ Outside
    /\ job' = [t \in Threads |-> Idle]
    /\ UNCHANGED <<live, sheet, rows, rec, count, beats, told, vouched, raced, late>>

Start(t) == StartChecks(t) \/ SheetInserted(t) \/ SheetConflicts(t) \/ GoesLive(t)
Join(t) == (\E s \in Students : JoinChecks(t, s)) \/ JoinLooksUp(t) \/ Rejoins(t) \/ Joins(t)
Beat(t) == (\E r \in DOMAIN rows : BeatReads(t, r)) \/ BeatCommits(t)
Leave(t) == (\E r \in DOMAIN rows : LeaveReads(t, r)) \/ LeaveCommits(t) \/ LeaveAnswers(t)
End(t) == EndChecks(t) \/ EndMarksLeft(t) \/ EndLoads(t) \/ EndCommits(t) \/ EndConflicts(t)

Next ==
    \/ \E t \in Threads : Start(t) \/ Join(t) \/ Beat(t) \/ Leave(t) \/ End(t)
    \/ \E s \in Students : Scan(s) \/ Override(s)
    \/ AutoExpire
    \/ Restart

Spec == Init /\ [][Next]_vars

-----------------------------------------------------------------------------
(* Properties *)

\* Once ended, a class is never live again and its sheet never reopens, however
\* many starts and ends were in flight (start_live_session, end_live_session).
EndedIsFinal == [][live = "ended" => live' = "ended" /\ sheet' # "active"]_vars

\* A student end_live_session marks present has a row that really received the
\* heartbeats the minimum asks for: no interleaving gives time away.
PresentEarned ==
    \A s \in Students \ vouched :
        rec[s] = "present" => \E r \in RowsOf(s) : beats[r] >= MinBeats

\* The answer of leave_session, attendance_counted, holds at the end of the
\* class, unless heartbeats raced, a second row was created or the teacher
\* overrode the record: leaving and rejoining lose no time.
ToldCounted ==
    live = "ended" => \A s \in told \ (raced \cup vouched) : rec[s] = "present"

\* Ending the class leaves nobody out: whoever joined before the end began has a
\* record, left or not, whatever was in flight (end_live_session).
NobodyLeftOut ==
    live = "ended" => \A r \in DOMAIN rows \ late : rec[rows[r].who] # "none"

\* An end that no other commit overtook since its load leaves the count at the
\* number of students present, when each has one row and nobody else writes
\* records: whatever ends, beats and joins came before, nobody counts twice.
EndReconciles ==
    [][\A t \in Threads :
          /\ EndCommits(t)
          /\ rec = job[t].had /\ count = job[t].cnt
          /\ raced = {} /\ vouched = {}
          => count' = NumPresent']_vars

\* "Mark all active participants as left" (end_live_session): nobody is listed as
\* still in the class when its end is committed.
AllLeft ==
    [][live # "ended" /\ live' = "ended" => \A r \in DOMAIN rows' : ~rows'[r].active]_vars

=============================================================================

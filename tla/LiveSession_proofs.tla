------------------------- MODULE LiveSession_proofs -------------------------
(***************************************************************************)
(* Proofs about LiveSession, for any students, threads and bounds.         *)
(***************************************************************************)
EXTENDS LiveSession, SequenceTheorems, FiniteSetTheorems, TLAPS

InRow == {"beat", "leave", "answer"}
InJoin == {"look up", "join"}
InEnd == {"mark left", "load", "close"}

JobOK(j, ids) ==
    /\ j.pc \in InRow => j.row \in ids
    /\ j.pc = "beat" => j.time < MaxBeats
    /\ j.pc \in InJoin => j.who \in Students
    /\ j.pc = "look up" => j.row = NoRow
    /\ j.pc = "join" => j.row \in ids \cup {NoRow}

TInv == TypeOK /\ \A t \in Threads : JobOK(job[t], DOMAIN rows)

-----------------------------------------------------------------------------
(* Rows *)

LEMMA RowFacts ==
    ASSUME TypeOK
    PROVE  /\ DOMAIN rows = 1 .. Len(rows)
           /\ Len(rows) \in 0 .. MaxRows
           /\ DOMAIN rows \subseteq Ids
           /\ \A r \in DOMAIN rows : rows[r] \in Row
           /\ NoRow \notin Ids
  <1>1. rows \in Seq(Row) /\ Len(rows) <= MaxRows
    BY DEF TypeOK
  <1>2. Len(rows) \in Nat /\ DOMAIN rows = 1 .. Len(rows) /\ \A r \in 1 .. Len(rows) : rows[r] \in Row
    BY <1>1, LenProperties, ElementOfSeq
  <1> QED  BY <1>1, <1>2, LiveAssumption DEF Ids, NoRow

\* A function on the same ids, with rows as values, is a sequence of as many rows.
LEMMA SameIds ==
    ASSUME TypeOK, NEW f \in [DOMAIN rows -> Row]
    PROVE  f \in Seq(Row) /\ Len(f) = Len(rows) /\ DOMAIN f = DOMAIN rows
  <1>1. DOMAIN rows = 1 .. Len(rows) /\ Len(rows) \in Nat
    BY RowFacts, LiveAssumption
  <1>2. f \in Seq(Row)
    BY <1>1, SeqDef
  <1>3. DOMAIN f = 1 .. Len(f) /\ Len(f) \in Nat
    BY <1>2, LenProperties
  <1> QED  BY <1>1, <1>2, <1>3

\* The rows after one of them is changed.
LEMMA RowChanged ==
    ASSUME TypeOK, NEW r \in DOMAIN rows, NEW x \in Row
    PROVE  [rows EXCEPT ![r] = x] \in [DOMAIN rows -> Row]
  BY RowFacts

LEMMA RowAdded ==
    ASSUME TypeOK, Len(rows) < MaxRows, NEW x \in Row
    PROVE  LET new == Append(rows, x) IN
           /\ new \in Seq(Row)
           /\ Len(new) = Len(rows) + 1
           /\ DOMAIN new = DOMAIN rows \cup {Len(rows) + 1}
           /\ Len(rows) + 1 \notin DOMAIN rows
           /\ \A r \in DOMAIN rows : new[r] = rows[r]
           /\ new[Len(rows) + 1] = x
  <1> DEFINE new == Append(rows, x)
  <1>1. rows \in Seq(Row) /\ DOMAIN rows = 1 .. Len(rows) /\ Len(rows) \in Nat
    BY RowFacts, LiveAssumption DEF TypeOK
  <1>2. /\ new \in Seq(Row)
        /\ Len(new) = Len(rows) + 1
        /\ \A i \in 1 .. Len(rows) : new[i] = rows[i]
        /\ new[Len(rows) + 1] = x
    BY <1>1, AppendProperties
  <1>3. DOMAIN new = 1 .. (Len(rows) + 1)
    BY <1>2, LenProperties
  <1> HIDE DEF new
  <1>4. DOMAIN new = DOMAIN rows \cup {Len(rows) + 1} /\ Len(rows) + 1 \notin DOMAIN rows
    BY <1>1, <1>3
  <1> QED  BY <1>1, <1>2, <1>4 DEF new

-----------------------------------------------------------------------------
(* Jobs *)

LEMMA JobFacts ==
    ASSUME NEW j \in Job
    PROVE  /\ j.time \in Nat
           /\ j.row \in Ids \cup {NoRow}
           /\ \A r \in Ids : j.seen[r] \in Int
           /\ \A s \in Students : j.had[s] \in Marks
  <1>1. /\ j.time \in 0 .. MaxBeats
        /\ \A r \in Ids : j.seen[r] \in Unseen .. MaxBeats
    BY DEF Job
  <1>2. j.time \in Nat /\ \A r \in Ids : j.seen[r] \in Int
    BY <1>1, LiveAssumption DEF Unseen
  <1> QED  BY <1>2 DEF Job

LEMMA IdleType == Idle \in Job /\ \A ids : JobOK(Idle, ids)
  <1>1. NoSight \in [Ids -> Unseen .. MaxBeats] /\ NoRecords \in [Students -> Marks]
    BY LiveAssumption DEF NoSight, NoRecords, Unseen, Marks
  <1> QED  BY <1>1, LiveAssumption DEF Idle, Job, JobOK, InRow, InJoin

\* A step that gives thread t the job j and keeps every row.
LEMMA JobStep ==
    ASSUME TInv, NEW t \in Threads, NEW j \in Job, NEW ids, JobOK(j, ids),
           DOMAIN rows \subseteq ids, job' = [job EXCEPT ![t] = j]
    PROVE  job' \in [Threads -> Job] /\ \A u \in Threads : JobOK(job'[u], ids)
  <1>1. job' \in [Threads -> Job]
    BY DEF TInv, TypeOK
  <1>2. ASSUME NEW u \in Threads PROVE JobOK(job'[u], ids)
    <2>1. CASE u = t
      BY <2>1 DEF TInv, TypeOK
    <2>2. CASE u # t
      <3>1. job'[u] = job[u] /\ JobOK(job[u], DOMAIN rows)
        BY <2>2 DEF TInv, TypeOK
      <3> QED  BY <3>1 DEF JobOK
    <2> QED  BY <2>1, <2>2
  <1> QED  BY <1>1, <1>2

LEMMA JobDone ==
    ASSUME TInv, NEW t \in Threads, NEW ids, DOMAIN rows \subseteq ids, Done(t)
    PROVE  job' \in [Threads -> Job] /\ \A u \in Threads : JobOK(job'[u], ids)
  BY IdleType, JobStep DEF Done

\* The count of the records and of the rows an end has seen is a number.
LEMMA CountType ==
    ASSUME TypeOK
    PROVE  NumPresent \in Nat /\ \A j : AttendanceMarked(j) \in Nat
  <1>1. IsFiniteSet(Ids)
    BY FS_Interval, LiveAssumption DEF Ids
  <1>2. NumPresent \in Nat
    BY FS_Subset, FS_CardinalityType, LiveAssumption DEF NumPresent
  <1>3. ASSUME NEW j PROVE AttendanceMarked(j) \in Nat
    <2>1. {r \in SeenRows(j) : Qualifies(j.seen[r])} \subseteq Ids
      BY DEF SeenRows
    <2> QED  BY <1>1, <2>1, FS_Subset, FS_CardinalityType DEF AttendanceMarked
  <1> QED  BY <1>2, <1>3

-----------------------------------------------------------------------------
(* Type correctness *)

LEMMA TypeInit == Init => TInv
  <1> SUFFICES ASSUME Init PROVE TInv
    OBVIOUS
  <1>1. rows \in Seq(Row) /\ Len(rows) = 0
    BY EmptySeq DEF Init
  <1>2. TypeOK
    BY <1>1, IdleType, LiveAssumption DEF Init, TypeOK, NoRecords, Marks, Ids
  <1> QED  BY <1>2, IdleType DEF Init, TInv

LEMMA StartType ==
    ASSUME TInv, NEW t \in Threads, Start(t)
    PROVE  TInv'
  <1>1. CASE StartChecks(t)
    <2>1. [Idle EXCEPT !.pc = "insert sheet"] \in Job
      BY IdleType DEF Job
    <2>2. JobOK([Idle EXCEPT !.pc = "insert sheet"], DOMAIN rows)
      BY DEF Idle, JobOK, InRow, InJoin
    <2> QED  BY <1>1, <2>1, <2>2, JobStep DEF StartChecks, Begins, TInv, TypeOK
  <1>2. CASE SheetInserted(t)
    <2>1. [job[t] EXCEPT !.pc = "go live"] \in Job
      BY DEF Job, TInv, TypeOK
    <2>2. JobOK([job[t] EXCEPT !.pc = "go live"], DOMAIN rows)
      <3>1. job[t] \in Job
        BY DEF TInv, TypeOK
      <3> QED  BY <3>1 DEF JobOK, InRow, InJoin, Job
    <2> QED  BY <1>2, <2>1, <2>2, JobStep DEF SheetInserted, Continues, TInv, TypeOK
  <1>3. CASE SheetConflicts(t)
    BY <1>3, JobDone DEF SheetConflicts, TInv, TypeOK
  <1>4. CASE GoesLive(t)
    BY <1>4, JobDone DEF GoesLive, TInv, TypeOK
  <1> QED  BY <1>1, <1>2, <1>3, <1>4 DEF Start

LEMMA JoinType ==
    ASSUME TInv, NEW t \in Threads, Join(t)
    PROVE  TInv'
  <1>0. TypeOK /\ job[t] \in Job /\ JobOK(job[t], DOMAIN rows)
    BY DEF TInv, TypeOK
  <1>1. ASSUME NEW s \in Students, JoinChecks(t, s) PROVE TInv'
    <2> DEFINE j == [Idle EXCEPT !.pc = "look up", !.who = s]
    <2>1. j \in Job
      BY IdleType DEF Job
    <2>2. JobOK(j, DOMAIN rows)
      BY DEF Idle, JobOK, InRow, InJoin
    <2> QED  BY <1>1, <2>1, <2>2, JobStep DEF JoinChecks, Begins, TInv, TypeOK
  <1>2. CASE JoinLooksUp(t)
    <2>1. job[t].who \in Students
      BY <1>0, <1>2 DEF JoinLooksUp, JobOK, InJoin
    <2>2. ASSUME NEW j \in Job, JobOK(j, DOMAIN rows), Continues(t, j) PROVE TInv'
      BY <1>2, <2>2, JobStep DEF JoinLooksUp, Continues, TInv, TypeOK
    <2>3. CASE Continues(t, [job[t] EXCEPT !.pc = "join"])
      <3>1. [job[t] EXCEPT !.pc = "join"] \in Job
        BY <1>0 DEF Job
      <3>2. job[t].row \in DOMAIN rows \cup {NoRow}
        BY <1>0, <1>2 DEF JoinLooksUp, JobOK
      <3> QED  BY <1>0, <2>1, <2>2, <2>3, <3>1, <3>2 DEF JobOK, InRow, InJoin, Job
    <2>4. ASSUME NEW r \in RowsOf(job[t].who),
                 Continues(t, [job[t] EXCEPT !.pc = "join", !.row = r, !.active = rows[r].active])
          PROVE  TInv'
      <3> DEFINE j == [job[t] EXCEPT !.pc = "join", !.row = r, !.active = rows[r].active]
      <3>1. r \in DOMAIN rows /\ r \in Ids /\ rows[r].active \in BOOLEAN
        BY <1>0, RowFacts DEF RowsOf, Row
      <3>2. j \in Job
        BY <1>0, <3>1 DEF Job
      <3>3. JobOK(j, DOMAIN rows)
        BY <1>0, <2>1, <3>1 DEF JobOK, InRow, InJoin, Job
      <3> QED  BY <2>2, <2>4, <3>2, <3>3
    <2> QED  BY <1>2, <2>3, <2>4 DEF JoinLooksUp
  <1>3. CASE Rejoins(t)
    <2> DEFINE r == job[t].row  x == Rejoined(rows[r], job[t].active)
    <2>1. r \in DOMAIN rows /\ rows[r] \in Row
      BY <1>0, <1>3, RowFacts DEF Rejoins, JobOK
    <2>2. x \in Row
      BY <1>0, <2>1 DEF Rejoined, Row, Job
    <2>3. rows' = [rows EXCEPT ![r] = x]
      BY <1>3 DEF Rejoins
    <2>4. rows' \in Seq(Row) /\ Len(rows') = Len(rows) /\ DOMAIN rows' = DOMAIN rows
      BY <1>0, <2>1, <2>2, <2>3, RowChanged, SameIds
    <2> QED  BY <1>3, <2>4, JobDone DEF Rejoins, TInv, TypeOK
  <1>4. CASE Joins(t)
    <2> DEFINE x == [who |-> job[t].who, time |-> 0, active |-> TRUE]
    <2>1. x \in Row
      BY <1>0, <1>4, LiveAssumption DEF Joins, JobOK, InJoin, Row
    <2>2. /\ rows' \in Seq(Row) /\ Len(rows') = Len(rows) + 1
          /\ DOMAIN rows' = DOMAIN rows \cup {Len(rows) + 1}
      BY <1>0, <1>4, <2>1, RowAdded DEF Joins
    <2>3. Len(rows) + 1 \in Ids /\ Len(rows) + 1 <= MaxRows
      BY <1>0, <1>4, RowFacts, LiveAssumption DEF Joins, Ids
    <2>4. raced' \subseteq Students /\ late' \subseteq Ids
      BY <1>0, <1>4, <2>3 DEF Joins, TypeOK, JobOK, InJoin
    <2>5. job' \in [Threads -> Job] /\ \A u \in Threads : JobOK(job'[u], DOMAIN rows')
      BY <1>4, <2>2, JobDone DEF Joins
    <2> QED  BY <1>4, <2>2, <2>3, <2>4, <2>5 DEF Joins, TInv, TypeOK
  <1> QED  BY <1>1, <1>2, <1>3, <1>4 DEF Join

LEMMA BeatType ==
    ASSUME TInv, NEW t \in Threads, Beat(t)
    PROVE  TInv'
  <1>0. TypeOK /\ job[t] \in Job /\ JobOK(job[t], DOMAIN rows)
    BY DEF TInv, TypeOK
  <1>1. ASSUME NEW r \in DOMAIN rows, BeatReads(t, r) PROVE TInv'
    <2> DEFINE j == [Idle EXCEPT !.pc = "beat", !.row = r, !.time = rows[r].time,
                                 !.active = rows[r].active]
    <2>1. r \in Ids /\ rows[r] \in Row
      BY <1>0, RowFacts
    <2>2. j \in Job
      BY <2>1, IdleType DEF Job, Row
    <2>3. JobOK(j, DOMAIN rows)
      BY <1>1 DEF BeatReads, Idle, JobOK, InRow, InJoin
    <2> QED  BY <1>1, <2>2, <2>3, JobStep DEF BeatReads, Begins, TInv, TypeOK
  <1>2. CASE BeatCommits(t)
    <2> DEFINE r == job[t].row  x == Beaten(rows[r], job[t])
    <2>1. r \in DOMAIN rows /\ rows[r] \in Row /\ r \in Ids /\ job[t].time < MaxBeats
      BY <1>0, <1>2, RowFacts DEF BeatCommits, JobOK, InRow
    <2>2. job[t].time + 1 \in 0 .. MaxBeats
      <3>1. job[t].time \in 0 .. MaxBeats
        BY <1>0 DEF Job
      <3> QED  BY <2>1, <3>1, LiveAssumption
    <2>3. x \in Row
      BY <1>0, <2>1, <2>2 DEF Beaten, Row, Job
    <2>4. rows' = [rows EXCEPT ![r] = x]
      BY <1>2 DEF BeatCommits
    <2>5. rows' \in Seq(Row) /\ Len(rows') = Len(rows) /\ DOMAIN rows' = DOMAIN rows
      BY <1>0, <2>1, <2>3, <2>4, RowChanged, SameIds
    <2>6. beats' \in [Ids -> 0 .. MaxBeats]
      BY <1>0, <1>2, <2>1, LiveAssumption DEF BeatCommits, TypeOK
    <2>7. raced' \subseteq Students
      BY <1>0, <1>2, <2>1 DEF BeatCommits, TypeOK, Row
    <2> QED  BY <1>2, <2>5, <2>6, <2>7, JobDone DEF BeatCommits, TInv, TypeOK
  <1> QED  BY <1>1, <1>2 DEF Beat

LEMMA LeaveType ==
    ASSUME TInv, NEW t \in Threads, Leave(t)
    PROVE  TInv'
  <1>0. TypeOK /\ job[t] \in Job /\ JobOK(job[t], DOMAIN rows)
    BY DEF TInv, TypeOK
  <1>1. ASSUME NEW r \in DOMAIN rows, LeaveReads(t, r) PROVE TInv'
    <2> DEFINE j == [Idle EXCEPT !.pc = "leave", !.row = r, !.active = rows[r].active]
    <2>1. r \in Ids /\ rows[r] \in Row
      BY <1>0, RowFacts
    <2>2. j \in Job
      BY <2>1, IdleType DEF Job, Row
    <2>3. JobOK(j, DOMAIN rows)
      BY DEF Idle, JobOK, InRow, InJoin
    <2> QED  BY <1>1, <2>2, <2>3, JobStep DEF LeaveReads, Begins, TInv, TypeOK
  <1>2. CASE LeaveCommits(t)
    <2> DEFINE r == job[t].row  x == [rows[r] EXCEPT !.active = @ /\ ~job[t].active]
               j == [job[t] EXCEPT !.pc = "answer"]
    <2>1. r \in DOMAIN rows /\ rows[r] \in Row
      BY <1>0, <1>2, RowFacts DEF LeaveCommits, JobOK, InRow
    <2>2. x \in Row
      BY <1>0, <2>1 DEF Row, Job
    <2>3. rows' = [rows EXCEPT ![r] = x]
      BY <1>2 DEF LeaveCommits
    <2>4. rows' \in Seq(Row) /\ Len(rows') = Len(rows) /\ DOMAIN rows' = DOMAIN rows
      BY <1>0, <2>1, <2>2, <2>3, RowChanged, SameIds
    <2>5. j \in Job
      BY <1>0 DEF Job
    <2>6. JobOK(j, DOMAIN rows)
      BY <1>0, <2>1 DEF JobOK, InRow, InJoin, Job
    <2> QED  BY <1>2, <2>4, <2>5, <2>6, JobStep DEF LeaveCommits, Continues, TInv, TypeOK
  <1>3. CASE LeaveAnswers(t)
    <2>1. rows[job[t].row] \in Row
      BY <1>0, <1>3, RowFacts DEF LeaveAnswers, JobOK, InRow
    <2>2. told' \subseteq Students
      BY <1>0, <1>3, <2>1 DEF LeaveAnswers, TypeOK, Row
    <2> QED  BY <1>3, <2>2, JobDone DEF LeaveAnswers, TInv, TypeOK
  <1> QED  BY <1>1, <1>2, <1>3 DEF Leave

LEMMA EndType ==
    ASSUME TInv, NEW t \in Threads, End(t)
    PROVE  TInv'
  <1>0. TypeOK /\ job[t] \in Job /\ JobOK(job[t], DOMAIN rows)
    BY DEF TInv, TypeOK
  <1>1. CASE EndChecks(t)
    <2>1. [Idle EXCEPT !.pc = "mark left"] \in Job
      BY IdleType DEF Job
    <2>2. JobOK([Idle EXCEPT !.pc = "mark left"], DOMAIN rows)
      BY DEF Idle, JobOK, InRow, InJoin
    <2> QED  BY <1>1, <2>1, <2>2, JobStep DEF EndChecks, Begins, TInv, TypeOK
  <1>2. CASE EndMarksLeft(t)
    <2> DEFINE active == {r \in DOMAIN rows : rows[r].active}
               seen == [r \in Ids |-> IF r \in active THEN rows[r].time ELSE Unseen]
               j == [job[t] EXCEPT !.pc = "load", !.left = active, !.seen = seen]
    <2>1. active \subseteq Ids /\ seen \in [Ids -> Unseen .. MaxBeats]
      BY <1>0, RowFacts, LiveAssumption DEF Row, Unseen
    <2>2. j \in Job
      BY <1>0, <2>1 DEF Job
    <2>3. JobOK(j, DOMAIN rows)
      BY <1>0 DEF JobOK, InRow, InJoin, Job
    <2>4. job' = [job EXCEPT ![t] = j]
      BY <1>2 DEF EndMarksLeft, Continues
    <2> QED  BY <1>2, <2>2, <2>3, <2>4, JobStep DEF EndMarksLeft, TInv, TypeOK
  <1>3. CASE EndLoads(t)
    <2> DEFINE old == job[t].seen
               seen == [r \in Ids |-> IF r \in ToRecord /\ old[r] = Unseen
                                        THEN rows[r].time ELSE old[r]]
               j == [job[t] EXCEPT !.pc = "close", !.had = rec, !.cnt = count, !.seen = seen]
    <2>1. seen \in [Ids -> Unseen .. MaxBeats]
      <3>1. ASSUME NEW r \in Ids PROVE old[r] \in Unseen .. MaxBeats
        BY <1>0 DEF Job
      <3>2. ASSUME NEW r \in DOMAIN rows PROVE rows[r].time \in Unseen .. MaxBeats
        <4>1. rows[r].time \in 0 .. MaxBeats
          BY <1>0, RowFacts DEF Row
        <4> QED  BY <4>1, LiveAssumption DEF Unseen
      <3> HIDE DEF old
      <3> QED  BY <3>1, <3>2 DEF ToRecord
    <2>2. j \in Job
      BY <1>0, <2>1 DEF Job, TypeOK
    <2>3. JobOK(j, DOMAIN rows)
      BY <1>0 DEF JobOK, InRow, InJoin, Job
    <2>4. job' = [job EXCEPT ![t] = j]
      BY <1>3 DEF EndLoads, Continues
    <2> QED  BY <1>3, <2>2, <2>3, <2>4, JobStep DEF EndLoads, TInv, TypeOK
  <1>4. CASE EndCommits(t)
    <2> DEFINE new == [r \in DOMAIN rows |-> [rows[r] EXCEPT !.active = @ /\ r \notin job[t].left]]
    <2>1. new \in [DOMAIN rows -> Row]
      BY <1>0, RowFacts DEF Row
    <2>2. rows' = new
      BY <1>4 DEF EndCommits
    <2>3. rows' \in Seq(Row) /\ Len(rows') = Len(rows) /\ DOMAIN rows' = DOMAIN rows
      BY <1>0, <2>1, <2>2, SameIds
    <2>4. \A last : Recorded(job[t], last) \in [Students -> Marks]
      BY <1>0 DEF Recorded, Verdict, Marks, TypeOK
    <2>5. rec' \in [Students -> Marks]
      BY <1>4, <2>4 DEF EndCommits
    <2>6. count' \in Nat
      BY <1>0, <1>4, CountType DEF EndCommits, TypeOK
    <2> QED  BY <1>4, <2>3, <2>5, <2>6, JobDone DEF EndCommits, TInv, TypeOK
  <1>5. CASE EndConflicts(t)
    BY <1>5, JobDone DEF EndConflicts, TInv, TypeOK
  <1> QED  BY <1>1, <1>2, <1>3, <1>4, <1>5 DEF End

LEMMA OutsideType ==
    ASSUME TInv, (\E s \in Students : Scan(s) \/ Override(s)) \/ AutoExpire \/ Restart
    PROVE  TInv'
  <1>0. TypeOK
    BY DEF TInv
  <1>1. ASSUME Outside PROVE outside' \in 0 .. MaxOutside
    BY <1>0, <1>1, LiveAssumption DEF Outside, TypeOK
  <1>2. ASSUME NEW s \in Students, Scan(s) PROVE TInv'
    BY <1>1, <1>2 DEF Scan, TInv, TypeOK, Marks
  <1>3. ASSUME NEW s \in Students, Override(s) PROVE TInv'
    <2>1. NumPresent \in Nat
      BY <1>0, CountType
    <2> QED  BY <1>1, <1>3, <2>1 DEF Override, TInv, TypeOK
  <1>4. CASE AutoExpire
    <2>1. NumPresent \in Nat
      BY <1>0, CountType
    <2> QED  BY <1>1, <1>4, <2>1 DEF AutoExpire, TInv, TypeOK
  <1>5. CASE Restart
    <2>1. job' \in [Threads -> Job] /\ \A u \in Threads : JobOK(job'[u], DOMAIN rows)
      BY <1>5, IdleType DEF Restart
    <2> QED  BY <1>1, <1>5, <2>1 DEF Restart, TInv, TypeOK
  <1> QED  BY <1>2, <1>3, <1>4, <1>5

LEMMA TypeStep == TInv /\ [Next]_vars => TInv'
  <1> SUFFICES ASSUME TInv, [Next]_vars PROVE TInv'
    OBVIOUS
  <1>1. CASE UNCHANGED vars
    BY <1>1 DEF vars, TInv, TypeOK
  <1> QED  BY <1>1, StartType, JoinType, BeatType, LeaveType, EndType, OutsideType DEF Next

\* The types of LiveSession, and that a request in flight works on a row that
\* exists, hold in every reachable state.
THEOREM LiveTypeCorrect == Spec => []TypeOK
  <1>1. Spec => []TInv
    BY TypeInit, TypeStep, PTL DEF Spec
  <1>2. TInv => TypeOK
    BY DEF TInv
  <1> QED  BY <1>1, <1>2, PTL

-----------------------------------------------------------------------------
(* The life of the class *)

\* One start at most is between its two commits, and then the class has not begun;
\* an end can only have begun after that.
Life ==
    /\ \A t \in Threads : job[t].pc = "go live" => live = "waiting" /\ sheet \in {"active", "expired"}
    /\ \A t, u \in Threads : job[t].pc = "go live" /\ job[u].pc = "go live" => t = u
    /\ \A t \in Threads : job[t].pc \in InEnd => live # "waiting"
    /\ live # "waiting" => sheet # "none"
    /\ live = "ended" => sheet = "ended"

LEMMA LifeInit == Init => Life
  <1>1. Idle.pc = "idle"
    BY DEF Idle
  <1> QED  BY <1>1 DEF Init, Life, InEnd

\* A step of one thread that changes neither the class nor its sheet, and begins
\* neither the second half of a start nor an end.
LEMMA LifeKept ==
    ASSUME TInv, Life, NEW t \in Threads, NEW j, job' = [job EXCEPT ![t] = j],
           UNCHANGED <<live, sheet>>, j.pc # "go live", j.pc \in InEnd => live # "waiting"
    PROVE  Life'
  <1>1. job'[t] = j /\ \A u \in Threads : u # t => job'[u] = job[u]
    BY DEF TInv, TypeOK
  <1>2. \A u \in Threads : job'[u].pc = "go live" => u # t /\ job[u].pc = "go live"
    BY <1>1
  <1>3. \A u \in Threads : job'[u].pc \in InEnd => live # "waiting"
    BY <1>1 DEF Life
  <1> QED  BY <1>2, <1>3 DEF Life

LEMMA LifeStep == TInv /\ Life /\ [Next]_vars => Life'
  <1> SUFFICES ASSUME TInv, Life, [Next]_vars PROVE Life'
    OBVIOUS
  <1>0. TypeOK /\ \A t \in Threads : job[t] \in Job /\ JobOK(job[t], DOMAIN rows)
    BY DEF TInv, TypeOK
  <1>i. Idle.pc = "idle"
    BY DEF Idle
  <1>1. ASSUME NEW t \in Threads, Start(t) PROVE Life'
    <2>1. CASE StartChecks(t)
      <3> DEFINE j == [Idle EXCEPT !.pc = "insert sheet"]
      <3>1. j.pc = "insert sheet"
        BY IdleType DEF Job
      <3>2. job' = [job EXCEPT ![t] = j]
        BY <2>1 DEF StartChecks, Begins
      <3> HIDE DEF j
      <3> QED  BY <2>1, <3>1, <3>2, LifeKept DEF StartChecks, InEnd
    <2>2. CASE SheetInserted(t)
      <3> DEFINE j == [job[t] EXCEPT !.pc = "go live"]
      <3>1. live = "waiting" /\ \A u \in Threads : job[u].pc # "go live" /\ job[u].pc \notin InEnd
        BY <1>0, <2>2 DEF SheetInserted, MayInsertSheet, Life
      <3>2. j.pc = "go live"
        BY <1>0 DEF Job
      <3>3. job' = [job EXCEPT ![t] = j] /\ live' = live /\ sheet' = "active"
        BY <2>2 DEF SheetInserted, Continues
      <3> HIDE DEF j
      <3> QED  BY <1>0, <3>1, <3>2, <3>3 DEF TypeOK, Life, InEnd
    <2>3. CASE SheetConflicts(t)
      BY <1>i, <2>3, LifeKept DEF SheetConflicts, Done, InEnd
    <2>4. CASE GoesLive(t)
      BY <1>0, <1>i, <2>4 DEF GoesLive, Done, Life, TypeOK, InEnd
    <2> QED  BY <1>1, <2>1, <2>2, <2>3, <2>4 DEF Start
  <1>2. ASSUME NEW t \in Threads, Join(t) PROVE Life'
    <2>1. ASSUME NEW s \in Students, JoinChecks(t, s) PROVE Life'
      <3> DEFINE j == [Idle EXCEPT !.pc = "look up", !.who = s]
      <3>1. j.pc = "look up"
        BY IdleType DEF Job
      <3>2. job' = [job EXCEPT ![t] = j]
        BY <2>1 DEF JoinChecks, Begins
      <3> HIDE DEF j
      <3> QED  BY <2>1, <3>1, <3>2, LifeKept DEF JoinChecks, InEnd
    <2>2. CASE JoinLooksUp(t)
      <3>1. ASSUME NEW j, Continues(t, j), j.pc = "join" PROVE Life'
        BY <2>2, <3>1, LifeKept DEF JoinLooksUp, Continues, InEnd
      <3>2. CASE Continues(t, [job[t] EXCEPT !.pc = "join"])
        <4>1. [job[t] EXCEPT !.pc = "join"].pc = "join"
          BY <1>0 DEF Job
        <4> QED  BY <3>1, <3>2, <4>1
      <3>3. ASSUME NEW r \in RowsOf(job[t].who),
                   Continues(t, [job[t] EXCEPT !.pc = "join", !.row = r, !.active = rows[r].active])
            PROVE  Life'
        <4> DEFINE j == [job[t] EXCEPT !.pc = "join", !.row = r, !.active = rows[r].active]
        <4>1. j.pc = "join"
          BY <1>0 DEF Job
        <4>2. Continues(t, j)
          BY <3>3
        <4> HIDE DEF j
        <4> QED  BY <3>1, <4>1, <4>2
      <3> QED  BY <2>2, <3>2, <3>3 DEF JoinLooksUp
    <2>3. CASE Rejoins(t) \/ Joins(t)
      BY <1>i, <2>3, LifeKept DEF Rejoins, Joins, Done, InEnd
    <2> QED  BY <1>2, <2>1, <2>2, <2>3 DEF Join
  <1>3. ASSUME NEW t \in Threads, Beat(t) PROVE Life'
    <2>1. ASSUME NEW r \in DOMAIN rows, BeatReads(t, r) PROVE Life'
      <3> DEFINE j == [Idle EXCEPT !.pc = "beat", !.row = r, !.time = rows[r].time,
                                   !.active = rows[r].active]
      <3>1. j.pc = "beat"
        BY IdleType DEF Job
      <3>2. job' = [job EXCEPT ![t] = j]
        BY <2>1 DEF BeatReads, Begins
      <3> HIDE DEF j
      <3> QED  BY <2>1, <3>1, <3>2, LifeKept DEF BeatReads, InEnd
    <2>2. CASE BeatCommits(t)
      BY <1>i, <2>2, LifeKept DEF BeatCommits, Done, InEnd
    <2> QED  BY <1>3, <2>1, <2>2 DEF Beat
  <1>4. ASSUME NEW t \in Threads, Leave(t) PROVE Life'
    <2>1. ASSUME NEW r \in DOMAIN rows, LeaveReads(t, r) PROVE Life'
      <3> DEFINE j == [Idle EXCEPT !.pc = "leave", !.row = r, !.active = rows[r].active]
      <3>1. j.pc = "leave"
        BY IdleType DEF Job
      <3>2. job' = [job EXCEPT ![t] = j]
        BY <2>1 DEF LeaveReads, Begins
      <3> HIDE DEF j
      <3> QED  BY <2>1, <3>1, <3>2, LifeKept DEF LeaveReads, InEnd
    <2>2. CASE LeaveCommits(t)
      <3>1. [job[t] EXCEPT !.pc = "answer"].pc = "answer"
        BY <1>0 DEF Job
      <3> QED  BY <2>2, <3>1, LifeKept DEF LeaveCommits, Continues, InEnd
    <2>3. CASE LeaveAnswers(t)
      BY <1>i, <2>3, LifeKept DEF LeaveAnswers, Done, InEnd
    <2> QED  BY <1>4, <2>1, <2>2, <2>3 DEF Leave
  <1>5. ASSUME NEW t \in Threads, End(t) PROVE Life'
    <2>1. CASE EndChecks(t)
      <3> DEFINE j == [Idle EXCEPT !.pc = "mark left"]
      <3>1. j.pc = "mark left"
        BY IdleType DEF Job
      <3>2. job' = [job EXCEPT ![t] = j]
        BY <2>1 DEF EndChecks, Begins
      <3> HIDE DEF j
      <3> QED  BY <2>1, <3>1, <3>2, LifeKept DEF EndChecks, InEnd
    <2>2. CASE EndMarksLeft(t) \/ EndLoads(t)
      <3>1. live # "waiting" /\ UNCHANGED <<live, sheet>>
        BY <2>2 DEF EndMarksLeft, EndLoads, Life, InEnd
      <3>2. ASSUME NEW j, job' = [job EXCEPT ![t] = j], j.pc \in {"load", "close"} PROVE Life'
        BY <3>1, <3>2, LifeKept
      <3>3. CASE EndMarksLeft(t)
        <4> DEFINE active == {r \in DOMAIN rows : rows[r].active}
                   seen == [r \in Ids |-> IF r \in active THEN rows[r].time ELSE Unseen]
                   j == [job[t] EXCEPT !.pc = "load", !.left = active, !.seen = seen]
        <4>1. job' = [job EXCEPT ![t] = j]
          BY <3>3 DEF EndMarksLeft, Continues
        <4> HIDE DEF active, seen
        <4>2. j.pc = "load"
          BY <1>0 DEF Job
        <4> HIDE DEF j
        <4> QED  BY <3>2, <4>1, <4>2
      <3>4. CASE EndLoads(t)
        <4> DEFINE old == job[t].seen
                   seen == [r \in Ids |-> IF r \in ToRecord /\ old[r] = Unseen
                                            THEN rows[r].time ELSE old[r]]
                   j == [job[t] EXCEPT !.pc = "close", !.had = rec, !.cnt = count, !.seen = seen]
        <4>1. job' = [job EXCEPT ![t] = j]
          BY <3>4 DEF EndLoads, Continues
        <4> HIDE DEF seen
        <4>2. j.pc = "close"
          BY <1>0 DEF Job
        <4> HIDE DEF j
        <4> QED  BY <3>2, <4>1, <4>2
      <3> QED  BY <2>2, <3>3, <3>4
    <2>3. CASE EndCommits(t)
      <3>1. live # "waiting" /\ job[t].pc = "close"
        BY <2>3 DEF EndCommits, Life, InEnd
      <3>2. live' = "ended" /\ sheet' = "ended" /\ job' = [job EXCEPT ![t] = Idle]
        BY <2>3 DEF EndCommits, Done
      <3> QED  BY <1>0, <1>i, <3>1, <3>2 DEF Life, TypeOK, InEnd
    <2>4. CASE EndConflicts(t)
      BY <1>i, <2>4, LifeKept DEF EndConflicts, Done, InEnd
    <2> QED  BY <1>5, <2>1, <2>2, <2>3, <2>4 DEF End
  <1>6. ASSUME NEW s \in Students, Scan(s) \/ Override(s) PROVE Life'
    BY <1>6 DEF Scan, Override, Life
  <1>7. CASE AutoExpire
    BY <1>7 DEF AutoExpire, Life
  <1>8. CASE Restart
    BY <1>i, <1>8 DEF Restart, Life, InEnd
  <1>9. CASE UNCHANGED vars
    BY <1>9 DEF vars, Life
  <1> QED  BY <1>1, <1>2, <1>3, <1>4, <1>5, <1>6, <1>7, <1>8, <1>9 DEF Next

\* No step takes an ended class back: only GoesLive and SheetInserted could, and
\* Life shows them disabled.
LEMMA EndedStays ==
    TInv /\ Life /\ [Next]_vars => (live = "ended" => live' = "ended" /\ sheet' # "active")
  <1> SUFFICES ASSUME TInv, Life, [Next]_vars, live = "ended"
               PROVE  live' = "ended" /\ sheet' # "active"
    OBVIOUS
  <1>1. Life'
    BY LifeStep
  <1>2. live' = "ended"
    BY DEF Next, vars, Life, Start, StartChecks, SheetInserted, SheetConflicts, GoesLive,
           Join, JoinChecks, JoinLooksUp, Rejoins, Joins, Beat, BeatReads, BeatCommits,
           Leave, LeaveReads, LeaveCommits, LeaveAnswers,
           End, EndChecks, EndMarksLeft, EndLoads, EndCommits, EndConflicts,
           Scan, Override, AutoExpire, Restart
  <1> QED  BY <1>1, <1>2 DEF Life

\* For any number of starts and ends in flight, an ended class never runs again and
\* its sheet never reopens (start_live_session, end_live_session).
THEOREM EndedForGood == Spec => EndedIsFinal
  <1>1. Spec => [](TInv /\ Life)
    BY TypeInit, TypeStep, LifeInit, LifeStep, PTL DEF Spec
  <1>2. TInv /\ Life /\ [Next]_vars => [live = "ended" => live' = "ended" /\ sheet' # "active"]_vars
    BY EndedStays
  <1> QED  BY <1>1, <1>2, PTL DEF Spec, EndedIsFinal

-----------------------------------------------------------------------------
(* What a step does to the jobs and to the rows, for the invariants below *)

\* j, which replaces old, is a heartbeat or an end that has just read the database.
JustRead(j, old) ==
    /\ j.pc = "beat" => j.time = rows[j.row].time
    /\ j.pc = "load" =>
          \A r \in Ids : j.seen[r] # Unseen => r \in DOMAIN rows /\ j.seen[r] = rows[r].time
    /\ j.pc = "close" =>
          /\ old.pc = "load"
          /\ j.had = rec
          /\ \A r \in Ids : j.seen[r] = IF r \in DOMAIN rows /\ old.seen[r] = Unseen
                                          THEN rows[r].time ELSE old.seen[r]
    /\ j.pc \in InEnd \cup {"beat"} =>
          UNCHANGED <<live, sheet, rows, rec, beats, told, vouched, raced, late>>

LEMMA JustReadIdle == \A old : JustRead(Idle, old)
  BY DEF JustRead, Idle, InEnd

LEMMA JobEffect ==
    ASSUME TInv, [Next]_vars, NEW u \in Threads
    PROVE  job'[u] = job[u] \/ JustRead(job'[u], job[u])
  <1>0. TypeOK /\ \A t \in Threads : job[t] \in Job /\ JobOK(job[t], DOMAIN rows)
    BY DEF TInv, TypeOK
  <1>1. ASSUME NEW t \in Threads, NEW j, job' = [job EXCEPT ![t] = j], JustRead(j, job[t])
        PROVE  job'[u] = job[u] \/ JustRead(job'[u], job[u])
    <2>1. CASE u = t
      BY <1>0, <1>1, <2>1 DEF TypeOK
    <2>2. CASE u # t
      BY <1>0, <1>1, <2>2 DEF TypeOK
    <2> QED  BY <2>1, <2>2
  <1>2. ASSUME NEW t \in Threads, Done(t) PROVE job'[u] = job[u] \/ JustRead(job'[u], job[u])
    BY <1>1, <1>2, JustReadIdle DEF Done
  <1>3. ASSUME NEW t \in Threads, NEW j, job' = [job EXCEPT ![t] = j],
               j.pc \in {"insert sheet", "go live", "look up", "join", "leave", "answer"}
        PROVE  job'[u] = job[u] \/ JustRead(job'[u], job[u])
    BY <1>1, <1>3 DEF JustRead, InEnd
  <1>4. ASSUME NEW t \in Threads, Start(t) PROVE job'[u] = job[u] \/ JustRead(job'[u], job[u])
    <2>1. CASE StartChecks(t)
      <3>1. [Idle EXCEPT !.pc = "insert sheet"].pc = "insert sheet"
        BY IdleType DEF Job
      <3> QED  BY <1>3, <2>1, <3>1 DEF StartChecks, Begins
    <2>2. CASE SheetInserted(t)
      <3>1. [job[t] EXCEPT !.pc = "go live"].pc = "go live"
        BY <1>0 DEF Job
      <3> QED  BY <1>3, <2>2, <3>1 DEF SheetInserted, Continues
    <2> QED  BY <1>2, <1>4, <2>1, <2>2 DEF Start, SheetConflicts, GoesLive
  <1>5. ASSUME NEW t \in Threads, Join(t) PROVE job'[u] = job[u] \/ JustRead(job'[u], job[u])
    <2>1. ASSUME NEW s \in Students, JoinChecks(t, s)
          PROVE  job'[u] = job[u] \/ JustRead(job'[u], job[u])
      <3>1. [Idle EXCEPT !.pc = "look up", !.who = s].pc = "look up"
        BY IdleType DEF Job
      <3> QED  BY <1>3, <2>1, <3>1 DEF JoinChecks, Begins
    <2>2. CASE Continues(t, [job[t] EXCEPT !.pc = "join"])
      <3>1. [job[t] EXCEPT !.pc = "join"].pc = "join"
        BY <1>0 DEF Job
      <3> QED  BY <1>3, <2>2, <3>1 DEF Continues
    <2>3. ASSUME NEW r, Continues(t, [job[t] EXCEPT !.pc = "join", !.row = r, !.active = rows[r].active])
          PROVE  job'[u] = job[u] \/ JustRead(job'[u], job[u])
      <3> DEFINE j == [job[t] EXCEPT !.pc = "join", !.row = r, !.active = rows[r].active]
      <3>1. j.pc = "join"
        BY <1>0 DEF Job
      <3>2. job' = [job EXCEPT ![t] = j]
        BY <2>3 DEF Continues
      <3> HIDE DEF j
      <3> QED  BY <1>3, <3>1, <3>2
    <2> QED  BY <1>2, <1>5, <2>1, <2>2, <2>3 DEF Join, JoinLooksUp, Rejoins, Joins
  <1>6. ASSUME NEW t \in Threads, Beat(t) PROVE job'[u] = job[u] \/ JustRead(job'[u], job[u])
    <2>1. ASSUME NEW r \in DOMAIN rows, BeatReads(t, r)
          PROVE  job'[u] = job[u] \/ JustRead(job'[u], job[u])
      <3> DEFINE j == [Idle EXCEPT !.pc = "beat", !.row = r, !.time = rows[r].time,
                                   !.active = rows[r].active]
      <3>1. j.pc = "beat" /\ j.row = r /\ j.time = rows[r].time
        BY IdleType DEF Job
      <3>2. job' = [job EXCEPT ![t] = j]
        BY <2>1 DEF BeatReads, Begins
      <3>3. JustRead(j, job[t])
        BY <2>1, <3>1 DEF JustRead, BeatReads, InEnd
      <3> HIDE DEF j
      <3> QED  BY <1>1, <3>2, <3>3
    <2> QED  BY <1>2, <1>6, <2>1 DEF Beat, BeatCommits
  <1>7. ASSUME NEW t \in Threads, Leave(t) PROVE job'[u] = job[u] \/ JustRead(job'[u], job[u])
    <2>1. ASSUME NEW r \in DOMAIN rows, LeaveReads(t, r)
          PROVE  job'[u] = job[u] \/ JustRead(job'[u], job[u])
      <3> DEFINE j == [Idle EXCEPT !.pc = "leave", !.row = r, !.active = rows[r].active]
      <3>1. j.pc = "leave"
        BY IdleType DEF Job
      <3>2. job' = [job EXCEPT ![t] = j]
        BY <2>1 DEF LeaveReads, Begins
      <3> HIDE DEF j
      <3> QED  BY <1>3, <3>1, <3>2
    <2>2. CASE LeaveCommits(t)
      <3>1. [job[t] EXCEPT !.pc = "answer"].pc = "answer"
        BY <1>0 DEF Job
      <3> QED  BY <1>3, <2>2, <3>1 DEF LeaveCommits, Continues
    <2> QED  BY <1>2, <1>7, <2>1, <2>2 DEF Leave, LeaveAnswers
  <1>8. ASSUME NEW t \in Threads, End(t) PROVE job'[u] = job[u] \/ JustRead(job'[u], job[u])
    <2>1. CASE EndChecks(t)
      <3> DEFINE j == [Idle EXCEPT !.pc = "mark left"]
      <3>1. j.pc = "mark left"
        BY IdleType DEF Job
      <3>2. job' = [job EXCEPT ![t] = j]
        BY <2>1 DEF EndChecks, Begins
      <3>3. JustRead(j, job[t])
        BY <2>1, <3>1 DEF JustRead, EndChecks
      <3> HIDE DEF j
      <3> QED  BY <1>1, <3>2, <3>3
    <2>2. CASE EndMarksLeft(t)
      <3> DEFINE active == {r \in DOMAIN rows : rows[r].active}
                 seen == [r \in Ids |-> IF r \in active THEN rows[r].time ELSE Unseen]
                 j == [job[t] EXCEPT !.pc = "load", !.left = active, !.seen = seen]
      <3>1. job' = [job EXCEPT ![t] = j]
        BY <2>2 DEF EndMarksLeft, Continues
      <3>2. \A r \in Ids : seen[r] # Unseen => r \in DOMAIN rows /\ seen[r] = rows[r].time
        OBVIOUS
      <3> HIDE DEF active, seen
      <3>3. j.pc = "load" /\ j.seen = seen
        BY <1>0 DEF Job
      <3>4. JustRead(j, job[t])
        BY <2>2, <3>2, <3>3 DEF JustRead, EndMarksLeft
      <3> HIDE DEF j
      <3> QED  BY <1>1, <3>1, <3>4
    <2>3. CASE EndLoads(t)
      <3> DEFINE old == job[t].seen
                 seen == [r \in Ids |-> IF r \in ToRecord /\ old[r] = Unseen
                                          THEN rows[r].time ELSE old[r]]
                 j == [job[t] EXCEPT !.pc = "close", !.had = rec, !.cnt = count, !.seen = seen]
      <3>1. job' = [job EXCEPT ![t] = j] /\ job[t].pc = "load"
        BY <2>3 DEF EndLoads, Continues
      <3>2. \A r \in Ids : seen[r] = IF r \in DOMAIN rows /\ job[t].seen[r] = Unseen
                                       THEN rows[r].time ELSE job[t].seen[r]
        BY DEF ToRecord
      <3> HIDE DEF seen
      <3>3. j.pc = "close" /\ j.seen = seen /\ j.had = rec
        BY <1>0 DEF Job
      <3>4. JustRead(j, job[t])
        BY <2>3, <3>1, <3>2, <3>3 DEF JustRead, EndLoads
      <3> HIDE DEF j
      <3> QED  BY <1>1, <3>1, <3>4
    <2> QED  BY <1>2, <1>8, <2>1, <2>2, <2>3 DEF End, EndCommits, EndConflicts
  <1>9. CASE \E s \in Students : Scan(s) \/ Override(s)
    BY <1>9 DEF Scan, Override
  <1>10. CASE AutoExpire \/ UNCHANGED vars
    BY <1>10 DEF AutoExpire, vars
  <1>11. CASE Restart
    BY <1>11, JustReadIdle DEF Restart
  <1> QED  BY <1>4, <1>5, <1>6, <1>7, <1>8, <1>9, <1>10, <1>11 DEF Next

\* The time of a row is new, kept, or one more than a heartbeat read.
TimeEffect(r) ==
    \/ r \in DOMAIN rows /\ rows'[r].time = rows[r].time
    \/ r \notin DOMAIN rows /\ rows'[r].time = 0 /\ (Ending \/ live = "ended" => r \in late')
    \/ /\ r \in DOMAIN rows
       /\ \E t \in Threads :
             /\ job[t].pc = "beat" /\ job[t].row = r
             /\ rows'[r].time = job[t].time + 1
             /\ beats'[r] = beats[r] + 1
             /\ rows[r].time # job[t].time => rows[r].who \in raced'

\* A record is kept, or written by a scan, an override or an end.
RecEffect(s) ==
    \/ rec'[s] = rec[s]
    \/ s \in vouched' /\ rec'[s] # "none"
    \/ \E t \in Threads : \E r \in RowsOf(s) :
          /\ job[t].pc = "close"
          /\ job[t].seen[r] # Unseen
          /\ rec'[s] = Verdict(job[t].seen[r])

\* Of two rows of one student, the later one is noted when it is added.
OwnerEffect ==
    \A r, q \in DOMAIN rows' :
        r # q /\ rows'[r].who = rows'[q].who /\ rows'[r].who \notin raced' =>
            r \in DOMAIN rows /\ q \in DOMAIN rows

StepEffect ==
    /\ DOMAIN rows \subseteq DOMAIN rows'
    /\ \A r \in DOMAIN rows : rows'[r].who = rows[r].who
    /\ \A r \in Ids : beats[r] <= beats'[r]
    /\ raced \subseteq raced' /\ vouched \subseteq vouched' /\ late \subseteq late'
    /\ \A r \in DOMAIN rows' : TimeEffect(r)
    /\ \A s \in Students : RecEffect(s)
    /\ OwnerEffect

LEMMA BeatsNat == TypeOK => \A r \in Ids : beats[r] \in Nat
  BY LiveAssumption DEF TypeOK

LEMMA Quiet ==
    ASSUME TypeOK, UNCHANGED <<rows, rec, beats, raced, vouched, late>>
    PROVE  StepEffect
  BY BeatsNat DEF StepEffect, TimeEffect, RecEffect, OwnerEffect

\* A step that rewrites one row, keeping its owner and its time.
LEMMA OneRow ==
    ASSUME TypeOK, NEW q \in DOMAIN rows, NEW x, rows' = [rows EXCEPT ![q] = x],
           x.who = rows[q].who, x.time = rows[q].time,
           UNCHANGED <<rec, beats, raced, vouched, late>>
    PROVE  StepEffect
  <1>1. DOMAIN rows' = DOMAIN rows /\ \A r \in DOMAIN rows : rows'[r].who = rows[r].who
                                                          /\ rows'[r].time = rows[r].time
    BY RowFacts
  <1> QED  BY <1>1, BeatsNat DEF StepEffect, TimeEffect, RecEffect, OwnerEffect

LEMMA DataEffect ==
    ASSUME TInv, [Next]_vars
    PROVE  StepEffect
  <1>0. TypeOK /\ \A t \in Threads : job[t] \in Job /\ JobOK(job[t], DOMAIN rows)
    BY DEF TInv, TypeOK
  <1>1. ASSUME NEW t \in Threads, Start(t) PROVE StepEffect
    BY <1>0, <1>1, Quiet DEF Start, StartChecks, SheetInserted, SheetConflicts, GoesLive
  <1>2. ASSUME NEW t \in Threads, Join(t) PROVE StepEffect
    <2>1. CASE (\E s \in Students : JoinChecks(t, s)) \/ JoinLooksUp(t)
      BY <1>0, <2>1, Quiet DEF JoinChecks, JoinLooksUp
    <2>2. CASE Rejoins(t)
      <3> DEFINE r == job[t].row  x == Rejoined(rows[r], job[t].active)
      <3>1. r \in DOMAIN rows /\ rows[r] \in Row
        BY <1>0, <2>2, RowFacts DEF Rejoins, JobOK
      <3>2. x.who = rows[r].who /\ x.time = rows[r].time
        BY <3>1 DEF Rejoined, Row
      <3>3. rows' = [rows EXCEPT ![r] = x]
        BY <2>2 DEF Rejoins
      <3> HIDE DEF x
      <3> QED  BY <1>0, <2>2, <3>1, <3>2, <3>3, OneRow DEF Rejoins
    <2>3. CASE Joins(t)
      <3> DEFINE n == Len(rows) + 1
                 x == [who |-> job[t].who, time |-> 0, active |-> TRUE]
      <3>1. x \in Row
        <4>1. job[t].who \in Students
          BY <1>0, <2>3 DEF Joins, JobOK, InJoin
        <4> QED  BY <4>1, LiveAssumption DEF Row
      <3>2. /\ DOMAIN rows' = DOMAIN rows \cup {n}
            /\ n \notin DOMAIN rows
            /\ \A r \in DOMAIN rows : rows'[r] = rows[r]
            /\ rows'[n] = x
        BY <1>0, <2>3, <3>1, RowAdded DEF Joins
      <3>3. x.who = job[t].who /\ x.time = 0
        OBVIOUS
      <3> HIDE DEF n, x
      <3>4. \A r \in DOMAIN rows' : TimeEffect(r)
        BY <2>3, <3>2, <3>3 DEF Joins, TimeEffect, n
      <3>5. ASSUME NEW r \in DOMAIN rows, rows[r].who = job[t].who PROVE job[t].who \in raced'
        BY <2>3, <3>5 DEF Joins, RowsOf
      <3>6. OwnerEffect
        BY <3>2, <3>3, <3>5 DEF OwnerEffect
      <3>7. rec' = rec /\ beats' = beats /\ vouched' = vouched /\ raced \subseteq raced' /\ late \subseteq late'
        BY <2>3 DEF Joins
      <3> QED  BY <1>0, <3>2, <3>4, <3>6, <3>7, BeatsNat DEF StepEffect, RecEffect
    <2> QED  BY <1>2, <2>1, <2>2, <2>3 DEF Join
  <1>3. ASSUME NEW t \in Threads, Beat(t) PROVE StepEffect
    <2>1. CASE \E r \in DOMAIN rows : BeatReads(t, r)
      BY <1>0, <2>1, Quiet DEF BeatReads
    <2>2. CASE BeatCommits(t)
      <3> DEFINE q == job[t].row  x == Beaten(rows[q], job[t])
      <3>1. q \in DOMAIN rows /\ rows[q] \in Row /\ q \in Ids /\ job[t].pc = "beat"
        BY <1>0, <2>2, RowFacts DEF BeatCommits, JobOK, InRow
      <3>2. x.who = rows[q].who /\ x.time = job[t].time + 1
        BY <3>1 DEF Beaten, Row
      <3>3. rows' = [rows EXCEPT ![q] = x]
        BY <2>2 DEF BeatCommits
      <3>4. beats' = [beats EXCEPT ![q] = @ + 1]
        BY <2>2 DEF BeatCommits
      <3>5. raced \subseteq raced' /\ (rows[q].time # job[t].time => rows[q].who \in raced')
        BY <2>2 DEF BeatCommits
      <3> HIDE DEF x, q
      <3>6. DOMAIN rows' = DOMAIN rows /\ \A r \in DOMAIN rows : r # q => rows'[r] = rows[r]
        BY <1>0, <3>3, RowFacts
      <3>7. rows'[q] = x
        BY <1>0, <3>1, <3>3, RowFacts
      <3>8. beats'[q] = beats[q] + 1 /\ \A r \in Ids : r # q => beats'[r] = beats[r]
        BY <1>0, <3>1, <3>4 DEF TypeOK
      <3>9. \A r \in Ids : beats[r] <= beats'[r]
        BY <1>0, <3>8, BeatsNat, LiveAssumption DEF TypeOK
      <3>10. \A r \in DOMAIN rows' : TimeEffect(r)
        <4>1. TimeEffect(q)
          BY <3>1, <3>2, <3>5, <3>7, <3>8 DEF TimeEffect, q
        <4>2. \A r \in DOMAIN rows : r # q => TimeEffect(r)
          BY <3>6 DEF TimeEffect
        <4> QED  BY <3>6, <4>1, <4>2
      <3>11. \A r \in DOMAIN rows : rows'[r].who = rows[r].who
        BY <3>1, <3>2, <3>6, <3>7
      <3> QED  BY <2>2, <3>5, <3>6, <3>9, <3>10, <3>11
                  DEF BeatCommits, StepEffect, RecEffect, OwnerEffect
    <2> QED  BY <1>3, <2>1, <2>2 DEF Beat
  <1>4. ASSUME NEW t \in Threads, Leave(t) PROVE StepEffect
    <2>1. CASE (\E r \in DOMAIN rows : LeaveReads(t, r)) \/ LeaveAnswers(t)
      BY <1>0, <2>1, Quiet DEF LeaveReads, LeaveAnswers
    <2>2. CASE LeaveCommits(t)
      <3> DEFINE r == job[t].row  x == [rows[r] EXCEPT !.active = @ /\ ~job[t].active]
      <3>1. r \in DOMAIN rows /\ rows[r] \in Row
        BY <1>0, <2>2, RowFacts DEF LeaveCommits, JobOK, InRow
      <3>2. x.who = rows[r].who /\ x.time = rows[r].time
        BY <3>1 DEF Row
      <3>3. rows' = [rows EXCEPT ![r] = x]
        BY <2>2 DEF LeaveCommits
      <3> HIDE DEF x
      <3> QED  BY <1>0, <2>2, <3>1, <3>2, <3>3, OneRow DEF LeaveCommits
    <2> QED  BY <1>4, <2>1, <2>2 DEF Leave
  <1>5. ASSUME NEW t \in Threads, End(t) PROVE StepEffect
    <2>1. CASE EndChecks(t) \/ EndMarksLeft(t) \/ EndLoads(t) \/ EndConflicts(t)
      BY <1>0, <2>1, Quiet DEF EndChecks, EndMarksLeft, EndLoads, EndConflicts
    <2>2. CASE EndCommits(t)
      <3> DEFINE j == job[t]
      <3>1. /\ rows' = [r \in DOMAIN rows |-> [rows[r] EXCEPT !.active = @ /\ r \notin j.left]]
            /\ j.pc = "close"
            /\ UNCHANGED <<beats, vouched, raced, late>>
        BY <2>2 DEF EndCommits
      <3>2. DOMAIN rows' = DOMAIN rows
        BY <3>1
      <3>3. \A r \in DOMAIN rows : rows'[r].who = rows[r].who /\ rows'[r].time = rows[r].time
        <4>1. \A r \in DOMAIN rows : rows[r] \in Row
          BY <1>0, RowFacts
        <4> QED  BY <3>1, <4>1 DEF Row
      <3>4. PICK last \in [Students -> Ids \cup {NoRow}] :
               /\ \A s \in Students : SeenOf(j, s) # {} => last[s] \in SeenOf(j, s)
               /\ rec' = Recorded(j, last)
        BY <2>2 DEF EndCommits
      <3>5. ASSUME NEW s \in Students PROVE RecEffect(s)
        BY <3>1, <3>4 DEF Recorded, RecEffect, SeenOf
      <3> QED  BY <1>0, <3>1, <3>2, <3>3, <3>5, BeatsNat DEF StepEffect, TimeEffect, OwnerEffect
    <2> QED  BY <1>5, <2>1, <2>2 DEF End
  <1>6. ASSUME NEW s \in Students, Scan(s) \/ Override(s) PROVE StepEffect
    <2>1. UNCHANGED <<rows, beats, raced, late>> /\ vouched' = vouched \cup {s}
      BY <1>6 DEF Scan, Override
    <2>2. \A q \in Students : q # s => rec'[q] = rec[q]
      BY <1>0, <1>6 DEF Scan, Override, TypeOK
    <2>3. rec'[s] # "none"
      BY <1>0, <1>6 DEF Scan, Override, TypeOK
    <2> QED  BY <1>0, <2>1, <2>2, <2>3, BeatsNat DEF StepEffect, TimeEffect, RecEffect, OwnerEffect
  <1>7. CASE AutoExpire \/ Restart \/ UNCHANGED vars
    BY <1>0, <1>7, Quiet DEF AutoExpire, Restart, vars
  <1> QED  BY <1>1, <1>2, <1>3, <1>4, <1>5, <1>6, <1>7 DEF Next

-----------------------------------------------------------------------------
(* Presence is earned *)

\* The time of a row never exceeds the heartbeats it received, nor does what a
\* heartbeat or an end in flight has read of it.
Earned ==
    /\ \A r \in DOMAIN rows : rows[r].time <= beats[r]
    /\ \A t \in Threads : job[t].pc = "beat" => job[t].time <= beats[job[t].row]
    /\ \A t \in Threads : job[t].pc \in {"load", "close"} =>
          \A r \in Ids : job[t].seen[r] # Unseen => job[t].seen[r] <= beats[r]
    /\ PresentEarned

LEMMA EarnedInit == Init => Earned
  <1> SUFFICES ASSUME Init PROVE Earned
    OBVIOUS
  <1>1. DOMAIN rows = {} /\ \A t \in Threads : job[t].pc = "idle"
    BY DEF Init, Idle
  <1>2. \A s \in Students : rec[s] = "none"
    BY DEF Init, NoRecords
  <1> QED  BY <1>1, <1>2 DEF Earned, PresentEarned

LEMMA EarnedStep == TInv /\ Earned /\ [Next]_vars => Earned'
  <1> SUFFICES ASSUME TInv, Earned, [Next]_vars PROVE Earned'
    OBVIOUS
  <1>0. TypeOK /\ TypeOK' /\ TInv'
    BY TypeStep DEF TInv
  <1>1. StepEffect
    BY DataEffect
  <1>2. \A r \in Ids : beats[r] \in Nat /\ beats'[r] \in Nat /\ beats[r] <= beats'[r]
    BY <1>0, <1>1, LiveAssumption DEF TypeOK, StepEffect
  <1>3. DOMAIN rows \subseteq Ids /\ DOMAIN rows' \subseteq Ids
    <2>1. DOMAIN rows \subseteq Ids
      BY <1>0, RowFacts
    <2>2. rows' \in Seq(Row) /\ Len(rows') <= MaxRows
      BY <1>0 DEF TypeOK
    <2>3. Len(rows') \in Nat /\ DOMAIN rows' = 1 .. Len(rows')
      BY <2>2, LenProperties
    <2> QED  BY <2>1, <2>2, <2>3, LiveAssumption DEF Ids
  <1>j. \A t \in Threads : job[t] \in Job /\ job'[t] \in Job
    BY <1>0 DEF TypeOK
  <1>4. ASSUME NEW r \in DOMAIN rows' PROVE rows'[r].time <= beats'[r]
    <2>1. TimeEffect(r)
      BY <1>1 DEF StepEffect
    <2>2. CASE r \in DOMAIN rows /\ rows'[r].time = rows[r].time
      <3>1. rows[r].time \in Nat
        BY <1>0, <2>2, RowFacts, LiveAssumption DEF Row
      <3> QED  BY <1>2, <1>3, <2>2, <3>1 DEF Earned
    <2>3. CASE rows'[r].time = 0
      BY <1>2, <1>3, <2>3
    <2>4. ASSUME NEW t \in Threads, job[t].pc = "beat", job[t].row = r,
                 rows'[r].time = job[t].time + 1, beats'[r] = beats[r] + 1
          PROVE  rows'[r].time <= beats'[r]
      <3>1. job[t].time \in Nat
        BY <1>j, JobFacts
      <3> QED  BY <1>2, <1>3, <2>4, <3>1 DEF Earned
    <2> QED  BY <2>1, <2>2, <2>3, <2>4 DEF TimeEffect
  <1>5. ASSUME NEW t \in Threads, job'[t].pc = "beat" PROVE job'[t].time <= beats'[job'[t].row]
    <2>1. job'[t].row \in Ids /\ job'[t].time \in Nat /\ job'[t].row \in DOMAIN rows'
      <3>1. job'[t].row \in DOMAIN rows'
        BY <1>0, <1>5 DEF TInv, JobOK, InRow
      <3> QED  BY <1>3, <1>j, <3>1, JobFacts
    <2>2. CASE job'[t] = job[t]
      BY <1>2, <1>5, <2>1, <2>2 DEF Earned
    <2>3. CASE JustRead(job'[t], job[t])
      <3>1. job'[t].time = rows[job'[t].row].time /\ rows' = rows
        BY <1>5, <2>3 DEF JustRead
      <3> QED  BY <1>2, <2>1, <3>1 DEF Earned
    <2> QED  BY <2>2, <2>3, JobEffect
  <1>6. ASSUME NEW t \in Threads, job'[t].pc \in {"load", "close"}, NEW r \in Ids,
               job'[t].seen[r] # Unseen
        PROVE  job'[t].seen[r] <= beats'[r]
    <2>1. job'[t].seen[r] \in Int /\ job[t].seen[r] \in Int
      BY <1>j, JobFacts
    <2>2. CASE job'[t] = job[t]
      BY <1>2, <1>6, <2>1, <2>2 DEF Earned
    <2>3. CASE JustRead(job'[t], job[t])
      <3>1. \/ r \in DOMAIN rows /\ job'[t].seen[r] = rows[r].time
            \/ job[t].pc = "load" /\ job'[t].seen[r] = job[t].seen[r]
        BY <1>6, <2>3 DEF JustRead
      <3> QED  BY <1>2, <1>6, <2>1, <3>1 DEF Earned
    <2> QED  BY <2>2, <2>3, JobEffect
  <1>7. ASSUME NEW s \in Students \ vouched', rec'[s] = "present"
        PROVE  \E r \in RowsOf(s)' : beats'[r] >= MinBeats
    <2>1. RecEffect(s) /\ s \notin vouched
      BY <1>1 DEF StepEffect
    <2>2. \A r \in RowsOf(s) : r \in RowsOf(s)' /\ r \in Ids
      BY <1>1, <1>3 DEF StepEffect, RowsOf
    <2>3. CASE rec'[s] = rec[s]
      <3>1. PICK r \in RowsOf(s) : beats[r] >= MinBeats
        BY <1>7, <2>1, <2>3 DEF Earned, PresentEarned
      <3> QED  BY <1>2, <2>2, <3>1, LiveAssumption
    <2>4. ASSUME NEW t \in Threads, NEW r \in RowsOf(s), job[t].pc = "close",
                 job[t].seen[r] # Unseen, rec'[s] = Verdict(job[t].seen[r])
          PROVE  \E q \in RowsOf(s)' : beats'[q] >= MinBeats
      <3>1. r \in Ids /\ job[t].seen[r] \in Int
        BY <1>j, <2>2, JobFacts
      <3>2. job[t].seen[r] >= MinBeats
        BY <1>7, <2>4 DEF Verdict, Qualifies
      <3>3. job[t].seen[r] <= beats[r]
        BY <2>4, <3>1 DEF Earned
      <3>4. beats'[r] >= MinBeats
        BY <1>2, <3>1, <3>2, <3>3, LiveAssumption
      <3> QED  BY <2>2, <3>4
    <2> QED  BY <1>7, <2>1, <2>3, <2>4 DEF RecEffect
  <1>8. PresentEarned'
    BY <1>7 DEF PresentEarned
  <1> QED  BY <1>4, <1>5, <1>6, <1>8 DEF Earned

\* Whoever the end of a class marks present received the heartbeats the minimum
\* asks for on one row, whatever heartbeats and ends were in flight.
THEOREM PresenceIsEarned == Spec => []PresentEarned
  <1>1. Spec => [](TInv /\ Earned)
    BY TypeInit, TypeStep, EarnedInit, EarnedStep, PTL DEF Spec
  <1>2. Earned => PresentEarned
    BY DEF Earned
  <1> QED  BY <1>1, <1>2, PTL

-----------------------------------------------------------------------------
(* Nobody is left out *)

\* Types and ranges of a step, as the next proofs use them.
LEMMA StepFacts ==
    ASSUME TInv, [Next]_vars
    PROVE  /\ StepEffect
           /\ \A t \in Threads : job[t] \in Job /\ job'[t] \in Job
           /\ DOMAIN rows \subseteq Ids /\ DOMAIN rows' \subseteq Ids
           /\ \A r \in DOMAIN rows : rows[r].time \in Nat /\ rows[r].who \in Students
           /\ \A r \in DOMAIN rows' : rows'[r].who \in Students
  <1>0. TypeOK /\ TypeOK'
    BY TypeStep DEF TInv
  <1>1. StepEffect
    BY DataEffect
  <1>2. \A t \in Threads : job[t] \in Job /\ job'[t] \in Job
    BY <1>0 DEF TypeOK
  <1>3. DOMAIN rows \subseteq Ids /\ \A r \in DOMAIN rows : rows[r].time \in Nat /\ rows[r].who \in Students
    BY <1>0, RowFacts, LiveAssumption DEF Row
  <1>4. rows' \in Seq(Row) /\ Len(rows') <= MaxRows
    BY <1>0 DEF TypeOK
  <1>5. /\ Len(rows') \in Nat /\ DOMAIN rows' = 1 .. Len(rows')
        /\ \A r \in 1 .. Len(rows') : rows'[r] \in Row
    BY <1>4, LenProperties, ElementOfSeq
  <1>6. DOMAIN rows' \subseteq Ids /\ \A r \in DOMAIN rows' : rows'[r].who \in Students
    BY <1>4, <1>5, LiveAssumption DEF Ids, Row
  <1> QED  BY <1>1, <1>2, <1>3, <1>6

\* Only the commit of end_live_session ends a class.
LEMMA EndedBy ==
    ASSUME [Next]_vars, live # "ended", live' = "ended"
    PROVE  \E t \in Threads : EndCommits(t)
  BY DEF Next, vars, Start, StartChecks, SheetInserted, SheetConflicts, GoesLive,
         Join, JoinChecks, JoinLooksUp, Rejoins, Joins, Beat, BeatReads, BeatCommits,
         Leave, LeaveReads, LeaveCommits, LeaveAnswers,
         End, EndChecks, EndMarksLeft, EndLoads, EndConflicts,
         Scan, Override, AutoExpire, Restart

\* What an end writes for a student it has seen.
LEMMA EndRecords ==
    ASSUME NEW t \in Threads, EndCommits(t), NEW s \in Students, SeenOf(job[t], s) # {}
    PROVE  \E r \in RowsOf(s) :
              /\ job[t].seen[r] # Unseen
              /\ rec'[s] = IF Verdict(job[t].seen[r]) = job[t].had[s]
                             THEN rec[s] ELSE Verdict(job[t].seen[r])
  <1>1. PICK last \in [Students -> Ids \cup {NoRow}] :
           /\ \A q \in Students : SeenOf(job[t], q) # {} => last[q] \in SeenOf(job[t], q)
           /\ rec' = Recorded(job[t], last)
    BY DEF EndCommits
  <1> QED  BY <1>1 DEF Recorded, SeenOf

\* An end about to commit has loaded every row added before it began, and the
\* records it found are still there.
Listed ==
    /\ \A t \in Threads : job[t].pc = "close" =>
          /\ \A r \in DOMAIN rows \ late : job[t].seen[r] # Unseen
          /\ \A s \in Students : job[t].had[s] # "none" => rec[s] # "none"
    /\ NobodyLeftOut

LEMMA ListedInit == Init => Listed
  BY DEF Init, Listed, NobodyLeftOut, Idle

LEMMA ListedStep == TInv /\ Listed /\ [Next]_vars => Listed'
  <1> SUFFICES ASSUME TInv, Listed, [Next]_vars PROVE Listed'
    OBVIOUS
  <1>1. /\ StepEffect
        /\ \A t \in Threads : job[t] \in Job /\ job'[t] \in Job
        /\ DOMAIN rows \subseteq Ids /\ DOMAIN rows' \subseteq Ids
        /\ \A r \in DOMAIN rows : rows[r].time \in Nat /\ rows[r].who \in Students
    BY StepFacts
  <1>2. \A s \in Students : rec[s] # "none" => rec'[s] # "none"
    BY <1>1 DEF StepEffect, RecEffect, Verdict
  <1>3. ASSUME NEW r \in DOMAIN rows' \ late', Ending \/ live = "ended"
        PROVE  r \in DOMAIN rows \ late
    BY <1>1, <1>3 DEF StepEffect, TimeEffect
  <1>4. ASSUME NEW t \in Threads, job'[t].pc = "close", NEW r \in DOMAIN rows' \ late'
        PROVE  job'[t].seen[r] # Unseen
    <2>1. CASE job'[t] = job[t]
      BY <1>3, <1>4, <2>1 DEF Listed, Ending
    <2>2. CASE JustRead(job'[t], job[t])
      <3>1. rows' = rows /\ job'[t].seen[r] = IF job[t].seen[r] = Unseen
                                                THEN rows[r].time ELSE job[t].seen[r]
        BY <1>1, <1>4, <2>2 DEF JustRead, InEnd
      <3> QED  BY <1>1, <1>4, <3>1 DEF Unseen
    <2> QED  BY <2>1, <2>2, JobEffect
  <1>5. ASSUME NEW t \in Threads, job'[t].pc = "close", NEW s \in Students, job'[t].had[s] # "none"
        PROVE  rec'[s] # "none"
    <2>1. CASE job'[t] = job[t]
      BY <1>2, <1>5, <2>1 DEF Listed
    <2>2. CASE JustRead(job'[t], job[t])
      BY <1>2, <1>5, <2>2 DEF JustRead
    <2> QED  BY <2>1, <2>2, JobEffect
  <1>6. ASSUME live' = "ended", NEW r \in DOMAIN rows' \ late'
        PROVE  rec'[rows'[r].who] # "none"
    <2>1. CASE live = "ended"
      <3>1. r \in DOMAIN rows \ late
        BY <1>3, <2>1
      <3>2. rows'[r].who = rows[r].who /\ rows[r].who \in Students
        BY <1>1, <3>1 DEF StepEffect
      <3> QED  BY <1>2, <2>1, <3>1, <3>2 DEF Listed, NobodyLeftOut
    <2>2. CASE live # "ended"
      <3>1. PICK t \in Threads : EndCommits(t)
        BY <1>6, <2>2, EndedBy
      <3>2. job[t].pc = "close"
        BY <3>1 DEF EndCommits
      <3>3. r \in DOMAIN rows \ late
        BY <1>3, <3>2 DEF Ending
      <3> DEFINE s == rows[r].who
      <3>4. rows'[r].who = s /\ s \in Students
        BY <1>1, <3>3 DEF StepEffect
      <3>5. SeenOf(job[t], s) # {}
        BY <3>2, <3>3 DEF Listed, SeenOf, RowsOf
      <3>6. PICK q \in RowsOf(s) :
               rec'[s] = IF Verdict(job[t].seen[q]) = job[t].had[s]
                           THEN rec[s] ELSE Verdict(job[t].seen[q])
        BY <3>1, <3>4, <3>5, EndRecords
      <3>7. Verdict(job[t].seen[q]) # "none"
        BY DEF Verdict
      <3> QED  BY <3>2, <3>4, <3>6, <3>7 DEF Listed
    <2> QED  BY <2>1, <2>2
  <1>7. NobodyLeftOut'
    BY <1>6 DEF NobodyLeftOut
  <1> QED  BY <1>4, <1>5, <1>7 DEF Listed

\* Every student who joined before the end of the class began has a record once it
\* has ended, however many ends, joins and leaves overlap.
THEOREM EveryoneRecorded == Spec => []NobodyLeftOut
  <1>1. Spec => [](TInv /\ Listed)
    BY TypeInit, TypeStep, ListedInit, ListedStep, PTL DEF Spec
  <1>2. Listed => NobodyLeftOut
    BY DEF Listed
  <1> QED  BY <1>1, <1>2, PTL

-----------------------------------------------------------------------------
(* The answer of leave_session *)

Firm == told \ (raced \cup vouched)

\* The one row of a student told so has the time, and so has all that an end has
\* read of it.
Enough(s) ==
    /\ RowsOf(s) # {}
    /\ \A r \in RowsOf(s) :
          /\ rows[r].time >= MinBeats
          /\ \A t \in Threads :
                /\ job[t].pc = "close" => job[t].seen[r] # Unseen
                /\ job[t].pc \in {"load", "close"} /\ job[t].seen[r] # Unseen =>
                      job[t].seen[r] >= MinBeats

OneRowEach ==
    \A r, q \in DOMAIN rows : r # q /\ rows[r].who = rows[q].who => rows[r].who \in raced

Kept ==
    /\ OneRowEach
    /\ \A s \in Firm : Enough(s)
    /\ \A s \in Firm : \A t \in Threads :
          job[t].pc = "close" /\ job[t].had[s] = "present" => rec[s] = "present"
    /\ ToldCounted

LEMMA KeptInit == Init => Kept
  BY DEF Init, Kept, OneRowEach, Firm, ToldCounted

\* A student is told so by leave_session, outside the end of the class.
LEMMA ToldBy ==
    ASSUME TInv, [Next]_vars, NEW s \in told' \ told
    PROVE  \E t \in Threads :
              /\ job[t].row \in RowsOf(s)
              /\ rows[job[t].row].time >= MinBeats
              /\ \A u \in Threads : job'[u].pc \notin InEnd
              /\ live' = "live"
              /\ UNCHANGED <<rows, raced>>
  <1>0. TypeOK /\ \A t \in Threads : job[t] \in Job /\ JobOK(job[t], DOMAIN rows)
    BY DEF TInv, TypeOK
  <1>1. PICK t \in Threads : LeaveAnswers(t)
    BY DEF Next, vars, Start, StartChecks, SheetInserted, SheetConflicts, GoesLive,
           Join, JoinChecks, JoinLooksUp, Rejoins, Joins, Beat, BeatReads, BeatCommits,
           Leave, LeaveReads, LeaveCommits,
           End, EndChecks, EndMarksLeft, EndLoads, EndCommits, EndConflicts,
           Scan, Override, AutoExpire, Restart
  <1>2. job[t].row \in DOMAIN rows
    BY <1>0, <1>1 DEF LeaveAnswers, JobOK, InRow
  <1>3. /\ Qualifies(rows[job[t].row].time) /\ live = "live" /\ ~Ending
        /\ s = rows[job[t].row].who
    BY <1>1 DEF LeaveAnswers
  <1>4. Idle.pc = "idle"
    BY DEF Idle
  <1>5. \A u \in Threads : job'[u].pc \notin InEnd
    BY <1>0, <1>1, <1>3, <1>4 DEF LeaveAnswers, Done, Ending, InEnd, TypeOK
  <1> QED  BY <1>1, <1>2, <1>3, <1>5 DEF LeaveAnswers, RowsOf, Qualifies

LEMMA KeptStep == TInv /\ Kept /\ [Next]_vars => Kept'
  <1> SUFFICES ASSUME TInv, Kept, [Next]_vars PROVE Kept'
    OBVIOUS
  <1>1. /\ StepEffect
        /\ \A t \in Threads : job[t] \in Job /\ job'[t] \in Job
        /\ DOMAIN rows \subseteq Ids /\ DOMAIN rows' \subseteq Ids
        /\ \A r \in DOMAIN rows : rows[r].time \in Nat /\ rows[r].who \in Students
    BY StepFacts
  <1>2. told \subseteq Students /\ told' \subseteq Students
    BY TypeStep DEF TInv, TypeOK
  <1>3. OneRowEach'
    BY <1>1 DEF Kept, OneRowEach, StepEffect, OwnerEffect
  <1>4. ASSUME NEW s \in Firm', s \notin told
        PROVE  /\ Enough(s)'
               /\ \A t \in Threads : job'[t].pc # "close"
               /\ live' # "ended"
    <2>1. PICK t \in Threads :
             /\ job[t].row \in RowsOf(s)
             /\ rows[job[t].row].time >= MinBeats
             /\ \A u \in Threads : job'[u].pc \notin InEnd
             /\ live' = "live"
             /\ UNCHANGED <<rows, raced>>
      BY <1>4, ToldBy DEF Firm
    <2>2. s \notin raced
      BY <1>4, <2>1 DEF Firm
    <2>3. RowsOf(s)' = {job[t].row}
      BY <2>1, <2>2 DEF Kept, OneRowEach, RowsOf
    <2> QED  BY <2>1, <2>3 DEF Enough, InEnd
  <1>5. ASSUME NEW s \in Firm', s \in told
        PROVE  /\ Enough(s)'
               /\ \A t \in Threads :
                     job'[t].pc = "close" /\ job'[t].had[s] = "present" => rec'[s] = "present"
               /\ live' = "ended" => rec'[s] = "present"
    <2>1. s \in Firm /\ s \in Students /\ s \notin raced' /\ s \notin vouched'
      BY <1>1, <1>2, <1>5 DEF Firm, StepEffect
    <2>2. Enough(s)
      BY <2>1 DEF Kept
    <2>3. RowsOf(s)' = RowsOf(s)
      <3>1. RowsOf(s) \subseteq RowsOf(s)'
        BY <1>1 DEF StepEffect, RowsOf
      <3>2. PICK q \in RowsOf(s) : TRUE
        BY <2>2 DEF Enough
      <3>3. ASSUME NEW r \in RowsOf(s)' PROVE r \in RowsOf(s)
        <4>1. r \in DOMAIN rows
          BY <1>1, <2>1, <3>1, <3>2, <3>3 DEF StepEffect, OwnerEffect, RowsOf
        <4> QED  BY <1>1, <3>3, <4>1 DEF StepEffect, RowsOf
      <3> QED  BY <3>1, <3>3
    <2>4. ASSUME NEW r \in RowsOf(s) PROVE rows'[r].time >= MinBeats
      <3>1. r \in DOMAIN rows /\ rows[r].who = s /\ r \in DOMAIN rows' /\ rows[r].time \in Nat
        BY <1>1 DEF RowsOf, StepEffect
      <3>2. rows[r].time >= MinBeats
        BY <2>2 DEF Enough
      <3>3. rows'[r].time = rows[r].time \/ rows'[r].time = rows[r].time + 1
        BY <1>1, <2>1, <3>1 DEF StepEffect, TimeEffect
      <3> QED  BY <3>1, <3>2, <3>3, LiveAssumption
    <2>5. ASSUME NEW r \in RowsOf(s), NEW t \in Threads
          PROVE  /\ job'[t].pc = "close" => job'[t].seen[r] # Unseen
                 /\ job'[t].pc \in {"load", "close"} /\ job'[t].seen[r] # Unseen =>
                       job'[t].seen[r] >= MinBeats
      <3>1. r \in DOMAIN rows /\ r \in Ids /\ rows[r].time \in Nat /\ rows[r].time >= MinBeats
        BY <1>1, <2>2 DEF RowsOf, Enough
      <3>2. CASE job'[t] = job[t]
        BY <2>2, <3>2 DEF Enough
      <3>3. CASE JustRead(job'[t], job[t])
        <4>1. CASE job'[t].pc = "load"
          BY <3>1, <3>3, <4>1 DEF JustRead
        <4>2. CASE job'[t].pc = "close"
          <5>1. /\ job[t].pc = "load"
                /\ job'[t].seen[r] = IF job[t].seen[r] = Unseen THEN rows[r].time ELSE job[t].seen[r]
            BY <3>1, <3>3, <4>2 DEF JustRead
          <5>2. job[t].seen[r] # Unseen => job[t].seen[r] >= MinBeats
            BY <2>2, <5>1 DEF Enough
          <5> QED  BY <3>1, <5>1, <5>2 DEF Unseen
        <4> QED  BY <4>1, <4>2
      <3> QED  BY <3>2, <3>3, JobEffect
    <2>6. Enough(s)'
      BY <2>2, <2>3, <2>4, <2>5 DEF Enough
    <2>7. rec[s] = "present" => rec'[s] = "present"
      <3>1. RecEffect(s)
        BY <1>1, <2>1 DEF StepEffect
      <3>2. ASSUME NEW t \in Threads, NEW r \in RowsOf(s), job[t].pc = "close", job[t].seen[r] # Unseen
            PROVE  Verdict(job[t].seen[r]) = "present"
        BY <2>2, <3>2 DEF Enough, Verdict, Qualifies
      <3> QED  BY <2>1, <3>1, <3>2 DEF RecEffect
    <2>8. ASSUME NEW t \in Threads, job'[t].pc = "close", job'[t].had[s] = "present"
          PROVE  rec'[s] = "present"
      <3>1. CASE job'[t] = job[t]
        BY <2>1, <2>7, <2>8, <3>1 DEF Kept
      <3>2. CASE JustRead(job'[t], job[t])
        BY <2>7, <2>8, <3>2 DEF JustRead
      <3> QED  BY <3>1, <3>2, JobEffect
    <2>9. ASSUME live' = "ended" PROVE rec'[s] = "present"
      <3>1. CASE live = "ended"
        BY <2>1, <2>7, <3>1 DEF Kept, ToldCounted, Firm
      <3>2. CASE live # "ended"
        <4>1. PICK t \in Threads : EndCommits(t)
          BY <2>9, <3>2, EndedBy
        <4>2. job[t].pc = "close"
          BY <4>1 DEF EndCommits
        <4>3. SeenOf(job[t], s) # {}
          BY <2>2, <4>2 DEF Enough, SeenOf
        <4>4. PICK r \in RowsOf(s) :
                 /\ job[t].seen[r] # Unseen
                 /\ rec'[s] = IF Verdict(job[t].seen[r]) = job[t].had[s]
                                THEN rec[s] ELSE Verdict(job[t].seen[r])
          BY <2>1, <4>1, <4>3, EndRecords
        <4>5. Verdict(job[t].seen[r]) = "present"
          BY <2>2, <4>2, <4>4 DEF Enough, Verdict, Qualifies
        <4> QED  BY <2>1, <4>2, <4>4, <4>5 DEF Kept
      <3> QED  BY <3>1, <3>2
    <2> QED  BY <2>6, <2>8, <2>9
  <1>6. \A s \in Firm' : Enough(s)'
    BY <1>4, <1>5
  <1>7. \A s \in Firm' : \A t \in Threads :
           job'[t].pc = "close" /\ job'[t].had[s] = "present" => rec'[s] = "present"
    BY <1>4, <1>5
  <1>8. ToldCounted'
    BY <1>4, <1>5 DEF ToldCounted, Firm
  <1> QED  BY <1>3, <1>6, <1>7, <1>8 DEF Kept

LEMMA KeptHolds == Spec => []Kept
  BY TypeInit, TypeStep, KeptInit, KeptStep, PTL DEF Spec

\* A student whom leave_session told the attendance counts is present once the
\* class has ended, unless heartbeats of the row raced, a second row was created
\* or the record was overridden.
THEOREM ToldIsCounted == Spec => []ToldCounted
  <1>1. Spec => []Kept
    BY KeptHolds
  <1>2. Kept => ToldCounted
    BY DEF Kept
  <1> QED  BY <1>1, <1>2, PTL

-----------------------------------------------------------------------------
(* The count *)

\* Without a scan or an override, a record is that of a student with a row, and an
\* end about to commit has seen a row of every student whose record it found.
Rooted ==
    /\ \A s \in Students \ vouched : rec[s] # "none" => RowsOf(s) # {}
    /\ \A t \in Threads : job[t].pc \in {"load", "close"} =>
          \A r \in Ids : job[t].seen[r] # Unseen => r \in DOMAIN rows
    /\ \A t \in Threads : job[t].pc = "close" =>
          \A s \in Students \ vouched : job[t].had[s] # "none" => SeenOf(job[t], s) # {}

LEMMA RootedInit == Init => Rooted
  BY DEF Init, Rooted, NoRecords, Idle

LEMMA RootedStep == TInv /\ Rooted /\ [Next]_vars => Rooted'
  <1> SUFFICES ASSUME TInv, Rooted, [Next]_vars PROVE Rooted'
    OBVIOUS
  <1>1. /\ StepEffect
        /\ \A t \in Threads : job[t] \in Job /\ job'[t] \in Job
        /\ DOMAIN rows \subseteq Ids /\ DOMAIN rows' \subseteq Ids
        /\ \A r \in DOMAIN rows : rows[r].time \in Nat /\ rows[r].who \in Students
    BY StepFacts
  <1>2. \A s \in Students : RowsOf(s) \subseteq RowsOf(s)'
    BY <1>1 DEF StepEffect, RowsOf
  <1>3. vouched \subseteq vouched'
    BY <1>1 DEF StepEffect
  <1>4. ASSUME NEW s \in Students \ vouched', rec'[s] # "none" PROVE RowsOf(s)' # {}
    <2>1. RecEffect(s)
      BY <1>1 DEF StepEffect
    <2>2. rec[s] # "none" => RowsOf(s) # {}
      BY <1>3 DEF Rooted
    <2> QED  BY <1>2, <1>4, <2>1, <2>2 DEF RecEffect
  <1>5. ASSUME NEW t \in Threads, job'[t].pc \in {"load", "close"}, NEW r \in Ids,
               job'[t].seen[r] # Unseen
        PROVE  r \in DOMAIN rows'
    <2>1. DOMAIN rows \subseteq DOMAIN rows'
      BY <1>1 DEF StepEffect
    <2>2. CASE job'[t] = job[t]
      BY <1>5, <2>1, <2>2 DEF Rooted
    <2>3. CASE JustRead(job'[t], job[t])
      BY <1>5, <2>1, <2>3 DEF Rooted, JustRead
    <2> QED  BY <2>2, <2>3, JobEffect
  <1>6. ASSUME NEW t \in Threads, job'[t].pc = "close", NEW s \in Students \ vouched',
               job'[t].had[s] # "none"
        PROVE  SeenOf(job[t], s)' # {}
    <2>1. CASE job'[t] = job[t]
      <3>1. SeenOf(job[t], s) # {}
        BY <1>3, <1>6, <2>1 DEF Rooted
      <3> QED  BY <1>2, <2>1, <3>1 DEF SeenOf
    <2>2. CASE JustRead(job'[t], job[t])
      <3>1. /\ job'[t].had = rec
            /\ \A r \in Ids : job'[t].seen[r] = IF r \in DOMAIN rows /\ job[t].seen[r] = Unseen
                                                   THEN rows[r].time ELSE job[t].seen[r]
        BY <1>6, <2>2 DEF JustRead
      <3>2. PICK r \in RowsOf(s) : TRUE
        BY <1>3, <1>6, <3>1 DEF Rooted
      <3>3. r \in DOMAIN rows /\ r \in Ids /\ rows[r].time \in Nat
        BY <1>1 DEF RowsOf
      <3>4. job'[t].seen[r] # Unseen
        BY <3>1, <3>3 DEF Unseen
      <3> QED  BY <1>2, <3>2, <3>4 DEF SeenOf
    <2> QED  BY <2>1, <2>2, JobEffect
  <1>7. \A t \in Threads : job'[t].pc = "close" =>
          \A s \in Students \ vouched' : job'[t].had[s] # "none" => SeenOf(job[t], s)' # {}
    BY <1>6
  <1> QED  BY <1>4, <1>5, <1>7 DEF Rooted, SeenOf

\* With one row each, the students an end marks present are as many as the rows it
\* has seen with time enough.
LEMMA OneEach ==
    ASSUME TInv, Kept, Rooted, [Next]_vars, NEW t \in Threads, EndCommits(t),
           rec = job[t].had, raced = {}, vouched = {}
    PROVE  AttendanceMarked(job[t]) = NumPresent'
  <1> DEFINE j == job[t]
             A == {r \in SeenRows(j) : Qualifies(j.seen[r])}
             P == {s \in Students : rec'[s] = "present"}
             f == [r \in A |-> rows[r].who]
  <1>1. j.pc = "close"
    BY DEF EndCommits
  <1>2. /\ DOMAIN rows \subseteq Ids
        /\ \A r \in DOMAIN rows : rows[r].who \in Students
    BY StepFacts
  <1>3. \A r \in A : r \in DOMAIN rows /\ j.seen[r] # Unseen /\ Qualifies(j.seen[r])
    BY <1>1 DEF Rooted, SeenRows
  <1>4. \A r, q \in DOMAIN rows : rows[r].who = rows[q].who => r = q
    BY DEF Kept, OneRowEach
  <1>5. ASSUME NEW s \in Students, NEW r \in SeenOf(j, s)
        PROVE  rec'[s] = Verdict(j.seen[r])
    <2>1. PICK q \in RowsOf(s) :
             rec'[s] = IF Verdict(j.seen[q]) = j.had[s] THEN rec[s] ELSE Verdict(j.seen[q])
      BY <1>5, EndRecords
    <2>2. q = r
      BY <1>4, <1>5, <2>1 DEF SeenOf, RowsOf
    <2> QED  BY <2>1, <2>2
  <1>6. ASSUME NEW r \in A PROVE rows[r].who \in P
    <2>1. r \in SeenOf(j, rows[r].who) /\ rows[r].who \in Students
      BY <1>2, <1>3 DEF SeenOf, RowsOf
    <2>2. rec'[rows[r].who] = Verdict(j.seen[r])
      BY <1>5, <2>1
    <2> QED  BY <1>3, <2>1, <2>2 DEF Verdict
  <1>7. ASSUME NEW s \in P PROVE \E r \in A : rows[r].who = s
    <2>1. CASE SeenOf(j, s) = {}
      <3>1. rec[s] = "none"
        BY <1>1, <2>1 DEF Rooted
      <3>2. rec'[s] = rec[s]
        BY <2>1 DEF EndCommits, Recorded
      <3> QED  BY <3>1, <3>2
    <2>2. ASSUME NEW r \in SeenOf(j, s) PROVE r \in A /\ rows[r].who = s
      <3>1. Verdict(j.seen[r]) = "present"
        BY <1>5, <2>2
      <3>2. r \in DOMAIN rows /\ rows[r].who = s /\ j.seen[r] # Unseen
        BY <2>2 DEF SeenOf, RowsOf
      <3> QED  BY <1>2, <3>1, <3>2 DEF Verdict, SeenRows
    <2> QED  BY <2>1, <2>2
  <1>8. f \in Bijection(A, P)
    <2>1. f \in [A -> P]
      BY <1>6
    <2>2. \A r, q \in A : f[r] = f[q] => r = q
      BY <1>3, <1>4
    <2>3. \A s \in P : \E r \in A : f[r] = s
      BY <1>7
    <2> HIDE DEF f, A, P
    <2> QED  BY <2>1, <2>2, <2>3 DEF Bijection, Injection, IsInjective, Surjection
  <1>9. IsFiniteSet(A)
    <2>1. A \subseteq Ids
      BY DEF SeenRows
    <2>2. IsFiniteSet(Ids)
      BY FS_Interval, LiveAssumption DEF Ids
    <2> HIDE DEF A
    <2> QED  BY <2>1, <2>2, FS_Subset
  <1>10. Cardinality(A) = Cardinality(P)
    <2> HIDE DEF f, A, P
    <2> QED  BY <1>8, <1>9, FS_Bijection DEF ExistsBijection
  <1> QED  BY <1>10 DEF AttendanceMarked, NumPresent

\* An end that nothing overtook since its load writes the number of students
\* present, for any number of ends, joins and heartbeats before it
\* (end_live_session).
THEOREM EndCountsEachOnce == Spec => EndReconciles
  <1> DEFINE Counted ==
        \A t \in Threads :
          /\ EndCommits(t)
          /\ rec = job[t].had /\ count = job[t].cnt
          /\ raced = {} /\ vouched = {}
          => count' = NumPresent'
  <1>1. TInv /\ Kept /\ Rooted /\ [Next]_vars => [Counted]_vars
    <2> SUFFICES ASSUME TInv, Kept, Rooted, [Next]_vars, NEW t \in Threads, EndCommits(t),
                        rec = job[t].had, count = job[t].cnt, raced = {}, vouched = {}
                 PROVE  count' = NumPresent'
      OBVIOUS
    <2>1. AttendanceMarked(job[t]) = NumPresent'
      BY OneEach
    <2>2. count' = IF AttendanceMarked(job[t]) = job[t].cnt THEN count
                                                            ELSE AttendanceMarked(job[t])
      BY DEF EndCommits
    <2> QED  BY <2>1, <2>2
  <1>2. Spec => [][Counted]_vars
    BY <1>1, TypeInit, TypeStep, RootedInit, RootedStep, KeptHolds, PTL DEF Spec
  <1> QED  BY <1>2 DEF EndReconciles

=============================================================================

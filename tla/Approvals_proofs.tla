-------------------------- MODULE Approvals_proofs --------------------------
(***************************************************************************)
(* Proofs about Approvals, for any students and any number of calls.       *)
(***************************************************************************)
EXTENDS Approvals, FiniteSetTheorems, TLAPS

CallState == [op : {"none", "file"} \union LeaveOps \union DisputeOps, who : Students,
              row : 0..MaxDisputes, had : Nat, counted : Nat]
Row == [who : Students, st : {"none", "pending", "resolved", "rejected"}]
Present == Cardinality(Attendees)

-----------------------------------------------------------------------------
(* Types *)

LEMMA IdleType == Idle \in CallState /\ Idle.op = "none"
  BY ApprovalsAssumption DEF Idle, Somebody, CallState

\* A call that begins differs from an idle one in what it says it is about.
LEMMA BeginType ==
  ASSUME NEW s \in Students, NEW op \in {"file"} \union LeaveOps
  PROVE  [Idle EXCEPT !.op = op, !.who = s] \in CallState
  BY IdleType DEF CallState

LEMMA BeginFields ==
  ASSUME NEW s \in Students, NEW op
  PROVE  LET b == [Idle EXCEPT !.op = op, !.who = s] IN b.op = op /\ b.who = s
  BY DEF Idle

LEMMA AttendeesFinite == IsFiniteSet(Attendees) /\ Present \in Nat
  <1>1. IsFiniteSet(Attendees)
    BY ApprovalsAssumption, FS_Subset DEF Attendees
  <1> QED  BY <1>1, FS_CardinalityType DEF Present

LEMMA OpFacts ==
    /\ \A op \in LeaveOps : op \notin DisputeOps /\ op # "none" /\ Rivals(op) = LeaveOps
    /\ \A op \in DisputeOps : op \notin LeaveOps /\ op # "none" /\ Rivals(op) = DisputeOps
    /\ "file" \notin LeaveOps /\ "file" \notin DisputeOps
  BY DEF LeaveOps, DisputeOps, Rivals

LEMMA ApprovalsTypeStep == ApprovalsTypeOK /\ [ApprovalsNext]_approvalVars => ApprovalsTypeOK'
  <1> SUFFICES ASSUME ApprovalsTypeOK, [ApprovalsNext]_approvalVars PROVE ApprovalsTypeOK'
    OBVIOUS
  <1>t. call \in [Calls -> CallState]
    BY DEF ApprovalsTypeOK, CallState
  <1>1. CASE UNCHANGED approvalVars
    BY <1>1 DEF approvalVars, ApprovalsTypeOK
  <1>d. dispute \in [DisputeIds -> Row]
    BY DEF ApprovalsTypeOK, Row
  <1>2. ASSUME NEW s \in Students, ApplyLeave(s) PROVE ApprovalsTypeOK'
    BY <1>2 DEF ApplyLeave, ApprovalsTypeOK
  <1>3. ASSUME NEW c \in Calls, NEW s \in Students, FilingReads(c, s) PROVE ApprovalsTypeOK'
    <2>1. call' \in [Calls -> CallState]
      BY <1>3, <1>t, BeginType DEF FilingReads
    <2> QED  BY <1>3, <2>1 DEF FilingReads, ApprovalsTypeOK, CallState
  <1>8. ASSUME NEW c \in Calls, NEW s \in Students, NEW op \in LeaveOps, LeaveReads(c, s, op)
        PROVE  ApprovalsTypeOK'
    <2>1. call' \in [Calls -> CallState]
      BY <1>8, <1>t, BeginType DEF LeaveReads
    <2>2. overlap' \in BOOLEAN
      BY <1>8 DEF LeaveReads, ApprovalsTypeOK
    <2> QED  BY <1>8, <2>1, <2>2 DEF LeaveReads, ApprovalsTypeOK, CallState
  <1>9. ASSUME NEW c \in Calls, NEW d \in DisputeIds, FilingCommits(c, d) PROVE ApprovalsTypeOK'
    <2>1. call' \in [Calls -> CallState] /\ call[c].who \in Students
      BY <1>9, <1>t, IdleType DEF FilingCommits, CallState
    <2>2. [who |-> call[c].who, st |-> "pending"] \in Row
      BY <2>1 DEF Row
    <2>3. dispute' \in [DisputeIds -> Row]
      BY <1>9, <1>d, <2>2 DEF FilingCommits
    <2> QED  BY <1>9, <2>1, <2>3 DEF FilingCommits, ApprovalsTypeOK, CallState, Row
  <1>10. ASSUME NEW c \in Calls, NEW d \in DisputeIds, NEW op \in {"resolve", "refuse"},
                DisputeReads(c, d, op)
         PROVE  ApprovalsTypeOK'
    <2>1. dispute[d].who \in Students /\ d \in 0..MaxDisputes
      BY <1>d, ApprovalsAssumption DEF Row, DisputeIds
    <2>2. [op |-> op, who |-> dispute[d].who, row |-> d, had |-> present_count, counted |-> 0] \in CallState
      BY <2>1 DEF ApprovalsTypeOK, CallState, DisputeOps
    <2>3. call' \in [Calls -> CallState]
      BY <1>10, <1>t, <2>2 DEF DisputeReads
    <2>4. overlap' \in BOOLEAN
      BY <1>10 DEF DisputeReads, ApprovalsTypeOK
    <2> QED  BY <1>10, <2>3, <2>4 DEF DisputeReads, ApprovalsTypeOK, CallState
  <1>4. ASSUME NEW c \in Calls, LeaveCommits(c) PROVE ApprovalsTypeOK'
    <2>1. call[c].who \in Students /\ call' \in [Calls -> CallState]
      BY <1>4, <1>t, IdleType DEF LeaveCommits, CallState
    <2>2. /\ leave' \in [Students -> {"none", "pending"} \union LeaveOps]
          /\ told' \in [Students -> SUBSET LeaveOps]
          /\ mark' \in [Students -> {"absent", "present", "excused"}]
      BY <1>4, <2>1 DEF LeaveCommits, ApprovalsTypeOK
    <2> QED  BY <1>4, <2>1, <2>2 DEF LeaveCommits, ApprovalsTypeOK, CallState
  <1>5. ASSUME NEW c \in Calls, DisputeCounts(c) PROVE ApprovalsTypeOK'
    <2>1. [call[c] EXCEPT !.op = "counted", !.counted = Recount] \in CallState
      BY <1>t, AttendeesFinite DEF Recount, Present, CallState, DisputeOps
    <2>2. call' = [call EXCEPT ![c] = [call[c] EXCEPT !.op = "counted", !.counted = Recount]]
      BY <1>5, <1>t DEF DisputeCounts, CallState
    <2>3. call' \in [Calls -> CallState]
      BY <1>t, <2>1, <2>2
    <2> QED  BY <1>5, <2>3 DEF DisputeCounts, ApprovalsTypeOK, CallState
  <1>6. ASSUME NEW c \in Calls, DisputeResolved(c) PROVE ApprovalsTypeOK'
    <2>1. call[c].who \in Students /\ call[c].counted \in Nat /\ call' \in [Calls -> CallState]
      BY <1>6, <1>t, IdleType DEF DisputeResolved, CallState
    <2>2. present_count' \in Nat
      BY <1>6, <2>1 DEF DisputeResolved, ApprovalsTypeOK
    <2>3. dispute' \in [DisputeIds -> Row]
      BY <1>6, <1>d DEF DisputeResolved, Row
    <2> QED  BY <1>6, <2>1, <2>2, <2>3 DEF DisputeResolved, ApprovalsTypeOK, CallState, Row
  <1>7. ASSUME NEW c \in Calls, DisputeRefused(c) PROVE ApprovalsTypeOK'
    <2>1. call' \in [Calls -> CallState]
      BY <1>7, <1>t, IdleType DEF DisputeRefused
    <2>2. dispute' \in [DisputeIds -> Row]
      BY <1>7, <1>d DEF DisputeRefused, Row
    <2> QED  BY <1>7, <2>1, <2>2 DEF DisputeRefused, ApprovalsTypeOK, CallState, Row
  <1> QED  BY <1>1, <1>2, <1>3, <1>4, <1>5, <1>6, <1>7, <1>8, <1>9, <1>10 DEF ApprovalsNext

LEMMA ApprovalsStart == ApprovalsInit => ApprovalsTypeOK
  <1> SUFFICES ASSUME ApprovalsInit PROVE ApprovalsTypeOK
    OBVIOUS
  <1>1. call \in [Calls -> CallState]
    BY IdleType DEF ApprovalsInit
  <1>2. Somebody \in Students
    BY ApprovalsAssumption DEF Somebody
  <1> QED  BY <1>1, <1>2 DEF ApprovalsInit, ApprovalsTypeOK, CallState

\* Every table and every call keeps its type.
THEOREM ApprovalsTypes == ApprovalsSpec => []ApprovalsTypeOK
  BY ApprovalsStart, ApprovalsTypeStep, PTL DEF ApprovalsSpec

-----------------------------------------------------------------------------
(* One decision *)

OneDecider ==
  \A c, d \in Calls :
    call[c].op \in LeaveOps /\ call[d].op \in LeaveOps /\ call[c].who = call[d].who => c = d

Undecided == \A c \in Calls : call[c].op \in LeaveOps => leave[call[c].who] = "pending"

DecidedAsAnswered ==
  \A s \in Students :
    /\ leave[s] \in {"none", "pending"} => told[s] = {}
    /\ told[s] = {} \/ told[s] = {leave[s]}
    /\ mark[s] = "excused" => leave[s] = "approved"

DInv == ~overlap => OneDecider /\ Undecided /\ DecidedAsAnswered

LEMMA DecisionStep == ApprovalsTypeOK /\ DInv /\ [ApprovalsNext]_approvalVars => DInv'
  <1> SUFFICES ASSUME ApprovalsTypeOK, DInv, [ApprovalsNext]_approvalVars, ~overlap' PROVE (OneDecider /\ Undecided /\ DecidedAsAnswered)'
    BY DEF DInv
  <1>t. call \in [Calls -> CallState] /\ overlap \in BOOLEAN
    BY DEF ApprovalsTypeOK, CallState
  <1>1. CASE UNCHANGED approvalVars
    BY <1>1 DEF approvalVars, DInv, OneDecider, Undecided, DecidedAsAnswered
  <1>2. ASSUME NEW s \in Students, ApplyLeave(s) PROVE (OneDecider /\ Undecided /\ DecidedAsAnswered)'
    <2>1. overlap' = overlap /\ UNCHANGED <<call, told, mark>>
      BY <1>2 DEF ApplyLeave
    <2>2. \A u \in Students : leave'[u] = leave[u] \/ (leave[u] = "none" /\ leave'[u] = "pending")
      BY <1>2 DEF ApplyLeave, ApprovalsTypeOK
    <2>3. \A c \in Calls : call[c].who \in Students
      BY <1>t DEF CallState
    <2> QED  BY <2>1, <2>2, <2>3 DEF DInv, OneDecider, Undecided, DecidedAsAnswered
  <1>3. ASSUME NEW c \in Calls, NEW s \in Students, NEW op \in LeaveOps, LeaveReads(c, s, op)
        PROVE  (OneDecider /\ Undecided /\ DecidedAsAnswered)'
    <2>1. ~overlap /\ (\A d \in Calls : ~Meet(call[d], s, op)) /\ UNCHANGED <<leave, mark, told>>
      BY <1>3 DEF LeaveReads
    <2>2. /\ call'[c].op = op /\ call'[c].who = s
          /\ \A d \in Calls : d # c => call'[d] = call[d]
      BY <1>3, <1>t, BeginFields DEF LeaveReads
    <2>3. leave[s] = "pending" /\ \A d \in Calls : ~(call[d].op \in LeaveOps /\ call[d].who = s)
      BY <1>3, <2>1, OpFacts DEF LeaveReads, Meet
    <2> QED  BY <2>1, <2>2, <2>3 DEF DInv, OneDecider, Undecided, DecidedAsAnswered
  <1>6. ASSUME NEW c \in Calls,
               \/ \E s \in Students : FilingReads(c, s)
               \/ \E d \in DisputeIds :
                    FilingCommits(c, d) \/ \E op \in {"resolve", "refuse"} : DisputeReads(c, d, op)
        PROVE  (OneDecider /\ Undecided /\ DecidedAsAnswered)'
    <2>1. UNCHANGED <<leave, mark, told>> /\ (overlap => overlap')
      BY <1>6, <1>t DEF FilingReads, FilingCommits, DisputeReads
    <2>2. ASSUME NEW s \in Students, FilingReads(c, s)
          PROVE  call'[c].op \notin LeaveOps /\ \A d \in Calls : d # c => call'[d] = call[d]
      BY <1>t, <2>2, OpFacts, BeginFields DEF FilingReads
    <2>3. ASSUME NEW d \in DisputeIds, FilingCommits(c, d)
          PROVE  call'[c].op \notin LeaveOps /\ \A e \in Calls : e # c => call'[e] = call[e]
      BY <1>t, <2>3, IdleType DEF FilingCommits, LeaveOps
    <2>4. ASSUME NEW d \in DisputeIds, NEW op \in {"resolve", "refuse"}, DisputeReads(c, d, op)
          PROVE  call'[c].op \notin LeaveOps /\ \A e \in Calls : e # c => call'[e] = call[e]
      BY <1>t, <2>4 DEF DisputeReads, LeaveOps
    <2>5. call'[c].op \notin LeaveOps /\ \A d \in Calls : d # c => call'[d] = call[d]
      BY <1>6, <2>2, <2>3, <2>4
    <2> QED  BY <2>1, <2>5 DEF DInv, OneDecider, Undecided, DecidedAsAnswered
  <1>4. ASSUME NEW c \in Calls, LeaveCommits(c) PROVE (OneDecider /\ Undecided /\ DecidedAsAnswered)'
    <2> DEFINE s == call[c].who  op == call[c].op
    <2>1. ~overlap /\ op \in LeaveOps /\ s \in Students /\ leave[s] = "pending" /\ told[s] = {}
      BY <1>4, <1>t DEF LeaveCommits, CallState, DInv, Undecided, DecidedAsAnswered
    <2>2. /\ leave'[s] = op /\ told'[s] = {op}
          /\ \A u \in Students : u # s => leave'[u] = leave[u] /\ told'[u] = told[u] /\ mark'[u] = mark[u]
          /\ mark'[s] = "excused" => mark[s] = "excused" \/ op = "approved"
      BY <1>4, <2>1 DEF LeaveCommits, ApprovalsTypeOK
    <2>3. call'[c].op \notin LeaveOps /\ \A d \in Calls : d # c => call'[d] = call[d]
      BY <1>4, <1>t, IdleType DEF LeaveCommits, LeaveOps
    <2>4. mark[s] # "excused"
      BY <2>1 DEF DInv, DecidedAsAnswered
    <2> HIDE DEF s, op
    <2>5. DecidedAsAnswered'
      BY <2>1, <2>2, <2>4 DEF DInv, DecidedAsAnswered, LeaveOps
    <2>6. OneDecider'
      BY <2>1, <2>3 DEF DInv, OneDecider
    <2>7. Undecided'
      <3> SUFFICES ASSUME NEW d \in Calls, call'[d].op \in LeaveOps PROVE leave'[call'[d].who] = "pending"
        BY DEF Undecided
      <3>1. d # c /\ call'[d] = call[d] /\ call[d].who \in Students
        BY <1>t, <2>3 DEF CallState
      <3>2. call[d].who # s
        BY <2>1, <3>1 DEF DInv, OneDecider, s, op
      <3> QED  BY <2>1, <2>2, <3>1, <3>2 DEF DInv, Undecided
    <2> QED  BY <2>5, <2>6, <2>7
  <1>5. ASSUME NEW c \in Calls, DisputeCounts(c) \/ DisputeResolved(c) \/ DisputeRefused(c)
        PROVE  (OneDecider /\ Undecided /\ DecidedAsAnswered)'
    <2>1. ~overlap /\ UNCHANGED <<leave, told>>
      BY <1>5 DEF DisputeCounts, DisputeResolved, DisputeRefused
    <2>2. call'[c].op \notin LeaveOps /\ \A d \in Calls : d # c => call'[d] = call[d]
      BY <1>5, <1>t, IdleType DEF DisputeCounts, DisputeResolved, DisputeRefused, LeaveOps, CallState
    <2>3. \A u \in Students : mark'[u] = "excused" => mark[u] = "excused"
      BY <1>5 DEF DisputeCounts, DisputeResolved, DisputeRefused, ApprovalsTypeOK
    <2> QED  BY <2>1, <2>2, <2>3 DEF DInv, OneDecider, Undecided, DecidedAsAnswered
  <1> QED  BY <1>1, <1>2, <1>3, <1>4, <1>5, <1>6 DEF ApprovalsNext

LEMMA DecisionStart == ApprovalsInit => DInv
  BY IdleType DEF ApprovalsInit, DInv, OneDecider, Undecided, DecidedAsAnswered, LeaveOps

\* What holds however the decisions overlap.
AsAnswered ==
  \A s \in Students :
    /\ IF leave[s] \in LeaveOps THEN leave[s] \in told[s] ELSE told[s] = {}
    /\ mark[s] = "excused" => "approved" \in told[s]

LEMMA AsAnsweredStep == ApprovalsTypeOK /\ AsAnswered /\ [ApprovalsNext]_approvalVars => AsAnswered'
  <1> SUFFICES ASSUME ApprovalsTypeOK, AsAnswered, [ApprovalsNext]_approvalVars PROVE AsAnswered'
    OBVIOUS
  <1>1. ASSUME NEW s \in Students, ApplyLeave(s) PROVE AsAnswered'
    BY <1>1 DEF ApplyLeave, ApprovalsTypeOK, AsAnswered, LeaveOps
  <1>2. ASSUME NEW c \in Calls, LeaveCommits(c) PROVE AsAnswered'
    <2> DEFINE s == call[c].who  op == call[c].op
    <2>1. s \in Students /\ op \in LeaveOps
      BY <1>2 DEF LeaveCommits, ApprovalsTypeOK
    <2>2. /\ leave'[s] = op /\ told'[s] = told[s] \union {op}
          /\ \A u \in Students : u # s => leave'[u] = leave[u] /\ told'[u] = told[u] /\ mark'[u] = mark[u]
          /\ mark'[s] = "excused" => mark[s] = "excused" \/ op = "approved"
      BY <1>2, <2>1 DEF LeaveCommits, ApprovalsTypeOK
    <2> HIDE DEF s, op
    <2> QED  BY <2>1, <2>2 DEF AsAnswered
  <1>3. ASSUME UNCHANGED <<leave, told>>, \A u \in Students : mark'[u] = "excused" => mark[u] = "excused"
        PROVE  AsAnswered'
    BY <1>3 DEF AsAnswered
  <1>4. ASSUME NEW c \in Calls, DisputeCounts(c) \/ DisputeResolved(c) \/ DisputeRefused(c) PROVE AsAnswered'
    BY <1>3, <1>4 DEF DisputeCounts, DisputeResolved, DisputeRefused, ApprovalsTypeOK
  <1>5. ASSUME NEW c \in Calls, NEW s \in Students,
               FilingReads(c, s) \/ \E op \in LeaveOps : LeaveReads(c, s, op)
        PROVE  AsAnswered'
    BY <1>3, <1>5 DEF FilingReads, LeaveReads
  <1>6. ASSUME NEW c \in Calls, NEW d \in DisputeIds,
               FilingCommits(c, d) \/ \E op \in {"resolve", "refuse"} : DisputeReads(c, d, op)
        PROVE  AsAnswered'
    BY <1>3, <1>6 DEF FilingCommits, DisputeReads
  <1>7. CASE UNCHANGED approvalVars
    BY <1>3, <1>7 DEF approvalVars
  <1> QED  BY <1>1, <1>2, <1>4, <1>5, <1>6, <1>7 DEF ApprovalsNext

\* However decisions race, a leave has the status of one that was answered and a
\* record is excused only if an approval was; when no two decisions of one leave
\* were made at the same time, it is decided once and the record keeps its leave.
THEOREM DecisionsStand == ApprovalsSpec => []DecisionStands
  <1>1. ApprovalsInit => AsAnswered
    BY DEF ApprovalsInit, AsAnswered, LeaveOps
  <1>2. ASSUME DInv, AsAnswered PROVE DecisionStands
    <2> SUFFICES ASSUME ~overlap, NEW s \in Students
                 PROVE  Cardinality(told[s]) <= 1 /\ (mark[s] = "excused" => leave[s] = "approved")
      BY <1>2 DEF DecisionStands, AsAnswered
    <2>1. Cardinality({}) = 0 /\ Cardinality({leave[s]}) = 1
      BY FS_EmptySet, FS_Singleton
    <2>2. told[s] = {} \/ told[s] = {leave[s]}
      BY <1>2 DEF DInv, DecidedAsAnswered
    <2>3. Cardinality(told[s]) <= 1
      BY <2>1, <2>2
    <2> QED  BY <1>2, <2>3 DEF DInv, DecidedAsAnswered
  <1> QED  BY <1>1, <1>2, AsAnsweredStep, DecisionStart, DecisionStep, ApprovalsTypes, PTL DEF ApprovalsSpec

LEMMA DecisionClaims ==
  ApprovalsTypeOK /\ DInv /\ ~overlap /\ [ApprovalsNext]_approvalVars => [Decisions!Next]_Decision
  <1> SUFFICES ASSUME ApprovalsTypeOK, DInv, ~overlap, [ApprovalsNext]_approvalVars, Decision' # Decision
               PROVE  Decisions!Next
    OBVIOUS
  <1>1. leave' # leave
    BY DEF Decision
  <1>2. ASSUME NEW s \in Students, ApplyLeave(s) PROVE Decision' = Decision
    BY <1>2 DEF ApplyLeave, ApprovalsTypeOK, Decision, LeaveOps
  <1>3. ASSUME NEW c \in Calls, LeaveCommits(c) PROVE Decisions!Next
    <2> DEFINE s == call[c].who  op == call[c].op
    <2>1. /\ s \in Students /\ op \in LeaveOps /\ leave[s] = "pending"
          /\ leave' = [leave EXCEPT ![s] = op]
      BY <1>3 DEF LeaveCommits, ApprovalsTypeOK, DInv, Undecided
    <2> HIDE DEF s, op
    <2>2. Decision[s] = "open" /\ Decision' = [Decision EXCEPT ![s] = op]
      BY <2>1 DEF ApprovalsTypeOK, Decision, LeaveOps
    <2> QED  BY <2>1, <2>2 DEF Decisions!Next, Decisions!Claim
  <1> QED  BY <1>1, <1>2, <1>3
           DEF ApprovalsNext, approvalVars, FilingReads, FilingCommits, LeaveReads, DisputeReads,
               DisputeCounts, DisputeResolved, DisputeRefused

\* A leave that was approved, rejected or cancelled is never decided again, when no
\* two decisions of one leave are made at the same time: each is claimed once.
THEOREM LeaveDecidedOnce == ApprovalsSpec /\ []~overlap => Decisions!Spec
  <1>1. ApprovalsInit => Decisions!Init
    BY DEF ApprovalsInit, Decisions!Init, Decision, LeaveOps
  <1> QED  BY <1>1, DecisionStart, DecisionStep, DecisionClaims, ApprovalsTypes, PTL
           DEF ApprovalsSpec, Decisions!Spec

-----------------------------------------------------------------------------
(* The recount *)

\* Nothing counts more than the records, at any time.
CountsBelow ==
  /\ present_count <= Present
  /\ \A c \in Calls : call[c].op = "counted" => call[c].counted <= Present

OneResolver ==
  \A c, d \in Calls : call[c].op \in DisputeOps /\ call[d].op \in DisputeOps => c = d

Fresh ==
  \A c \in Calls :
    /\ call[c].op \in DisputeOps => call[c].had = present_count
    /\ call[c].op = "counted" => call[c].counted = Present

NearlyCounted == OneResolver /\ Fresh /\ Present - present_count <= 1

RecountInv == CountsBelow /\ (~overlap => NearlyCounted)

LEMMA RecountStep == ApprovalsTypeOK /\ RecountInv /\ [ApprovalsNext]_approvalVars => RecountInv'
  <1> SUFFICES ASSUME ApprovalsTypeOK, RecountInv, [ApprovalsNext]_approvalVars PROVE RecountInv'
    OBVIOUS
  <1>t. /\ call \in [Calls -> CallState] /\ overlap \in BOOLEAN
        /\ present_count \in Nat /\ Present \in Nat
    BY AttendeesFinite DEF ApprovalsTypeOK, CallState
  <1>n. \A c \in Calls : call[c].had \in Nat /\ call[c].counted \in Nat /\ call[c].who \in Students
    BY <1>t DEF CallState
  <1>1. CASE UNCHANGED approvalVars
    BY <1>1 DEF approvalVars, RecountInv, CountsBelow, NearlyCounted, OneResolver, Fresh, Present, Attendees
  <1>2. ASSUME NEW s \in Students, ApplyLeave(s) PROVE RecountInv'
    BY <1>2 DEF ApplyLeave, RecountInv, CountsBelow, NearlyCounted, OneResolver, Fresh, Present, Attendees
  <1>3. ASSUME NEW c \in Calls, NEW d \in DisputeIds, NEW op \in {"resolve", "refuse"},
               DisputeReads(c, d, op)
        PROVE  RecountInv'
    <2> DEFINE s == dispute[d].who
    <2>1. /\ call'[c].op = op /\ call'[c].had = present_count /\ op # "counted"
          /\ \A e \in Calls : e # c => call'[e] = call[e]
      BY <1>3, <1>t DEF DisputeReads
    <2>2. Present' = Present /\ present_count' = present_count
      BY <1>3 DEF DisputeReads, Present, Attendees
    <2>3. CountsBelow'
      BY <2>1, <2>2 DEF RecountInv, CountsBelow
    <2>4. ASSUME ~overlap' PROVE NearlyCounted'
      <3>1. NearlyCounted /\ \A e \in Calls : ~Meet(call[e], s, op)
        BY <1>3, <2>4 DEF DisputeReads, RecountInv
      <3>2. op \in DisputeOps /\ \A e \in Calls : call[e].op \notin DisputeOps
        <4>1. op \in DisputeOps
          BY DEF DisputeOps
        <4> QED  BY <3>1, <4>1, OpFacts DEF Meet
      <3>3. OneResolver'
        BY <2>1, <3>1, <3>2 DEF NearlyCounted, OneResolver
      <3>4. Fresh'
        BY <2>1, <2>2, <3>1 DEF NearlyCounted, Fresh
      <3> QED  BY <2>2, <3>1, <3>3, <3>4 DEF NearlyCounted
    <2> QED  BY <2>3, <2>4 DEF RecountInv
  <1>7. ASSUME NEW c \in Calls,
               \/ \E s \in Students : FilingReads(c, s) \/ \E op \in LeaveOps : LeaveReads(c, s, op)
               \/ \E d \in DisputeIds : FilingCommits(c, d)
        PROVE  RecountInv'
    <2>1. Present' = Present /\ present_count' = present_count /\ (~overlap' => ~overlap)
      BY <1>7, <1>t DEF FilingReads, FilingCommits, LeaveReads, Present, Attendees
    <2>2. /\ call'[c].op \notin DisputeOps /\ call'[c].op # "counted"
          /\ \A e \in Calls : e # c => call'[e] = call[e]
      <3> DEFINE Moves == /\ call'[c].op \in {"file", "none"} \union LeaveOps
                          /\ \A e \in Calls : e # c => call'[e] = call[e]
      <3>1. ASSUME NEW s \in Students, FilingReads(c, s) PROVE Moves
        BY <1>t, <3>1, BeginFields DEF FilingReads
      <3>2. ASSUME NEW s \in Students, NEW op \in LeaveOps, LeaveReads(c, s, op) PROVE Moves
        BY <1>t, <3>2, BeginFields DEF LeaveReads
      <3>3. ASSUME NEW d \in DisputeIds, FilingCommits(c, d) PROVE Moves
        BY <1>t, <3>3, IdleType DEF FilingCommits
      <3>4. Moves
        BY <1>7, <3>1, <3>2, <3>3
      <3> QED  BY <3>4, OpFacts DEF DisputeOps
    <2> QED  BY <2>1, <2>2 DEF RecountInv, CountsBelow, NearlyCounted, OneResolver, Fresh
  <1>4. ASSUME NEW c \in Calls, LeaveCommits(c) \/ DisputeRefused(c) PROVE RecountInv'
    <2>1. Attendees' = Attendees
      <3>1. \A s \in Students : mark'[s] = "present" <=> mark[s] = "present"
        BY <1>4, <1>n DEF LeaveCommits, DisputeRefused, ApprovalsTypeOK
      <3> QED  BY <3>1 DEF Attendees
    <2>2. Present' = Present /\ present_count' = present_count /\ overlap' = overlap
      BY <1>4, <2>1 DEF LeaveCommits, DisputeRefused, Present
    <2>3. call'[c].op = "none" /\ \A d \in Calls : d # c => call'[d] = call[d]
      BY <1>4, <1>t, IdleType DEF LeaveCommits, DisputeRefused
    <2>4. "none" \notin DisputeOps /\ "none" # "counted"
      BY OpFacts DEF DisputeOps
    <2> QED  BY <2>2, <2>3, <2>4 DEF RecountInv, CountsBelow, NearlyCounted, OneResolver, Fresh
  <1>5. ASSUME NEW c \in Calls, DisputeCounts(c) PROVE RecountInv'
    <2>1. Present' = Present /\ present_count' = present_count /\ overlap' = overlap
      BY <1>5 DEF DisputeCounts, Present, Attendees
    <2>2. /\ call[c].op = "resolve" /\ call'[c].op = "counted"
          /\ call'[c].counted = Present /\ call'[c].had = call[c].had
          /\ \A d \in Calls : d # c => call'[d] = call[d]
      BY <1>5, <1>t DEF DisputeCounts, Recount, Present, CallState
    <2>3. call[c].op \in DisputeOps /\ call'[c].op \in DisputeOps
      BY <2>2 DEF DisputeOps
    <2>4. CountsBelow'
      BY <1>t, <2>1, <2>2 DEF RecountInv, CountsBelow
    <2>5. ASSUME NearlyCounted PROVE NearlyCounted'
      <3>1. OneResolver'
        BY <2>2, <2>3, <2>5 DEF NearlyCounted, OneResolver
      <3>2. Fresh'
        BY <2>1, <2>2, <2>3, <2>5 DEF NearlyCounted, Fresh
      <3> QED  BY <2>1, <2>5, <3>1, <3>2 DEF NearlyCounted
    <2> QED  BY <2>1, <2>4, <2>5 DEF RecountInv
  <1>6. ASSUME NEW c \in Calls, DisputeResolved(c) PROVE RecountInv'
    <2> DEFINE s == call[c].who
    <2>1. Attendees' = Attendees \union {s}
      BY <1>6, <1>n DEF DisputeResolved, Attendees, ApprovalsTypeOK
    <2>2. Present' \in Nat /\ Present <= Present' /\ Present' <= Present + 1
      <3>1. Cardinality(Attendees \union {s}) = IF s \in Attendees THEN Present ELSE Present + 1
        BY AttendeesFinite, FS_AddElement DEF Present
      <3>2. Present' = Cardinality(Attendees \union {s})
        BY <2>1 DEF Present
      <3> QED  BY <1>t, <3>1, <3>2
    <2>3. call'[c].op = "none" /\ \A d \in Calls : d # c => call'[d] = call[d]
      BY <1>6, <1>t, IdleType DEF DisputeResolved
    <2>4. call[c].op = "counted" /\ call[c].op \in DisputeOps /\ "none" \notin DisputeOps
      BY <1>6, OpFacts DEF DisputeResolved, DisputeOps
    <2>5. /\ overlap' = overlap
          /\ present_count' = IF call[c].counted = call[c].had THEN present_count ELSE call[c].counted
      BY <1>6 DEF DisputeResolved
    <2> HIDE DEF s
    <2>6. CountsBelow'
      <3>1. present_count' <= Present'
        BY <1>t, <1>n, <2>2, <2>4, <2>5 DEF RecountInv, CountsBelow
      <3>2. ASSUME NEW d \in Calls, call'[d].op = "counted" PROVE call'[d].counted <= Present'
        BY <1>t, <1>n, <2>2, <2>3, <3>2 DEF RecountInv, CountsBelow
      <3> QED  BY <3>1, <3>2 DEF CountsBelow
    <2>7. ASSUME NearlyCounted PROVE NearlyCounted'
      <3>1. present_count' = Present
        BY <1>t, <1>n, <2>4, <2>5, <2>7 DEF NearlyCounted, Fresh
      <3>2. \A d \in Calls : call'[d].op \notin DisputeOps
        BY <2>3, <2>4, <2>7 DEF NearlyCounted, OneResolver
      <3>3. OneResolver' /\ Fresh'
        BY <3>2 DEF OneResolver, Fresh, DisputeOps
      <3>4. Present' - present_count' <= 1
        <4> DEFINE old == Present  new == Present'  count == present_count'
        <4>1. old \in Nat /\ new \in Nat /\ new <= old + 1 /\ count = old
          BY <1>t, <2>2, <3>1
        <4> HIDE DEF old, new, count
        <4>2. new - count <= 1
          BY <4>1
        <4> QED  BY <4>2 DEF new, count
      <3> QED  BY <3>3, <3>4 DEF NearlyCounted
    <2> QED  BY <2>5, <2>6, <2>7 DEF RecountInv
  <1> QED  BY <1>1, <1>2, <1>3, <1>4, <1>5, <1>6, <1>7 DEF ApprovalsNext

\* present_count never exceeds the records, and stays within the one record that
\* the last recount did not see, when no two disputes were resolved at once.
THEOREM RecountLag == ApprovalsSpec => []RecountMissesItself
  <1>1. ASSUME ApprovalsInit PROVE RecountInv
    <2>1. Attendees = {} /\ present_count = 0 /\ \A c \in Calls : call[c].op = "none"
      BY <1>1, IdleType DEF ApprovalsInit, Attendees
    <2>2. Present = 0
      BY <2>1, FS_EmptySet DEF Present
    <2>3. \A c \in Calls : call[c].op \notin DisputeOps
      BY <2>1, OpFacts
    <2>4. CountsBelow
      BY <2>1, <2>2 DEF CountsBelow
    <2>5. OneResolver /\ Fresh
      BY <2>3 DEF OneResolver, Fresh, DisputeOps
    <2> QED  BY <2>1, <2>2, <2>4, <2>5 DEF RecountInv, NearlyCounted
  <1>2. RecountInv => RecountMissesItself
    BY DEF RecountInv, CountsBelow, NearlyCounted, RecountMissesItself, Present
  <1> QED  BY <1>1, <1>2, RecountStep, ApprovalsTypes, PTL DEF ApprovalsSpec
=============================================================================

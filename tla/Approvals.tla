----------------------------- MODULE Approvals -----------------------------
(***************************************************************************)
(* Leave requests and attendance disputes about one past session.  Every   *)
(* call reads its row, checks that it is pending, and commits later; no    *)
(* row is locked, and SessionLocal does not flush before a query.          *)
(***************************************************************************)
EXTENDS Integers, FiniteSets

CONSTANTS
  Students,
  Calls,         \* requests the server works on at once
  MaxDisputes    \* bound: rows of the disputes table

ASSUME ApprovalsAssumption ==
  Students # {} /\ IsFiniteSet(Students) /\ MaxDisputes \in Nat

VARIABLES
  leave,         \* status of the leave request of each student
  dispute,       \* the rows of the disputes about the session: [who, st]
  mark,          \* the student's attendance record of the session
  present_count, \* of the session
  call,          \* per call: [op, who, row, had, counted]; had = the count it loaded
  told,          \* the leave decisions that were answered with ok
  overlap        \* two calls about one leave, or two recounts, ran at once

approvalVars == <<leave, dispute, mark, present_count, call, told, overlap>>

Somebody == CHOOSE s \in Students : TRUE
Idle == [op |-> "none", who |-> Somebody, row |-> 0, had |-> 0, counted |-> 0]
DisputeIds == 1..MaxDisputes
LeaveOps == {"approved", "rejected", "cancelled"}
DisputeOps == {"resolve", "refuse", "counted"}

\* Types of the variables.
ApprovalsTypeOK ==
  /\ leave \in [Students -> {"none", "pending"} \union LeaveOps]
  /\ dispute \in [DisputeIds -> [who : Students, st : {"none", "pending", "resolved", "rejected"}]]
  /\ mark \in [Students -> {"absent", "present", "excused"}]
  /\ present_count \in Nat
  /\ call \in [Calls -> [op : {"none", "file"} \union LeaveOps \union DisputeOps,
                         who : Students, row : 0..MaxDisputes, had : Nat, counted : Nat]]
  /\ told \in [Students -> SUBSET LeaveOps]
  /\ overlap \in BOOLEAN

ApprovalsInit ==
  /\ leave = [s \in Students |-> "none"]
  /\ dispute = [d \in DisputeIds |-> [who |-> Somebody, st |-> "none"]]
  /\ mark = [s \in Students |-> "absent"]
  /\ present_count = 0
  /\ call = [c \in Calls |-> Idle]
  /\ told = [s \in Students |-> {}]
  /\ overlap = FALSE

Attendees == {s \in Students : mark[s] = "present"}

\* The leave that is followed, over the session's date.
ApplyLeave(s) ==
  /\ leave[s] = "none"
  /\ leave' = [leave EXCEPT ![s] = "pending"]
  /\ UNCHANGED <<dispute, mark, present_count, call, told, overlap>>

\* A dispute needs an absent record and no other pending dispute of the student.
FilingReads(c, s) ==
  /\ call[c] = Idle
  /\ mark[s] = "absent"
  /\ ~\E d \in DisputeIds : dispute[d] = [who |-> s, st |-> "pending"]
  /\ call' = [call EXCEPT ![c] = [Idle EXCEPT !.op = "file", !.who = s]]
  /\ UNCHANGED <<leave, dispute, mark, present_count, told, overlap>>

\* No constraint of the table keeps a second pending dispute out.
FilingCommits(c, d) ==
  /\ call[c].op = "file"
  /\ dispute[d].st = "none" /\ \A e \in 1..(d - 1) : dispute[e].st # "none"
  /\ dispute' = [dispute EXCEPT ![d] = [who |-> call[c].who, st |-> "pending"]]
  /\ call' = [call EXCEPT ![c] = Idle]
  /\ UNCHANGED <<leave, mark, present_count, told, overlap>>

Rivals(op) == IF op \in LeaveOps THEN LeaveOps ELSE DisputeOps

\* A call in flight about the same leave, or about any dispute of the session.
Meet(other, s, op) == other.op \in Rivals(op) /\ (op \in LeaveOps => other.who = s)

\* Mutant of LeaveReads: the status of the row is not checked.
LeaveReadsAny(c, s, op) ==
  /\ call[c] = Idle
  /\ call' = [call EXCEPT ![c] = [Idle EXCEPT !.op = op, !.who = s]]
  /\ overlap' = (overlap \/ \E d \in Calls : Meet(call[d], s, op))
  /\ UNCHANGED <<leave, dispute, mark, present_count, told>>

\* The leave is read and found pending by the tutor or HOD, or by the student.
LeaveReads(c, s, op) ==
  /\ call[c] = Idle
  /\ leave[s] = "pending"
  /\ call' = [call EXCEPT ![c] = [Idle EXCEPT !.op = op, !.who = s]]
  /\ overlap' = (overlap \/ \E d \in Calls : Meet(call[d], s, op))
  /\ UNCHANGED <<leave, dispute, mark, present_count, told>>

\* A dispute is read and found pending, and its session loaded with the count.
DisputeReads(c, d, op) ==
  /\ call[c] = Idle
  /\ dispute[d].st = "pending"
  /\ call' = [call EXCEPT ![c] = [op |-> op, who |-> dispute[d].who, row |-> d,
                                  had |-> present_count, counted |-> 0]]
  /\ overlap' = (overlap \/ \E e \in Calls : Meet(call[e], dispute[d].who, op))
  /\ UNCHANGED <<leave, dispute, mark, present_count, told>>

\* approve_leave excuses the absent record in the same transaction, for the types
\* of leave that excuse; what the row says by now is not looked at again.
LeaveCommits(c) ==
  LET s == call[c].who  op == call[c].op IN
  /\ op \in LeaveOps
  /\ leave' = [leave EXCEPT ![s] = op]
  /\ \/ op = "approved" /\ mark[s] = "absent" /\ mark' = [mark EXCEPT ![s] = "excused"]
     \/ UNCHANGED mark
  /\ told' = [told EXCEPT ![s] = @ \union {op}]
  /\ call' = [call EXCEPT ![c] = Idle]
  /\ UNCHANGED <<dispute, present_count, overlap>>

\* Mutant of Recount: the count is incremented instead of read again.
RecountBump == present_count + 1

\* The recount reads the table before the record's own change is written.
Recount == Cardinality(Attendees)

DisputeCounts(c) ==
  /\ call[c].op = "resolve"
  /\ call' = [call EXCEPT ![c].op = "counted", ![c].counted = Recount]
  /\ UNCHANGED <<leave, dispute, mark, present_count, told, overlap>>

\* A count equal to the loaded one is not written.
DisputeResolved(c) ==
  /\ call[c].op = "counted"
  /\ dispute' = [dispute EXCEPT ![call[c].row].st = "resolved"]
  /\ mark' = [mark EXCEPT ![call[c].who] = "present"]
  /\ present_count' = IF call[c].counted = call[c].had THEN present_count ELSE call[c].counted
  /\ call' = [call EXCEPT ![c] = Idle]
  /\ UNCHANGED <<leave, told, overlap>>

DisputeRefused(c) ==
  /\ call[c].op = "refuse"
  /\ dispute' = [dispute EXCEPT ![call[c].row].st = "rejected"]
  /\ call' = [call EXCEPT ![c] = Idle]
  /\ UNCHANGED <<leave, mark, present_count, told, overlap>>

ApprovalsNext ==
  \/ \E s \in Students : ApplyLeave(s)
  \/ \E c \in Calls :
       \/ \E s \in Students : FilingReads(c, s) \/ \E op \in LeaveOps : LeaveReads(c, s, op)
       \/ \E d \in DisputeIds :
            FilingCommits(c, d) \/ \E op \in {"resolve", "refuse"} : DisputeReads(c, d, op)
       \/ LeaveCommits(c) \/ DisputeCounts(c) \/ DisputeResolved(c) \/ DisputeRefused(c)

\* However decisions race, the leave has the status of one that was answered, and a
\* record is excused only if an approval was; and unless two were being made at the
\* same time, a leave is decided once and the excused record keeps its leave.
DecisionStands ==
  \A s \in Students :
    /\ IF leave[s] \in LeaveOps THEN leave[s] \in told[s] ELSE told[s] = {}
    /\ mark[s] = "excused" => "approved" \in told[s]
    /\ ~overlap => /\ Cardinality(told[s]) <= 1
                   /\ mark[s] = "excused" => leave[s] = "approved"

\* The recount of resolve_dispute misses the record it resolves and nothing
\* else, unless two disputes were resolved at the same time: the count is
\* never above the records, and never more than one below.
RecountMissesItself ==
  /\ present_count <= Cardinality(Attendees)
  /\ ~overlap => Cardinality(Attendees) - present_count <= 1

ApprovalsSpec == ApprovalsInit /\ [][ApprovalsNext]_approvalVars

\* A leave as an item that one decision claims for good.
Decision == [s \in Students |-> IF leave[s] \in LeaveOps THEN leave[s] ELSE "open"]
Decisions == INSTANCE SingleUse WITH
  Items <- Students, Claimants <- LeaveOps, Nobody <- "open", claimedBy <- Decision
=============================================================================

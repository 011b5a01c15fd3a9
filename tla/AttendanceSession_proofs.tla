---------------------- MODULE AttendanceSession_proofs ----------------------
(***************************************************************************)
(* Proofs about AttendanceSession, for any sets of students, requests,     *)
(* calls and tokens and any values of the bounds.                          *)
(***************************************************************************)
EXTENDS AttendanceSession, FiniteSetTheorems, TLAPS

LEMMA NumPresentNat == NumPresent \in Nat
  <1>1. IsFiniteSet(PresentStudents)
    BY ConstantsAssumption, FS_Subset DEF PresentStudents
  <1> QED  BY <1>1, FS_CardinalityType DEF NumPresent

\* Who a request is for and what it has done so far, by where it stands
ReqOK ==
    \A r \in Requests :
        /\ req[r].pc = "idle" => req[r].checks = {} /\ req[r].answer = "none"
        /\ req[r].pc # "idle" => req[r].student \in Students
        /\ req[r].pc \notin {"idle", "done"} =>
             req[r].face \in FaceTokens /\ req[r].answer = "none"
        /\ req[r].pc = "face" => req[r].checks = {}

TInv == TypeOK /\ ReqOK

LEMMA TInit == Init => TInv
  BY ConstantsAssumption DEF Init, TInv, TypeOK, ReqOK, Status, Final, DefaultAbsent,
     NoRecord, NoToken, IdleReq, IdleCall, IdleJob, Slots, Age, RecordRow, SessionRow, TokenRow,
     ReqState, CallState, JobState

Answers == {"closed", "already", "device", "failed", "present", "flush_failed",
            "conflict", "died"}

LEMMA AnsweredOK ==
    ASSUME req \in [Requests -> ReqState], ReqOK, NEW r \in Requests,
           req[r].pc # "idle", NEW a \in Answers, Answered(r, a)
    PROVE  req' \in [Requests -> ReqState] /\ ReqOK'
  <1> DEFINE q == [req[r] EXCEPT !.pc = "done", !.answer = a]
  <1>1. req' = [req EXCEPT ![r] = q]
    BY DEF Answered
  <1>2. q \in ReqState
    BY DEF Answers, ReqState
  <1>3. req' \in [Requests -> ReqState]
    BY <1>1, <1>2
  <1>4. ReqOK'
    BY <1>1, <1>3 DEF ReqOK, ReqState
  <1> QED  BY <1>3, <1>4

LEMMA PassesOK ==
    ASSUME req \in [Requests -> ReqState], ReqOK, NEW r \in Requests,
           req[r].pc \notin {"idle", "done"},
           NEW check \in {"face", "qr", "gps"}, NEW next \in {"qr", "gps", "snapshot", "commit"},
           Passes(r, check, next)
    PROVE  req' \in [Requests -> ReqState] /\ ReqOK'
  <1> DEFINE q == [req[r] EXCEPT !.pc = next, !.checks = req[r].checks \cup {check}]
  <1>1. req' = [req EXCEPT ![r] = q]
    BY DEF Passes
  <1>2. q \in ReqState
    BY DEF ReqState
  <1>3. req' \in [Requests -> ReqState]
    BY <1>1, <1>2
  <1>4. ReqOK'
    BY <1>1, <1>3 DEF ReqOK, ReqState
  <1> QED  BY <1>3, <1>4

LEMMA TurnedType ==
    ASSUME NEW q \in ReqState, NEW s \in Students, NEW a \in Answers
    PROVE  [q EXCEPT !.pc = "done", !.student = s, !.answer = a] \in ReqState
  BY DEF ReqState, Answers

LEMMA BegunType ==
    ASSUME NEW q \in ReqState, NEW s \in Students, NEW f \in FaceTokens,
           NEW k \in Slots, NEW b \in BOOLEAN
    PROVE  [q EXCEPT !.pc = "face", !.student = s, !.face = f, !.slot = k,
                     !.found = b] \in ReqState
  BY DEF ReqState

LEMMA LoadedType ==
    ASSUME NEW q \in CallState, NEW n \in Nat
    PROVE  [q EXCEPT !.pc = "loaded", !.op = "end", !.count = n] \in CallState
  BY DEF CallState

LEMMA CountedType ==
    ASSUME NEW q \in CallState, NEW n \in Nat
    PROVE  [q EXCEPT !.pc = "counted", !.present = n] \in CallState
  BY DEF CallState

LEMMA MovedOK ==
    ASSUME req \in [Requests -> ReqState], ReqOK, NEW r \in Requests,
           req[r].pc \notin {"idle", "face", "done"}, NEW next \in {"insert", "commit"},
           req' = [req EXCEPT ![r].pc = next]
    PROVE  req' \in [Requests -> ReqState] /\ ReqOK'
  <1> DEFINE q == [req[r] EXCEPT !.pc = next]
  <1>1. req' = [req EXCEPT ![r] = q]
    OBVIOUS
  <1>2. q \in ReqState
    BY DEF ReqState
  <1>3. req' \in [Requests -> ReqState]
    BY <1>1, <1>2
  <1>4. ReqOK'
    BY <1>1, <1>3 DEF ReqOK, ReqState
  <1> QED  BY <1>3, <1>4

LEMMA TStep == TInv /\ [Next]_vars => TInv'
  <1> SUFFICES ASSUME TInv, [Next]_vars PROVE TInv'
    OBVIOUS
  <1> USE DEF TInv, TypeOK, book, tokens, clock, snapshot, log, staff
  <1>1. CASE Tick
    BY <1>1, ConstantsAssumption DEF Tick, ReqOK, Slots
  <1>2. CASE GrowOld
    BY <1>2, ConstantsAssumption DEF GrowOld, ReqOK, Age
  <1>3. CASE ShowQr
    BY <1>3 DEF ShowQr, ReqOK
  <1>4. CASE CleanupTokens
    BY <1>4 DEF CleanupTokens, Purged, ReqOK, TokenRow
  <1>5. ASSUME NEW s \in Students, NEW f \in FaceTokens, VerifyBegins(s, f) PROVE TInv'
    BY <1>5 DEF VerifyBegins, ReqOK, TokenRow
  <1>6. ASSUME NEW f \in FaceTokens, FaceRejected(f) \/ VerifyDies(f) PROVE TInv'
    BY <1>6 DEF FaceRejected, VerifyDies, NoToken, ReqOK, TokenRow
  <1>7. ASSUME NEW f \in FaceTokens, FaceVerified(f) \/ FaceExpires(f) PROVE TInv'
    BY <1>7 DEF FaceVerified, FaceExpires, ReqOK, TokenRow
  <1>8. ASSUME NEW r \in Requests, NEW s \in Students, TurnedAway(r, s) PROVE TInv'
    <2>1. PICK a \in Answers :
            req' = [req EXCEPT ![r] =
                      [@ EXCEPT !.pc = "done", !.student = s, !.answer = a]]
      BY <1>8 DEF TurnedAway, Answers
    <2>2. [req[r] EXCEPT !.pc = "done", !.student = s, !.answer = a] \in ReqState
      BY TurnedType
    <2>3. req' \in [Requests -> ReqState]
      BY <2>1, <2>2
    <2>4. ReqOK'
      BY <2>1, <2>3 DEF ReqOK, ReqState
    <2> QED  BY <1>8, <2>3, <2>4 DEF TurnedAway
  <1>9. ASSUME NEW r \in Requests, NEW s \in Students, NEW f \in FaceTokens,
               NEW k \in Slots, MarkBegins(r, s, f, k) PROVE TInv'
    <2> DEFINE found == record[s].status # "none"
               q == [req[r] EXCEPT !.pc = "face", !.student = s, !.face = f,
                                   !.slot = k, !.found = found]
    <2>1. req' = [req EXCEPT ![r] = q] /\ req[r].pc = "idle"
      BY <1>9 DEF MarkBegins
    <2>2. q \in ReqState
      <3>1. found \in BOOLEAN
        OBVIOUS
      <3> HIDE DEF found
      <3> QED  BY <3>1, BegunType
    <2>3. req' \in [Requests -> ReqState]
      BY <2>1, <2>2
    <2>4. ReqOK'
      BY <2>1, <2>3 DEF ReqOK, ReqState
    <2> QED  BY <1>9, <2>3, <2>4 DEF MarkBegins
  <1>10. ASSUME NEW r \in Requests, MarkStep(r) PROVE TInv'
    <2>1. CASE FaceTokenConsumed(r)
      BY <2>1, PassesOK DEF FaceTokenConsumed, TokenRow
    <2>2. CASE FaceTokenRefused(r)
      BY <2>2, AnsweredOK DEF FaceTokenRefused, Answers
    <2>3. CASE QrConsumed(r)
      BY <2>3, PassesOK DEF QrConsumed, ReqState
    <2>4. CASE QrRefused(r)
      BY <2>4, AnsweredOK DEF QrRefused, Refused, Answers
    <2>5. CASE GpsPassed(r)
      BY <2>5, PassesOK DEF GpsPassed
    <2>6. CASE GpsRefused(r)
      BY <2>6, AnsweredOK DEF GpsRefused, Refused, Answers
    <2>11. CASE SnapshotLocked(r)
      <3>1. req[r].student \in Students
        BY <2>11 DEF SnapshotLocked, ReqOK
      <3>2. PICK next \in {"insert", "commit"} : req' = [req EXCEPT ![r].pc = next]
        BY <2>11 DEF SnapshotLocked
      <3>3. req' \in [Requests -> ReqState] /\ ReqOK'
        BY <2>11, <3>2, MovedOK DEF SnapshotLocked
      <3> QED  BY <2>11, <3>1, <3>3 DEF SnapshotLocked
    <2>7. CASE SnapshotInserted(r)
      <3>1. CASE req[r].student \in snap
        BY <2>7, <3>1, AnsweredOK DEF SnapshotInserted, Answers
      <3>2. CASE req[r].student \notin snap
        <4>1. req' = [req EXCEPT ![r].pc = "commit"] /\ req[r].pc = "insert"
          BY <2>7, <3>2 DEF SnapshotInserted
        <4>2. req' \in [Requests -> ReqState] /\ ReqOK'
          BY <4>1, MovedOK
        <4> QED  BY <2>7, <3>2, <4>2 DEF SnapshotInserted, ReqOK
      <3> QED  BY <3>1, <3>2
    <2>8. CASE BleRefused(r)
      <3>1. req' \in [Requests -> ReqState] /\ ReqOK'
        BY <2>8, AnsweredOK DEF BleRefused, Refused, Answers
      <3> QED
        BY <2>8, <3>1 DEF BleRefused, SnapshotWith, Unlocked, Refused, ReqOK
    <2>9. CASE Marked(r)
      <3>1. req' \in [Requests -> ReqState] /\ ReqOK'
        BY <2>9, AnsweredOK DEF Marked, Answers
      <3>2. record' \in [Students -> RecordRow] /\ session' \in SessionRow
        <4>1. [status |-> "present", by |-> "qr_scan"] \in RecordRow
          BY DEF RecordRow, Status, Final
        <4>2. record' \in [Students -> RecordRow]
          BY <2>9, <4>1 DEF Marked, Scanned
        <4>3. session' \in SessionRow
          BY <2>9 DEF Marked, CountAfterScan, SessionRow
        <4> QED  BY <4>2, <4>3
      <3>3. snap' \subseteq Students /\ snapLock' \in [Students -> Requests \cup {NoOne}]
        BY <2>9 DEF Marked, SnapshotWith, Unlocked, ReqOK
      <3> QED  BY <2>9, <3>1, <3>2, <3>3 DEF Marked
    <2>10. CASE MarkConflicts(r)
      BY <2>10, AnsweredOK DEF MarkConflicts, Unlocked, Answers
    <2> QED  BY <1>10, <2>1, <2>2, <2>3, <2>4, <2>5, <2>6, <2>7, <2>8, <2>9, <2>10, <2>11 DEF MarkStep
  <1>11. ASSUME NEW r \in Requests, MarkDies(r) PROVE TInv'
    BY <1>11, AnsweredOK DEF MarkDies, Unlocked, Answers
  <1>12. ASSUME NEW c \in Calls, EndLoads(c) PROVE TInv'
    <2> DEFINE q == [call[c] EXCEPT !.pc = "loaded", !.op = "end", !.count = session.count]
    <2>1. q \in CallState
      <3>1. call[c] \in CallState /\ session.count \in Nat
        BY DEF SessionRow
      <3> QED  BY <3>1, LoadedType
    <2>2. call' = [call EXCEPT ![c] = q]
      BY <1>12 DEF EndLoads
    <2>3. call' \in [Calls -> CallState]
      BY <2>1, <2>2
    <2> QED  BY <1>12, <2>3 DEF EndLoads, ReqOK
  <1>13. ASSUME NEW c \in Calls, CallCounts(c) PROVE TInv'
    <2> DEFINE q == [call[c] EXCEPT !.pc = "counted", !.present = NumPresent]
    <2>1. q \in CallState
      BY NumPresentNat, CountedType
    <2>2. call' = [call EXCEPT ![c] = q]
      BY <1>13 DEF CallCounts
    <2>3. call' \in [Calls -> CallState]
      BY <2>1, <2>2
    <2> QED  BY <1>13, <2>3 DEF CallCounts, ReqOK
  <1>14. ASSUME NEW c \in Calls, EndCommits(c) PROVE TInv'
    BY <1>14 DEF EndCommits, CountWritten, ReqOK, CallState, SessionRow
  <1>15. ASSUME NEW c \in Calls, OverrideCommits(c) PROVE TInv'
    <2>1. call' \in [Calls -> CallState]
      BY <1>15 DEF OverrideCommits, CallState
    <2>2. session' \in SessionRow
      BY <1>15 DEF OverrideCommits, CountWritten, SessionRow, CallState
    <2>3. record' \in [Students -> RecordRow]
      BY <1>15 DEF OverrideCommits, RecordRow, CallState
    <2>4. audit' \in [Requests \cup Calls -> {"none", "failed", "success"}]
      BY <1>15 DEF OverrideCommits
    <2> QED  BY <1>15, <2>1, <2>2, <2>3, <2>4 DEF OverrideCommits, ReqOK
  <1>16. ASSUME NEW c \in Calls, NEW s \in Students, NEW st \in OverrideTo,
                OverrideLoads(c, s, st) PROVE TInv'
    BY <1>16, ConstantsAssumption DEF OverrideLoads, ReqOK, CallState, SessionRow
  <1>17. CASE ExpireStep
    <2>1. CASE ExpireLoads
      BY <2>1 DEF ExpireLoads, ReqOK, JobState, SessionRow
    <2>2. CASE ExpireCounts
      BY <2>2, NumPresentNat DEF ExpireCounts, ReqOK, JobState
    <2>3. CASE ExpireCommits
      BY <2>3 DEF ExpireCommits, CountWritten, IdleJob, ReqOK, JobState, SessionRow
    <2> QED  BY <1>17, <2>1, <2>2, <2>3 DEF ExpireStep
  <1>18. CASE UNCHANGED vars
    BY <1>18 DEF vars, ReqOK
  <1> QED
    BY <1>1, <1>2, <1>3, <1>4, <1>5, <1>6, <1>7, <1>8, <1>9, <1>10, <1>11, <1>12, <1>13,
       <1>14, <1>15, <1>16, <1>17, <1>18 DEF Next

LEMMA TInvHolds == Spec => []TInv
  BY TInit, TStep, PTL DEF Spec

\* Every variable keeps its type, whatever the interleaving of the scans, the
\* staff's calls and the jobs.
THEOREM TypeCorrect == Spec => []TypeOK
  BY TInvHolds, PTL DEF TInv

\* What a step of request r does to the requests: r keeps its student, its token,
\* its slot, and passes a check only by the action of that check.
LEMMA MarkFrame ==
    ASSUME TInv, NEW r \in Requests, MarkStep(r) \/ MarkDies(r), NEW q \in Requests
    PROVE  /\ req[r].pc \notin {"idle", "done"}
           /\ req'[r].pc # "idle"
           /\ q # r => req'[q] = req[q]
           /\ req'[q].student = req[q].student
           /\ req'[q].face = req[q].face
           /\ req'[q].slot = req[q].slot
           /\ "face" \in req'[q].checks =>
                "face" \in req[q].checks \/ (q = r /\ FaceTokenConsumed(r))
           /\ "qr" \in req'[q].checks =>
                "qr" \in req[q].checks \/ (q = r /\ QrConsumed(r))
           /\ req'[q].answer = "present" =>
                req[q].answer = "present" \/ (q = r /\ Marked(r))
  <1>0. req \in [Requests -> ReqState] /\ req[r] \in ReqState /\ req[q] \in ReqState
    BY DEF TInv, TypeOK
  <1>1. CASE \E a \in Answers : /\ req[r].pc \notin {"idle", "done"}
                                /\ Answered(r, a)
                                /\ a = "present" => Marked(r)
    BY <1>0, <1>1 DEF Answered, ReqState
  <1>2. CASE \E c \in {"face", "qr", "gps"}, next \in {"qr", "gps", "snapshot", "commit"} :
               /\ req[r].pc \notin {"idle", "done"}
               /\ Passes(r, c, next)
               /\ c = "face" => FaceTokenConsumed(r)
               /\ c = "qr" => QrConsumed(r)
    <2>1. PICK c \in {"face", "qr", "gps"}, next \in {"qr", "gps", "snapshot", "commit"} :
               /\ req[r].pc \notin {"idle", "done"}
               /\ Passes(r, c, next)
               /\ c = "face" => FaceTokenConsumed(r)
               /\ c = "qr" => QrConsumed(r)
      BY <1>2
    <2>2. /\ req'[r] = [req[r] EXCEPT !.pc = next, !.checks = req[r].checks \cup {c}]
          /\ q # r => req'[q] = req[q]
      BY <1>0, <2>1 DEF Passes
    <2>3. /\ req'[r].pc = next
          /\ req'[r].checks = req[r].checks \cup {c}
          /\ req'[r].student = req[r].student
          /\ req'[r].face = req[r].face
          /\ req'[r].slot = req[r].slot
          /\ req'[r].answer = req[r].answer
      BY <1>0, <2>2 DEF ReqState
    <2> QED  BY <2>1, <2>2, <2>3
  <1>3. ASSUME req[r].pc \in {"snapshot", "insert"}, NEW next \in {"insert", "commit"},
               req' = [req EXCEPT ![r].pc = next]
        PROVE  /\ req[r].pc \notin {"idle", "done"}
               /\ req'[r].pc # "idle"
               /\ q # r => req'[q] = req[q]
               /\ req'[q] = [req[q] EXCEPT !.pc = req'[q].pc]
    <2>1. req' = [req EXCEPT ![r] = [req[r] EXCEPT !.pc = next]]
      BY <1>3
    <2>2. req'[r] = [req[r] EXCEPT !.pc = next] /\ (q # r => req'[q] = req[q])
      BY <1>0, <2>1
    <2> QED  BY <1>0, <1>3, <2>2 DEF ReqState
  <1>4. CASE SnapshotLocked(r)
    <2>1. PICK next \in {"insert", "commit"} : req' = [req EXCEPT ![r].pc = next]
      BY <1>4 DEF SnapshotLocked
    <2> QED  BY <1>0, <1>3, <1>4, <2>1 DEF SnapshotLocked, ReqState
  <1>5. CASE SnapshotInserted(r)
    <2>1. CASE Answered(r, "flush_failed")
      BY <1>1, <1>5, <2>1 DEF SnapshotInserted, Answers
    <2>2. CASE req' = [req EXCEPT ![r].pc = "commit"]
      BY <1>0, <1>3, <1>5, <2>2 DEF SnapshotInserted, ReqState
    <2> QED  BY <1>5, <2>1, <2>2 DEF SnapshotInserted
  <1> QED
    <2>1. CASE FaceTokenConsumed(r)
      BY <2>1, <1>2 DEF FaceTokenConsumed
    <2>2. CASE FaceTokenRefused(r)
      BY <2>2, <1>1 DEF FaceTokenRefused, Answers
    <2>3. CASE QrConsumed(r)
      BY <2>3, <1>2 DEF QrConsumed
    <2>4. CASE QrRefused(r)
      BY <2>4, <1>1 DEF QrRefused, Refused, Answers
    <2>5. CASE GpsPassed(r)
      BY <2>5, <1>2 DEF GpsPassed
    <2>6. CASE GpsRefused(r)
      BY <2>6, <1>1 DEF GpsRefused, Refused, Answers
    <2>8. CASE BleRefused(r)
      BY <2>8, <1>1 DEF BleRefused, Refused, Answers
    <2>9. CASE Marked(r)
      BY <2>9, <1>1 DEF Marked, Answers
    <2>10. CASE MarkConflicts(r)
      BY <2>10, <1>1 DEF MarkConflicts, Answers
    <2>11. CASE MarkDies(r)
      BY <2>11, <1>1 DEF MarkDies, Answers
    <2> QED
      BY <1>4, <1>5, <2>1, <2>2, <2>3, <2>4, <2>5, <2>6, <2>8, <2>9, <2>10, <2>11 DEF MarkStep

\* The first step of a request, whatever it shows
Begins(r, s) ==
    TurnedAway(r, s) \/ \E f \in FaceTokens, k \in Slots : MarkBegins(r, s, f, k)

LEMMA BeginFrame ==
    ASSUME TInv, NEW r \in Requests, NEW s \in Students, Begins(r, s),
           NEW q \in Requests
    PROVE  /\ req[r].pc = "idle"
           /\ req'[r].pc \in {"face", "done"}
           /\ req'[r].checks = {}
           /\ req'[r].answer # "present"
           /\ req'[r].student = s
           /\ q # r => req'[q] = req[q]
  <1>0. req \in [Requests -> ReqState] /\ req[r] \in ReqState
    BY DEF TInv, TypeOK
  <1>1. CASE TurnedAway(r, s)
    <2>1. PICK a \in {"closed", "already", "device"} :
            req' = [req EXCEPT ![r] =
                      [@ EXCEPT !.pc = "done", !.student = s, !.answer = a]]
      BY <1>1 DEF TurnedAway
    <2> QED  BY <1>0, <1>1, <2>1 DEF TurnedAway, TInv, ReqOK, ReqState
  <1>2. ASSUME NEW f \in FaceTokens, NEW k \in Slots, MarkBegins(r, s, f, k)
        PROVE  /\ req[r].pc = "idle"
               /\ req'[r].pc \in {"face", "done"}
               /\ req'[r].checks = {}
               /\ req'[r].answer # "present"
               /\ req'[r].student = s
               /\ q # r => req'[q] = req[q]
    <2> DEFINE found == record[s].status # "none"
    <2>1. req' = [req EXCEPT ![r] = [req[r] EXCEPT !.pc = "face", !.student = s, !.face = f,
                                   !.slot = k, !.found = found]]
      BY <1>2 DEF MarkBegins
    <2> HIDE DEF found
    <2> QED  BY <1>0, <1>2, <2>1 DEF MarkBegins, TInv, ReqOK, ReqState
  <1> QED  BY <1>1, <1>2 DEF Begins

LEMMA StepKinds ==
    ASSUME [Next]_vars
    PROVE  \/ \E r \in Requests : MarkStep(r) \/ MarkDies(r)
           \/ \E r \in Requests, s \in Students : Begins(r, s)
           \/ UNCHANGED req
  BY DEF Begins, Next, vars, Tick, GrowOld, ShowQr, CleanupTokens, VerifyBegins,
        FaceRejected, VerifyDies, FaceVerified, FaceExpires, EndLoads, CallCounts, EndCommits, OverrideCommits, OverrideLoads,
     ExpireStep, ExpireLoads, ExpireCounts, ExpireCommits

LEMMA TokenFrame ==
    ASSUME TInv, [Next]_vars, NEW f \in FaceTokens, face[f].state \in {"used", "purged"}
    PROVE  face'[f].state \in {"used", "purged"} /\ face'[f].owner = face[f].owner
  <1>0. face \in [FaceTokens -> TokenRow]
    BY DEF TInv, TypeOK
  <1> USE DEF tokens
  <1>1. CASE UNCHANGED face
    BY <1>1
  <1>2. CASE CleanupTokens
    BY <1>0, <1>2 DEF CleanupTokens, Purged, TokenRow
  <1>3. ASSUME NEW s \in Students, NEW g \in FaceTokens, VerifyBegins(s, g)
        PROVE  face'[f] = face[f]
    BY <1>0, <1>3 DEF VerifyBegins
  <1>4. ASSUME NEW g \in FaceTokens,
               FaceVerified(g) \/ FaceRejected(g) \/ VerifyDies(g) \/ FaceExpires(g)
        PROVE  face'[f] = face[f]
    BY <1>0, <1>4 DEF FaceVerified, FaceRejected, VerifyDies, FaceExpires
  <1>5. ASSUME NEW r \in Requests, FaceTokenConsumed(r) PROVE face'[f] = face[f]
    <2>1. f # req[r].face
      BY <1>5 DEF FaceTokenConsumed, TokenValid
    <2> QED  BY <1>0, <1>5, <2>1 DEF FaceTokenConsumed
  <1> QED
    BY <1>1, <1>2, <1>3, <1>4, <1>5
    DEF Next, vars, Tick, GrowOld, ShowQr, TurnedAway, MarkBegins, MarkStep,
        FaceTokenRefused, QrConsumed, QrRefused, GpsPassed, GpsRefused, SnapshotLocked, SnapshotInserted,
        BleRefused, Marked, MarkConflicts, MarkDies, EndLoads, CallCounts, EndCommits,
        OverrideCommits, OverrideLoads, ExpireStep, ExpireLoads, ExpireCounts, ExpireCommits

-----------------------------------------------------------------------------
(* Face tokens are used once *)

\* A request past the face step owns its token, and the token is gone for good.
FaceInv ==
    /\ \A r \in Requests :
         "face" \in req[r].checks =>
             /\ req[r].face \in FaceTokens
             /\ face[req[r].face].state \in {"used", "purged"}
             /\ face[req[r].face].owner = req[r].student
    /\ FaceSingleUse

LEMMA FaceStep == TInv /\ FaceInv /\ [Next]_vars => FaceInv'
  <1> SUFFICES ASSUME TInv, FaceInv, [Next]_vars PROVE FaceInv'
    OBVIOUS
  <1>1. ASSUME NEW r \in Requests, MarkStep(r) \/ MarkDies(r) PROVE FaceInv'
    <2>1. CASE FaceTokenConsumed(r)
      <3>1. req[r].face \in FaceTokens /\ face[req[r].face].state = "live"
            /\ face[req[r].face].owner = req[r].student
        BY <2>1 DEF FaceTokenConsumed, TokenValid, TInv, ReqOK
      <3>2. /\ face'[req[r].face].state = "used"
            /\ face'[req[r].face].owner = req[r].student
        BY <2>1, <3>1 DEF FaceTokenConsumed, TInv, TypeOK, TokenRow
      <3>3. \A q \in Requests : "face" \in req[q].checks => req[q].face # req[r].face
        BY <3>1 DEF FaceInv
      <3> QED
        BY <1>1, <3>1, <3>2, <3>3, MarkFrame, TokenFrame DEF FaceInv, FaceSingleUse
    <2>2. CASE ~FaceTokenConsumed(r)
      BY <1>1, <2>2, MarkFrame, TokenFrame DEF FaceInv, FaceSingleUse
    <2> QED  BY <2>1, <2>2
  <1>2. ASSUME NEW r \in Requests, NEW s \in Students, Begins(r, s) PROVE FaceInv'
    BY <1>2, BeginFrame, TokenFrame DEF FaceInv, FaceSingleUse
  <1>3. CASE UNCHANGED req
    BY <1>3, TokenFrame DEF FaceInv, FaceSingleUse
  <1> QED  BY <1>1, <1>2, <1>3, StepKinds

LEMMA FaceInit == Init => FaceInv
  BY DEF Init, IdleReq, FaceInv, FaceSingleUse

LEMMA FaceHolds == Spec => []FaceInv
  BY TInvHolds, FaceInit, FaceStep, PTL DEF Spec

\* No two requests pass the face step on one token, for any number of students,
\* requests and tokens and with the cleanup job running
\* (validate_face_verify_token).
THEOREM FaceTokensUsedOnce == Spec => []FaceSingleUse
  BY FaceHolds, PTL DEF FaceInv

\* face_verify_tokens is a ledger of single-use items: every step of the system
\* is a claim or leaves the ledger as it is.
THEOREM FaceRefinement == Spec => FaceLedgerSpec
  <1>1. Init => FaceLedger!Init
    BY DEF Init, NoToken, FaceLedger!Init, FaceClaims
  <1>2. TInv /\ [Next]_vars => [FaceLedger!Next]_FaceClaims
    <2> SUFFICES ASSUME TInv, [Next]_vars PROVE FaceLedger!Next \/ UNCHANGED FaceClaims
      OBVIOUS
    <2> USE DEF tokens
    <2>0. face \in [FaceTokens -> TokenRow]
      BY DEF TInv, TypeOK
    <2>1. CASE UNCHANGED face
      BY <2>1 DEF FaceClaims
    <2>2. CASE CleanupTokens
      BY <2>0, <2>2 DEF CleanupTokens, Purged, TokenRow, FaceClaims
    <2>3. ASSUME NEW s \in Students, NEW f \in FaceTokens, VerifyBegins(s, f)
          PROVE  UNCHANGED FaceClaims
      BY <2>0, <2>3 DEF VerifyBegins, FaceClaims
    <2>4. ASSUME NEW f \in FaceTokens,
                 FaceVerified(f) \/ FaceRejected(f) \/ VerifyDies(f) \/ FaceExpires(f)
          PROVE  UNCHANGED FaceClaims
      BY <2>0, <2>4
      DEF FaceVerified, FaceRejected, VerifyDies, FaceExpires, NoToken, FaceClaims, TokenRow
    <2>5. ASSUME NEW r \in Requests, FaceTokenConsumed(r) PROVE FaceLedger!Next
      <3> DEFINE f == req[r].face
                 s == req[r].student
      <3>1. f \in FaceTokens /\ s \in Students /\ face[f].state = "live" /\ face[f].owner = s
        BY <2>5 DEF FaceTokenConsumed, TokenValid, TInv, ReqOK
      <3>2. face' = [face EXCEPT ![f].state = "used"]
        BY <2>5 DEF FaceTokenConsumed
      <3>3. FaceClaims[f] = NoOne
        BY <3>1 DEF FaceClaims
      <3>4. \A g \in FaceTokens : FaceClaims'[g] = IF g = f THEN s ELSE FaceClaims[g]
        BY <2>0, <3>1, <3>2 DEF FaceClaims, TokenRow
      <3>5. FaceClaims' = [FaceClaims EXCEPT ![f] = s]
        BY <3>4 DEF FaceClaims
      <3> QED  BY <3>1, <3>3, <3>5 DEF FaceLedger!Next, FaceLedger!Claim
    <2> QED
      BY <2>1, <2>2, <2>3, <2>4, <2>5
      DEF Next, vars, Tick, GrowOld, ShowQr, TurnedAway, MarkBegins, MarkStep,
          FaceTokenRefused, QrConsumed, QrRefused, GpsPassed, GpsRefused, SnapshotLocked, SnapshotInserted,
          BleRefused, Marked, MarkConflicts, MarkDies, EndLoads, CallCounts, EndCommits,
          OverrideCommits, OverrideLoads, ExpireStep, ExpireLoads, ExpireCounts, ExpireCommits
  <1> QED  BY <1>1, <1>2, TInvHolds, PTL DEF Spec, FaceLedgerSpec, FaceLedger!Spec

-----------------------------------------------------------------------------
(* QR slots are used once, as long as the cleanup job does not run *)

QrInv ==
    /\ \A r \in Requests : "qr" \in req[r].checks => qrUsedBy[req[r].slot] # NoOne
    /\ QrSingleUse

\* Without the cleanup only a request at the QR step touches the ledger, and only
\* at a slot nobody has used.
LEMMA SlotFrame ==
    ASSUME CleanupSlots = {}, TInv, [Next]_vars
    PROVE  \/ UNCHANGED qrUsedBy
           \/ \E r \in Requests :
                /\ QrConsumed(r)
                /\ req[r].slot \in Slots
                /\ req[r].student \in Students
                /\ qrUsedBy[req[r].slot] = NoOne
                /\ qrUsedBy' = [qrUsedBy EXCEPT ![req[r].slot] = req[r].student]
  <1>1. ASSUME NEW r \in Requests, QrConsumed(r)
        PROVE  /\ req[r].slot \in Slots
               /\ req[r].student \in Students
               /\ qrUsedBy[req[r].slot] = NoOne
               /\ qrUsedBy' = [qrUsedBy EXCEPT ![req[r].slot] = req[r].student]
    BY <1>1 DEF QrConsumed, SlotValid, TInv, TypeOK, ReqOK, ReqState
  <1> QED
    BY <1>1
    DEF Next, vars, tokens, Tick, GrowOld, ShowQr, CleanupTokens, VerifyBegins,
        FaceRejected, VerifyDies, FaceVerified, FaceExpires, TurnedAway, MarkBegins, MarkStep, FaceTokenConsumed,
        FaceTokenRefused, QrRefused, GpsPassed, GpsRefused, SnapshotLocked, SnapshotInserted,
        BleRefused, Marked, MarkConflicts, MarkDies, EndLoads, CallCounts, EndCommits,
        OverrideCommits, OverrideLoads, ExpireStep, ExpireLoads, ExpireCounts, ExpireCommits

LEMMA QrStep == CleanupSlots = {} /\ TInv /\ QrInv /\ [Next]_vars => QrInv'
  <1> SUFFICES ASSUME CleanupSlots = {}, TInv, QrInv, [Next]_vars PROVE QrInv'
    OBVIOUS
  <1>0. /\ qrUsedBy \in [Slots -> Students \cup {NoOne}]
        /\ \A q \in Requests : req[q].slot \in Slots
        /\ NoOne \notin Students
    BY ConstantsAssumption DEF TInv, TypeOK, ReqState
  <1>k. \A k \in Slots : qrUsedBy[k] # NoOne => qrUsedBy'[k] # NoOne
    BY <1>0, SlotFrame
  <1>1. ASSUME NEW r \in Requests, MarkStep(r) \/ MarkDies(r) PROVE QrInv'
    <2>1. CASE QrConsumed(r)
      <3>1. qrUsedBy[req[r].slot] = NoOne /\ qrUsedBy'[req[r].slot] # NoOne
        BY <2>1, <1>0 DEF QrConsumed, SlotValid, TInv, ReqOK
      <3>2. \A q \in Requests : "qr" \in req[q].checks => req[q].slot # req[r].slot
        BY <3>1 DEF QrInv
      <3> QED  BY <1>0, <1>k, <1>1, <3>1, <3>2, MarkFrame DEF QrInv, QrSingleUse
    <2>2. CASE ~QrConsumed(r)
      BY <1>0, <1>k, <1>1, <2>2, MarkFrame DEF QrInv, QrSingleUse
    <2> QED  BY <2>1, <2>2
  <1>2. ASSUME NEW r \in Requests, NEW s \in Students, Begins(r, s) PROVE QrInv'
    BY <1>0, <1>k, <1>2, BeginFrame DEF QrInv, QrSingleUse
  <1>3. CASE UNCHANGED req
    BY <1>0, <1>k, <1>3 DEF QrInv, QrSingleUse
  <1> QED  BY <1>1, <1>2, <1>3, StepKinds

\* No two requests pass the QR step on one time slot, for any number of students
\* and requests, on a day the cleanup job stays away (validate_qr_token).
THEOREM QrSlotsUsedOnce == CleanupSlots = {} /\ Spec => []QrSingleUse
  <1>1. Init => QrInv
    BY DEF Init, IdleReq, QrInv, QrSingleUse
  <1>2. QrInv => QrSingleUse
    BY DEF QrInv
  <1>3. SUFFICES ASSUME CleanupSlots = {} PROVE Spec => []QrSingleUse
    OBVIOUS
  <1>4. TInv /\ QrInv /\ [Next]_vars => QrInv'
    BY <1>3, QrStep
  <1> QED  BY <1>1, <1>2, <1>4, TInvHolds, PTL DEF Spec

\* qr_tokens is then a ledger of single-use items.
THEOREM QrRefinement == CleanupSlots = {} /\ Spec => QrLedgerSpec
  <1>1. SUFFICES ASSUME CleanupSlots = {} PROVE Spec => QrLedgerSpec
    OBVIOUS
  <1>2. Init => QrLedger!Init
    BY DEF Init, QrLedger!Init
  <1>3. TInv /\ [Next]_vars => [QrLedger!Next]_qrUsedBy
    BY <1>1, SlotFrame DEF QrLedger!Next, QrLedger!Claim
  <1> QED  BY <1>2, <1>3, TInvHolds, PTL DEF Spec, QrLedgerSpec, QrLedger!Spec

-----------------------------------------------------------------------------
(* The snapshot lock *)

\* No answer, error path or crash leaves the lock of step 5 behind.
THEOREM LockIsReleased == Spec => []LockHeldByCommitter
  <1>1. Init => LockHeldByCommitter
    BY ConstantsAssumption DEF Init, LockHeldByCommitter
  <1>2. TInv /\ LockHeldByCommitter /\ [Next]_vars => LockHeldByCommitter'
    <2> SUFFICES ASSUME TInv, LockHeldByCommitter, [Next]_vars PROVE LockHeldByCommitter'
      OBVIOUS
    <2>0. /\ snapLock \in [Students -> Requests \cup {NoOne}]
          /\ req \in [Requests -> ReqState]
          /\ NoOne \notin Requests
      BY ConstantsAssumption DEF TInv, TypeOK
    <2>1. ASSUME NEW r \in Requests, MarkStep(r) \/ MarkDies(r) PROVE LockHeldByCommitter'
      <3>1. CASE snapLock' = Unlocked(r)
        BY <1>1, <2>0, <2>1, <3>1, MarkFrame DEF Unlocked, LockHeldByCommitter
      <3>2. CASE UNCHANGED snapLock /\ req[r].pc # "commit"
        BY <2>0, <2>1, <3>2, MarkFrame DEF LockHeldByCommitter
      <3>3. ASSUME snapLock' = [snapLock EXCEPT ![req[r].student] = r],
                   req'[r].pc = "commit", req[r].pc # "commit"
            PROVE  LockHeldByCommitter'
        BY <2>0, <2>1, <3>3, MarkFrame DEF LockHeldByCommitter
      <3>4. req[r] \in ReqState
        BY <2>0
      <3>5. CASE SnapshotLocked(r)
        BY <2>0, <3>2, <3>3, <3>4, <3>5 DEF SnapshotLocked, ReqState
      <3>6. CASE SnapshotInserted(r)
        BY <2>0, <3>2, <3>3, <3>4, <3>6 DEF SnapshotInserted, ReqState
      <3> QED
        BY <2>1, <3>1, <3>2, <3>5, <3>6
        DEF MarkStep, snapshot, FaceTokenConsumed, FaceTokenRefused, QrConsumed, QrRefused,
            GpsPassed, GpsRefused, BleRefused, Marked, MarkConflicts, MarkDies
    <2>2. ASSUME NEW r \in Requests, NEW s \in Students, Begins(r, s)
          PROVE LockHeldByCommitter'
      <3>1. UNCHANGED snapLock
        BY <2>2 DEF Begins, TurnedAway, MarkBegins, snapshot
      <3> QED  BY <2>0, <2>2, <3>1, BeginFrame DEF LockHeldByCommitter
    <2>3. CASE UNCHANGED <<req, snapLock>>
      BY <2>3 DEF LockHeldByCommitter
    <2> QED
      BY <2>1, <2>2, <2>3
      DEF Begins, Next, vars, snapshot, Tick, GrowOld, ShowQr, CleanupTokens, VerifyBegins,
        FaceRejected, VerifyDies, FaceVerified, FaceExpires, EndLoads, CallCounts, EndCommits,
        OverrideCommits, OverrideLoads, ExpireStep, ExpireLoads, ExpireCounts, ExpireCommits
  <1> QED  BY <1>1, <1>2, TInvHolds, PTL DEF Spec

-----------------------------------------------------------------------------
(* What a successful answer rests on, and what it leaves behind *)

\* The checks passed, by where the request stands
ChecksInv ==
    \A r \in Requests :
        /\ req[r].pc = "qr" => req[r].checks = {"face"}
        /\ req[r].pc = "gps" => req[r].checks = {"face", "qr"} /\ UseGps
        /\ req[r].pc \in {"snapshot", "insert"} =>
             req[r].checks = {"face", "qr", "gps"} /\ UseGps
        /\ req[r].pc = "commit" => req[r].checks = AllChecks
        /\ req[r].answer = "present" => req[r].pc = "done" /\ req[r].checks = AllChecks

LEMMA ChecksStep == TInv /\ ChecksInv /\ [Next]_vars => ChecksInv'
  <1> SUFFICES ASSUME TInv, ChecksInv, [Next]_vars PROVE ChecksInv'
    OBVIOUS
  <1>0. req \in [Requests -> ReqState] /\ UseGps \in BOOLEAN
    BY ConstantsAssumption DEF TInv, TypeOK
  <1>1. ASSUME NEW r \in Requests, MarkStep(r) \/ MarkDies(r) PROVE ChecksInv'
    <2>0. req[r] \in ReqState
      BY <1>0
    <2>1. ASSUME NEW a \in Answers, Answered(r, a), a = "present" => req[r].pc = "commit",
                 req[r].pc \notin {"idle", "done"}
          PROVE  ChecksInv'
      <3>1. /\ req'[r].pc = "done"
            /\ req'[r].answer = a
            /\ req'[r].checks = req[r].checks
        BY <1>0, <2>0, <2>1 DEF Answered, ReqState
      <3> QED  BY <1>1, <2>1, <3>1, MarkFrame DEF ChecksInv
    <2>2. ASSUME NEW c \in {"face", "qr", "gps"}, NEW next \in {"qr", "gps", "snapshot", "commit"},
                 Passes(r, c, next), req[r].answer = "none",
                 <<c, next>> \in {<<"face", "qr">>, <<"gps", "snapshot">>}
                   \cup (IF UseGps THEN {<<"qr", "gps">>} ELSE {<<"qr", "commit">>}),
                 req[r].pc = c,
                 c = "face" => req[r].checks = {}
          PROVE  ChecksInv'
      <3>1. /\ req'[r].pc = next
            /\ req'[r].answer = "none"
            /\ req'[r].checks = req[r].checks \cup {c}
        BY <1>0, <2>0, <2>2 DEF Passes, ReqState
      <3>2. \A q \in Requests : q # r => req'[q] = req[q]
        BY <1>1, MarkFrame
      <3>3. CASE c = "face"
        BY <2>2, <3>1, <3>2, <3>3 DEF ChecksInv, AllChecks
      <3>4. CASE c = "qr"
        BY <1>0, <2>2, <3>1, <3>2, <3>4 DEF ChecksInv, AllChecks
      <3>5. CASE c = "gps"
        BY <2>2, <3>1, <3>2, <3>5 DEF ChecksInv, AllChecks
      <3> QED  BY <3>3, <3>4, <3>5
    <2>3. ASSUME req[r].pc \in {"snapshot", "insert"}, NEW next \in {"insert", "commit"},
                 req' = [req EXCEPT ![r].pc = next]
          PROVE  ChecksInv'
      <3>1. /\ req'[r].pc = next
            /\ req'[r].answer = req[r].answer
            /\ req'[r].checks = req[r].checks
        BY <1>0, <2>0, <2>3 DEF ReqState
      <3> QED  BY <1>1, <2>3, <3>1, MarkFrame DEF ChecksInv, AllChecks, TInv, ReqOK
    <2>4. req[r].pc \notin {"idle", "done"} /\ req[r].answer = "none"
      BY <1>1, MarkFrame DEF TInv, ReqOK
    <2>5. CASE FaceTokenConsumed(r)
      BY <2>2, <2>4, <2>5 DEF FaceTokenConsumed, TInv, ReqOK
    <2>6. CASE QrConsumed(r)
      BY <1>0, <2>2, <2>4, <2>6 DEF QrConsumed
    <2>7. CASE GpsPassed(r)
      BY <2>2, <2>4, <2>7 DEF GpsPassed
    <2>8. CASE SnapshotInserted(r)
      BY <2>1, <2>3, <2>4, <2>8 DEF SnapshotInserted, Answers
    <2>9. CASE SnapshotLocked(r)
      <3>1. PICK next \in {"insert", "commit"} : req' = [req EXCEPT ![r].pc = next]
        BY <2>9 DEF SnapshotLocked
      <3> QED  BY <2>3, <2>9, <3>1 DEF SnapshotLocked
    <2> QED
      BY <1>1, <2>1, <2>4, <2>5, <2>6, <2>7, <2>8, <2>9
      DEF MarkStep, FaceTokenRefused, QrRefused, GpsRefused, BleRefused, Refused, Marked,
          MarkConflicts, MarkDies, Answers
  <1>2. ASSUME NEW r \in Requests, NEW s \in Students, Begins(r, s) PROVE ChecksInv'
    BY <1>2, BeginFrame DEF ChecksInv
  <1>3. CASE UNCHANGED req
    BY <1>3 DEF ChecksInv
  <1> QED  BY <1>1, <1>2, <1>3, StepKinds

\* What a step does to the records
LEMMA RecordFrame ==
    ASSUME TInv, [Next]_vars
    PROVE  \/ UNCHANGED record
           \/ \E r \in Requests : Marked(r) /\ req[r].student \in Students
           \/ \E c \in Calls : OverrideCommits(c)
  <1>1. ASSUME NEW r \in Requests, Marked(r) PROVE req[r].student \in Students
    BY <1>1 DEF Marked, TInv, ReqOK
  <1> QED
    BY <1>1
    DEF Next, vars, book, Tick, GrowOld, ShowQr, CleanupTokens, VerifyBegins,
        FaceRejected, VerifyDies, FaceVerified, FaceExpires, TurnedAway, MarkBegins, MarkStep, FaceTokenConsumed, QrConsumed,
        FaceTokenRefused, QrRefused, GpsPassed, GpsRefused, SnapshotLocked, SnapshotInserted,
        BleRefused, MarkConflicts, MarkDies, EndLoads, CallCounts, EndCommits,
        OverrideLoads, ExpireStep, ExpireLoads, ExpireCounts, ExpireCommits

\* An override that is done stays done.
LEMMA CallFrame ==
    ASSUME TInv, [Next]_vars, NEW c \in Calls, OverrideDone(c)
    PROVE  OverrideDone(c)' /\ call'[c].student = call[c].student
  <1>0. call \in [Calls -> CallState]
    BY DEF TInv, TypeOK
  <1>1. ASSUME NEW d \in Calls, EndLoads(d) PROVE call'[c] = call[c]
    BY <1>0, <1>1 DEF EndLoads, OverrideDone
  <1>2. ASSUME NEW d \in Calls, CallCounts(d) PROVE call'[c] = call[c]
    BY <1>0, <1>2 DEF CallCounts, OverrideDone
  <1>3. ASSUME NEW d \in Calls, EndCommits(d) PROVE call'[c] = call[c]
    BY <1>0, <1>3 DEF EndCommits, OverrideDone
  <1>4. ASSUME NEW d \in Calls, OverrideCommits(d) PROVE call'[c] = call[c]
    BY <1>0, <1>4 DEF OverrideCommits, OverrideDone
  <1>5. ASSUME NEW d \in Calls, NEW s \in Students, NEW st \in OverrideTo,
               OverrideLoads(d, s, st)
        PROVE  call'[c] = call[c]
    BY <1>0, <1>5 DEF OverrideLoads, OverrideDone
  <1> QED
    BY <1>1, <1>2, <1>3, <1>4, <1>5
    DEF OverrideDone, Next, vars, staff, Tick, GrowOld, ShowQr, CleanupTokens, VerifyBegins, FaceRejected,
        VerifyDies, FaceVerified, FaceExpires, TurnedAway, MarkBegins, MarkStep, FaceTokenConsumed,
        QrConsumed, FaceTokenRefused, QrRefused, GpsPassed, GpsRefused, SnapshotLocked, SnapshotInserted,
        BleRefused, Marked, MarkConflicts, MarkDies, ExpireStep, ExpireLoads, ExpireCounts,
        ExpireCommits

\* A request that got its "present" is not touched again.
LEMMA PresentFrame ==
    ASSUME TInv, ChecksInv, [Next]_vars, NEW q \in Requests
    PROVE  /\ req[q].answer = "present" => req'[q] = req[q]
           /\ req'[q].answer = "present" => req[q].answer = "present" \/ Marked(q)
  <1>1. ASSUME NEW r \in Requests, MarkStep(r) \/ MarkDies(r)
        PROVE  /\ req[q].answer = "present" => req'[q] = req[q]
               /\ req'[q].answer = "present" => req[q].answer = "present" \/ Marked(q)
    BY <1>1, MarkFrame DEF ChecksInv
  <1>2. ASSUME NEW r \in Requests, NEW s \in Students, Begins(r, s)
        PROVE  /\ req[q].answer = "present" => req'[q] = req[q]
               /\ req'[q].answer = "present" => req[q].answer = "present"
    BY <1>2, BeginFrame DEF TInv, ReqOK
  <1> QED  BY <1>1, <1>2, StepKinds

EvidenceInv == FaceInv /\ ChecksInv /\ ScanEvidence

LEMMA EvidenceStep == TInv /\ EvidenceInv /\ [Next]_vars => EvidenceInv'
  <1> SUFFICES ASSUME TInv, EvidenceInv, [Next]_vars PROVE EvidenceInv'
    OBVIOUS
  <1>1. FaceInv' /\ ChecksInv'
    BY FaceStep, ChecksStep DEF EvidenceInv
  <1> DEFINE Proves(r, s) == /\ req[r].answer = "present"
                             /\ req[r].student = s
                             /\ req[r].checks = AllChecks
                             /\ face[req[r].face].owner = s
  <1>0. record \in [Students -> RecordRow] /\ req \in [Requests -> ReqState]
    BY DEF TInv, TypeOK
  <1>2. ASSUME NEW r \in Requests, NEW s \in Students, Proves(r, s) PROVE Proves(r, s)'
    <2>1. req'[r] = req[r]
      BY <1>2, PresentFrame DEF EvidenceInv
    <2>2. "face" \in req'[r].checks
      BY <1>2, <2>1 DEF AllChecks
    <2> QED  BY <1>1, <1>2, <2>1, <2>2 DEF FaceInv
  <1>3. ScanEvidence'
    <2> SUFFICES ASSUME NEW s \in Students, record'[s].by = "qr_scan"
                 PROVE  \E r \in Requests : Proves(r, s)'
      BY DEF ScanEvidence, Answer
    <2>1. CASE record[s].by = "qr_scan"
      BY <1>2, <2>1 DEF EvidenceInv, ScanEvidence, Answer
    <2>2. ASSUME NEW r \in Requests, Marked(r), req[r].student \in Students,
                 record[s].by # "qr_scan"
          PROVE  Proves(r, s)'
      <3>1. req[r].student = s
        BY <1>0, <2>2 DEF Marked, Scanned
      <3>2. req'[r].answer = "present" /\ req'[r].student = s
        BY <1>0, <2>2, <3>1 DEF Marked, Answered, ReqState
      <3>3. req'[r].checks = AllChecks /\ "face" \in req'[r].checks
        BY <1>1, <3>2 DEF ChecksInv, AllChecks
      <3> QED  BY <1>1, <3>2, <3>3 DEF FaceInv
    <2>3. ASSUME NEW c \in Calls, OverrideCommits(c), record[s].by # "qr_scan"
          PROVE  FALSE
      BY <1>0, <2>3 DEF OverrideCommits, RecordRow
    <2> QED  BY <2>1, <2>2, <2>3, RecordFrame
  <1> QED  BY <1>1, <1>3 DEF EvidenceInv

LEMMA EvidenceHolds == Spec => []EvidenceInv
  <1>1. Init => EvidenceInv
    <2> SUFFICES ASSUME Init PROVE EvidenceInv
      OBVIOUS
    <2>1. \A s \in Students : record[s] \in {DefaultAbsent, NoRecord}
      BY DEF Init
    <2>2. ScanEvidence
      BY <2>1 DEF ScanEvidence, DefaultAbsent, NoRecord
    <2>3. ChecksInv
      BY DEF Init, ChecksInv, IdleReq
    <2> QED  BY <2>2, <2>3, FaceInit DEF EvidenceInv
  <1> QED  BY <1>1, EvidenceStep, TInvHolds, PTL DEF Spec

\* Every record marked by a scan has its evidence: a request of that very student
\* that passed every check, with a face token of his own (mark_attendance).
THEOREM ScansHaveEvidence == Spec => []ScanEvidence
  BY EvidenceHolds, PTL DEF EvidenceInv

LEMMA SuccessStep ==
    TInv /\ ChecksInv /\ SuccessRecorded /\ [Next]_vars => SuccessRecorded'
  <1> SUFFICES ASSUME TInv, ChecksInv, SuccessRecorded, [Next]_vars,
                      NEW q \in Requests, req'[q].answer = "present"
               PROVE  \/ \E c \in Calls : OverrideDone(c)' /\ call'[c].student = req'[q].student
                      \/ record'[req'[q].student] = [status |-> "present", by |-> "qr_scan"]
    BY DEF SuccessRecorded, Answer
  <1>0. /\ record \in [Students -> RecordRow] /\ req \in [Requests -> ReqState]
        /\ call \in [Calls -> CallState]
    BY DEF TInv, TypeOK
  <1>1. CASE Marked(q)
    <2>1. req'[q].student = req[q].student /\ req[q].student \in Students
      BY <1>0, <1>1 DEF Marked, Answered, ReqState, TInv, ReqOK
    <2> QED  BY <1>0, <1>1, <2>1 DEF Marked, Scanned
  <1>2. CASE req[q].answer = "present"
    <2>0. req'[q] = req[q] /\ req[q].student \in Students
      BY <1>2, PresentFrame DEF ChecksInv, TInv, ReqOK
    <2>1. ASSUME NEW c \in Calls, OverrideDone(c), call[c].student = req[q].student
          PROVE  OverrideDone(c)' /\ call'[c].student = req'[q].student
      BY <2>0, <2>1, CallFrame
    <2>2. CASE record[req[q].student] = [status |-> "present", by |-> "qr_scan"]
      <3>1. ASSUME NEW r \in Requests, Marked(r), req[r].student \in Students
            PROVE  record'[req[q].student] = [status |-> "present", by |-> "qr_scan"]
        BY <1>0, <2>0, <2>2, <3>1 DEF Marked, Scanned
      <3>2. ASSUME NEW c \in Calls, OverrideCommits(c), call[c].student = req[q].student
            PROVE  OverrideDone(c)' /\ call'[c].student = req'[q].student
        BY <1>0, <2>0, <3>2 DEF OverrideCommits, OverrideDone, CallState
      <3>3. ASSUME NEW c \in Calls, OverrideCommits(c), call[c].student # req[q].student
            PROVE  record'[req[q].student] = record[req[q].student]
        BY <1>0, <2>0, <3>3 DEF OverrideCommits
      <3> QED  BY <2>0, <2>2, <3>1, <3>2, <3>3, RecordFrame
    <2> QED  BY <1>2, <2>1, <2>2 DEF SuccessRecorded, Answer
  <1> QED  BY <1>1, <1>2, PresentFrame

\* A student told "marked successfully" stays present until the staff overrides
\* his record, however closing, expiry and other scans interleave.
THEOREM SuccessStays == Spec => []SuccessRecorded
  <1>1. Init => SuccessRecorded
    BY DEF Init, SuccessRecorded, Answer, IdleReq
  <1>2. EvidenceInv => ChecksInv
    BY DEF EvidenceInv
  <1> QED  BY <1>1, <1>2, SuccessStep, TInvHolds, EvidenceHolds, PTL DEF Spec

-----------------------------------------------------------------------------
(* The limit of failed face checks *)

LEMMA PendingFinite ==
    ASSUME NEW s \in Students
    PROVE  /\ IsFiniteSet(PendingChecks(s))
           /\ Cardinality(PendingChecks(s)) \in Nat
           /\ Cardinality(FaceTokens) \in Nat
           /\ Cardinality(PendingChecks(s)) <= Cardinality(FaceTokens)
  <1>1. IsFiniteSet(FaceTokens) /\ PendingChecks(s) \subseteq FaceTokens
    BY ConstantsAssumption DEF PendingChecks
  <1> QED  BY <1>1, FS_Subset, FS_CardinalityType

LEMMA PendingFewer ==
    ASSUME NEW s \in Students, PendingChecks(s)' \subseteq PendingChecks(s)
    PROVE  /\ Cardinality(PendingChecks(s)') \in Nat
           /\ Cardinality(PendingChecks(s)') <= Cardinality(PendingChecks(s))
  BY PendingFinite, FS_Subset, FS_CardinalityType

LEMMA AttemptsStep == TInv /\ AttemptsBounded /\ [Next]_vars => AttemptsBounded'
  <1> SUFFICES ASSUME TInv, AttemptsBounded, [Next]_vars, NEW s \in Students
               PROVE  verifyFails'[s] + Cardinality(PendingChecks(s)')
                        <= MaxVerify - 1 + Cardinality(FaceTokens)
    BY DEF AttemptsBounded
  <1>0. /\ face \in [FaceTokens -> TokenRow]
        /\ verifyFails \in [Students -> Nat] /\ verifyFails[s] \in Nat
        /\ MaxVerify \in Nat
        /\ Cardinality(PendingChecks(s)) \in Nat /\ Cardinality(FaceTokens) \in Nat
        /\ verifyFails[s] + Cardinality(PendingChecks(s))
             <= MaxVerify - 1 + Cardinality(FaceTokens)
    BY ConstantsAssumption, PendingFinite DEF TInv, TypeOK, AttemptsBounded
  <1>1. ASSUME NEW f \in FaceTokens, VerifyBegins(s, f)
        PROVE  verifyFails'[s] + Cardinality(PendingChecks(s)')
                 <= MaxVerify - 1 + Cardinality(FaceTokens)
    <2>1. verifyFails[s] < MaxVerify /\ verifyFails' = verifyFails
      <3> DEFINE rows == {r \in Requests : req[r].student = s /\ audit[r] = "failed"}
      <3>1. Cardinality(rows) \in Nat
        <4>1. IsFiniteSet(rows)
          BY ConstantsAssumption, FS_Subset
        <4> QED  BY <4>1, FS_CardinalityType
      <3>2. verifyFails[s] + Cardinality(rows) < MaxVerify
        BY <1>1 DEF VerifyBegins, MayVerify, FailedRows
      <3>3. verifyFails' = verifyFails
        BY <1>1 DEF VerifyBegins, log
      <3> HIDE DEF rows
      <3> QED  BY <1>0, <3>1, <3>2, <3>3
    <2>2. Cardinality(PendingChecks(s)') \in Nat
            /\ Cardinality(PendingChecks(s)') <= Cardinality(FaceTokens)
      <3>1. IsFiniteSet(FaceTokens) /\ PendingChecks(s)' \subseteq FaceTokens
        BY ConstantsAssumption DEF PendingChecks
      <3> QED  BY <3>1, FS_Subset, FS_CardinalityType
    <2> QED  BY <1>0, <2>1, <2>2
  <1>2. ASSUME NEW f \in FaceTokens, FaceRejected(f), face[f].owner = s
        PROVE  verifyFails'[s] + Cardinality(PendingChecks(s)')
                 <= MaxVerify - 1 + Cardinality(FaceTokens)
    <2>1. verifyFails'[s] = verifyFails[s] + 1
      BY <1>0, <1>2 DEF FaceRejected
    <2>2. f \in PendingChecks(s)
      BY <1>0, <1>2 DEF FaceRejected, PendingChecks, TokenRow
    <2>3. PendingChecks(s)' = PendingChecks(s) \ {f}
      BY <1>0, <1>2 DEF FaceRejected, PendingChecks, NoToken
    <2>4. Cardinality(PendingChecks(s)') = Cardinality(PendingChecks(s)) - 1
      BY <2>2, <2>3, PendingFinite, FS_RemoveElement
    <2> QED  BY <1>0, <2>1, <2>4
  <1>3. ASSUME verifyFails'[s] = verifyFails[s], PendingChecks(s)' \subseteq PendingChecks(s)
        PROVE  verifyFails'[s] + Cardinality(PendingChecks(s)')
                 <= MaxVerify - 1 + Cardinality(FaceTokens)
    BY <1>0, <1>3, PendingFewer
  <1>4. ASSUME NEW t \in Students, NEW f \in FaceTokens, VerifyBegins(t, f), t # s
        PROVE  verifyFails'[s] = verifyFails[s] /\ PendingChecks(s)' \subseteq PendingChecks(s)
    BY <1>0, <1>4 DEF VerifyBegins, log, PendingChecks
  <1>5. ASSUME NEW f \in FaceTokens,
               \/ FaceRejected(f) /\ face[f].owner # s
               \/ VerifyDies(f) \/ FaceVerified(f) \/ FaceExpires(f)
        PROVE  verifyFails'[s] = verifyFails[s] /\ PendingChecks(s)' \subseteq PendingChecks(s)
    BY <1>0, <1>5
    DEF FaceRejected, VerifyDies, FaceVerified, FaceExpires, log, PendingChecks, NoToken, TokenRow
  <1>6. ASSUME CleanupTokens
        PROVE  verifyFails'[s] = verifyFails[s] /\ PendingChecks(s)' \subseteq PendingChecks(s)
    BY <1>0, <1>6 DEF CleanupTokens, Purged, log, PendingChecks, TokenRow
  <1>7. ASSUME NEW r \in Requests, FaceTokenConsumed(r)
        PROVE  verifyFails'[s] = verifyFails[s] /\ PendingChecks(s)' \subseteq PendingChecks(s)
    BY <1>0, <1>7 DEF FaceTokenConsumed, log, PendingChecks, TokenRow
  <1>8. ASSUME UNCHANGED <<face, verifyFails>>
        PROVE  verifyFails'[s] = verifyFails[s] /\ PendingChecks(s)' \subseteq PendingChecks(s)
    BY <1>8 DEF PendingChecks
  <1>9. \/ UNCHANGED <<face, verifyFails>>
        \/ CleanupTokens
        \/ \E t \in Students, f \in FaceTokens : VerifyBegins(t, f)
        \/ \E f \in FaceTokens : FaceRejected(f) \/ VerifyDies(f) \/ FaceVerified(f)
                                    \/ FaceExpires(f)
        \/ \E r \in Requests : FaceTokenConsumed(r)
    BY DEF Next, vars, tokens, log, Tick, GrowOld, ShowQr, TurnedAway, MarkBegins, MarkStep,
        FaceTokenRefused, QrConsumed, QrRefused, GpsPassed, GpsRefused, SnapshotLocked,
        SnapshotInserted, BleRefused, Marked, MarkConflicts, MarkDies, EndLoads, CallCounts,
        EndCommits, OverrideCommits, OverrideLoads, ExpireStep, ExpireLoads, ExpireCounts,
        ExpireCommits
  <1> QED  BY <1>1, <1>2, <1>3, <1>4, <1>5, <1>6, <1>7, <1>8, <1>9

\* Face checks in parallel overrun the limit of failed attempts by at most those that
\* were waiting for the recognition service together, for any limit and any number.
THEOREM LimitOverrunBounded == Spec => []AttemptsBounded
  <1>1. Init => AttemptsBounded
    <2> SUFFICES ASSUME Init, NEW s \in Students
                 PROVE  verifyFails[s] + Cardinality(PendingChecks(s))
                          <= MaxVerify - 1 + Cardinality(FaceTokens)
      BY DEF AttemptsBounded
    <2>1. PendingChecks(s) = {}
      BY DEF Init, PendingChecks, NoToken
    <2>2. Cardinality(PendingChecks(s)) = 0
      BY <2>1, FS_EmptySet
    <2>3. verifyFails[s] = 0
      BY DEF Init
    <2> QED  BY <2>2, <2>3, ConstantsAssumption, PendingFinite
  <1> QED  BY <1>1, AttemptsStep, TInvHolds, PTL DEF Spec

-----------------------------------------------------------------------------
(* The count of an open session *)

\* What a step does to the session's row
LEMMA SessionFrame ==
    ASSUME TInv, [Next]_vars
    PROVE  \/ UNCHANGED session /\ \A r \in Requests : ~Marked(r)
           \/ \E r \in Requests : Marked(r)
           \/ session'.status # "active"
           \/ \E c \in Calls : OverrideDone(c)'
  <1>0. call \in [Calls -> CallState] /\ session \in SessionRow
    BY DEF TInv, TypeOK
  <1>1. ASSUME NEW c \in Calls, OverrideCommits(c) PROVE OverrideDone(c)'
    BY <1>0, <1>1 DEF OverrideCommits, OverrideDone, CallState
  <1>2. ASSUME NEW c \in Calls, EndCommits(c) PROVE session'.status # "active"
    BY <1>2 DEF EndCommits
  <1>3. CASE ExpireCommits
    BY <1>0, <1>3 DEF ExpireCommits, SessionRow
  <1> QED
    BY <1>1, <1>2, <1>3
    DEF Next, vars, book, Tick, GrowOld, ShowQr, CleanupTokens, VerifyBegins,
        FaceRejected, VerifyDies, FaceVerified, FaceExpires, TurnedAway, MarkBegins, MarkStep, FaceTokenConsumed, QrConsumed,
        FaceTokenRefused, QrRefused, GpsPassed, GpsRefused, SnapshotLocked, SnapshotInserted,
        BleRefused, MarkConflicts, MarkDies, EndLoads, CallCounts,
        OverrideLoads, ExpireStep, ExpireLoads, ExpireCounts

LEMMA CountStep ==
    TInv /\ ChecksInv /\ CountMatchesScans /\ [Next]_vars => CountMatchesScans'
  <1> SUFFICES ASSUME TInv, ChecksInv, CountMatchesScans, [Next]_vars,
                      session'.status = "active", NoOverride'
               PROVE  session'.count = Cardinality(Answer("present")')
    BY DEF CountMatchesScans
  <1>0. /\ session \in SessionRow
        /\ req \in [Requests -> ReqState]
        /\ IsFiniteSet(Answer("present"))
    BY ConstantsAssumption, FS_Subset DEF TInv, TypeOK, Answer
  <1>1. NoOverride
    BY CallFrame DEF NoOverride
  <1>2. \A q \in Requests : req[q].answer = "present" => req'[q].answer = "present"
    BY PresentFrame
  <1>3. CASE UNCHANGED session /\ \A r \in Requests : ~Marked(r)
    <2>1. Answer("present")' = Answer("present")
      BY <1>2, <1>3, PresentFrame DEF Answer
    <2> QED  BY <1>1, <1>3, <2>1 DEF CountMatchesScans
  <1>4. ASSUME NEW r \in Requests, Marked(r)
        PROVE  session'.count = Cardinality(Answer("present")')
    <2>1. /\ session' = [session EXCEPT !.count = session.count + 1]
          /\ req'[r].answer = "present"
          /\ r \notin Answer("present")
          /\ \A q \in Requests : q # r => req'[q] = req[q]
      BY <1>0, <1>4 DEF Marked, CountAfterScan, Answered, ReqState, Answer, TInv, ReqOK
    <2>2. Answer("present")' = Answer("present") \cup {r}
      BY <2>1 DEF Answer
    <2>3. Cardinality(Answer("present")') = Cardinality(Answer("present")) + 1
      BY <1>0, <2>1, <2>2, FS_AddElement
    <2>4. session.status = "active" /\ session'.count = session.count + 1
      BY <1>0, <2>1 DEF SessionRow
    <2> QED  BY <1>1, <2>3, <2>4 DEF CountMatchesScans
  <1> QED  BY <1>3, <1>4, SessionFrame DEF NoOverride

\* While a session is open and nobody overrides, present_count loses no update:
\* it is exactly the number of scans answered with success.
THEOREM NoLostCount == Spec => []CountMatchesScans
  <1>1. Init => CountMatchesScans
    <2> SUFFICES ASSUME Init PROVE CountMatchesScans
      OBVIOUS
    <2>1. Answer("present") = {} /\ session.count = 0
      BY DEF Init, Answer, IdleReq
    <2> QED  BY <2>1, FS_EmptySet DEF CountMatchesScans
  <1>2. EvidenceInv => ChecksInv
    BY DEF EvidenceInv
  <1> QED  BY <1>1, <1>2, CountStep, TInvHolds, EvidenceHolds, PTL DEF Spec

-----------------------------------------------------------------------------
(* What a close writes: every number of present students in flight was the    *)
(* number of some students that scans had put there.                          *)

Credited == Cardinality(Answer("present"))

\* While nobody overrides, a record is present only by a scan that succeeded.
FromScans ==
    \A s \in PresentStudents : \E r \in Answer("present") : req[r].student = s

\* Distinct students need distinct requests.
LEMMA PresentAtMostCredited ==
    ASSUME FromScans
    PROVE  /\ IsFiniteSet(Answer("present"))
           /\ Credited \in Nat
           /\ NumPresent \in Nat
           /\ NumPresent <= Credited
  <1> DEFINE S == Answer("present")
             f == [r \in S |-> req[r].student]
             T == {req[r].student : r \in S}
  <1>1. IsFiniteSet(S)
    BY ConstantsAssumption, FS_Subset DEF Answer
  <1>2. f \in Surjection(S, T)
    BY DEF Surjection
  <1>3. IsFiniteSet(T) /\ Cardinality(T) <= Cardinality(S)
    <2> HIDE DEF f, T
    <2> QED  BY <1>1, <1>2, FS_Surjection
  <1>4. PresentStudents \in SUBSET T
    BY DEF FromScans
  <1>5. IsFiniteSet(PresentStudents) /\ Cardinality(PresentStudents) <= Cardinality(T)
    <2> HIDE DEF T
    <2> QED  BY <1>3, <1>4, FS_Subset
  <1>6. Cardinality(PresentStudents) \in Nat /\ Cardinality(T) \in Nat /\ Cardinality(S) \in Nat
    <2> HIDE DEF T, S
    <2> QED  BY <1>1, <1>3, <1>5, FS_CardinalityType
  <1>7. Cardinality(PresentStudents) <= Cardinality(S)
    <2> HIDE DEF T, S
    <2> QED  BY <1>3, <1>5, <1>6
  <1> QED  BY <1>1, <1>6, <1>7 DEF Credited, NumPresent

\* A scan that commits is one more success; no other step adds or takes one.
LEMMA CreditedFrame ==
    ASSUME TInv, ChecksInv, [Next]_vars
    PROVE  /\ \A r \in Answer("present") :
                  r \in Answer("present")' /\ req'[r].student = req[r].student
           /\ Credited' >= Credited
           /\ \A r \in Requests : Marked(r) => Credited' = Credited + 1
  <1>0. req \in [Requests -> ReqState]
    BY DEF TInv, TypeOK
  <1>1. \A r \in Answer("present") :
           r \in Answer("present")' /\ req'[r].student = req[r].student
    BY PresentFrame DEF Answer
  <1>2. IsFiniteSet(Answer("present")) /\ IsFiniteSet(Answer("present")')
    BY ConstantsAssumption, FS_Subset DEF Answer
  <1>3. Credited \in Nat /\ Credited' \in Nat
    BY <1>2, FS_CardinalityType DEF Credited
  <1>4. Credited <= Credited'
    <2>1. Answer("present") \in SUBSET Answer("present")'
      BY <1>1
    <2> QED  BY <1>2, <2>1, FS_Subset DEF Credited
  <1>5. ASSUME NEW r \in Requests, Marked(r) PROVE Credited' = Credited + 1
    <2>1. /\ req'[r].answer = "present"
          /\ r \notin Answer("present")
          /\ \A q \in Requests : q # r => req'[q] = req[q]
      BY <1>0, <1>5 DEF Marked, Answered, ReqState, Answer, TInv, ReqOK
    <2>2. Answer("present")' = Answer("present") \cup {r}
      BY <2>1 DEF Answer
    <2> QED  BY <1>2, <2>1, <2>2, FS_AddElement DEF Credited
  <1> QED  BY <1>1, <1>3, <1>4, <1>5

\* No count, in the row or in flight, exceeds the successes.
BoundInv ==
    NoOverride =>
        /\ FromScans
        /\ session.count <= Credited
        /\ \A c \in Calls : call[c].present <= Credited
        /\ job.present <= Credited

LEMMA NoOverrideBefore == TInv /\ [Next]_vars /\ NoOverride' => NoOverride
  BY CallFrame DEF NoOverride

\* What a step does to the counts in flight
LEMMA CountsFrame ==
    ASSUME TInv, [Next]_vars
    PROVE  /\ \A c \in Calls : \/ call'[c].present = call[c].present
                               \/ call'[c].present = 0
                               \/ call'[c].present = NumPresent
           /\ job'.present \in {job.present, 0, NumPresent}
  <1>0. call \in [Calls -> CallState] /\ job \in JobState
    BY DEF TInv, TypeOK
  <1>1. ASSUME NEW d \in Calls, EndLoads(d) \/ EndCommits(d) \/ OverrideCommits(d), NEW c \in Calls
        PROVE  call'[c].present = call[c].present
    <2>0. call[d] \in CallState
      BY <1>0
    <2>1. CASE EndLoads(d)
      <3>1. call' = [call EXCEPT ![d] =
                       [call[d] EXCEPT !.pc = "loaded", !.op = "end", !.count = session.count]]
        BY <2>1 DEF EndLoads
      <3> QED  BY <1>0, <2>0, <3>1 DEF CallState
    <2>2. CASE EndCommits(d) \/ OverrideCommits(d)
      <3>1. call' = [call EXCEPT ![d] = [call[d] EXCEPT !.pc = "done"]]
        BY <2>2 DEF EndCommits, OverrideCommits
      <3> QED  BY <1>0, <2>0, <3>1 DEF CallState
    <2> QED  BY <1>1, <2>1, <2>2
  <1>2. ASSUME NEW d \in Calls, CallCounts(d), NEW c \in Calls
        PROVE  call'[c].present \in {call[c].present, NumPresent}
    BY <1>0, <1>2 DEF CallCounts, CallState
  <1>3. ASSUME NEW d \in Calls, NEW s \in Students, NEW st \in OverrideTo,
               OverrideLoads(d, s, st), NEW c \in Calls
        PROVE  call'[c].present \in {call[c].present, 0}
    BY <1>0, <1>3 DEF OverrideLoads, CallState
  <1>4. ASSUME ExpireStep PROVE job'.present \in {job.present, 0, NumPresent}
    <2>1. CASE ExpireLoads
      BY <2>1 DEF ExpireLoads
    <2>2. CASE ExpireCounts
      <3>1. job' = [job EXCEPT !.pc = "counted", !.present = NumPresent]
        BY <2>2 DEF ExpireCounts
      <3> QED  BY <1>0, <3>1 DEF JobState
    <2>3. CASE ExpireCommits
      BY <2>3 DEF ExpireCommits, IdleJob
    <2> QED  BY <1>4, <2>1, <2>2, <2>3 DEF ExpireStep
  <1>5. CASE UNCHANGED staff
    BY <1>5 DEF staff
  <1>6. (\E d \in Calls : EndLoads(d) \/ EndCommits(d) \/ OverrideCommits(d) \/ CallCounts(d))
          \/ (\E d \in Calls, s \in Students, st \in OverrideTo : OverrideLoads(d, s, st))
          \/ ExpireStep \/ UNCHANGED staff
    BY DEF Next, vars, staff, Tick, GrowOld, ShowQr, CleanupTokens, VerifyBegins, FaceRejected,
        VerifyDies, FaceVerified, FaceExpires, TurnedAway, MarkBegins, MarkStep, FaceTokenConsumed,
        QrConsumed, FaceTokenRefused, QrRefused, GpsPassed, GpsRefused, SnapshotLocked, SnapshotInserted,
        BleRefused, Marked, MarkConflicts, MarkDies
  <1>7. (\E d \in Calls : EndLoads(d) \/ EndCommits(d) \/ OverrideCommits(d) \/ CallCounts(d))
          \/ (\E d \in Calls, s \in Students, st \in OverrideTo : OverrideLoads(d, s, st))
        => UNCHANGED job
    BY DEF EndLoads, EndCommits, OverrideCommits, CallCounts, OverrideLoads
  <1>8. ExpireStep => UNCHANGED call
    BY DEF ExpireStep, ExpireLoads, ExpireCounts, ExpireCommits
  <1> QED  BY <1>1, <1>2, <1>3, <1>4, <1>5, <1>6, <1>7, <1>8

LEMMA BoundStep == TInv /\ ChecksInv /\ BoundInv /\ [Next]_vars => BoundInv'
  <1> SUFFICES ASSUME TInv, ChecksInv, BoundInv, [Next]_vars, NoOverride'
               PROVE  /\ FromScans'
                      /\ session'.count <= Credited'
                      /\ \A c \in Calls : call'[c].present <= Credited'
                      /\ job'.present <= Credited'
    BY DEF BoundInv
  <1>0. /\ NoOverride
        /\ session \in SessionRow
        /\ record \in [Students -> RecordRow]
        /\ req \in [Requests -> ReqState]
        /\ \A c \in Calls : call[c].present \in Nat
        /\ job.present \in Nat
        /\ session.count \in Nat
    BY NoOverrideBefore DEF TInv, TypeOK, SessionRow, CallState, JobState
  <1>1. /\ FromScans
        /\ session.count <= Credited
        /\ \A c \in Calls : call[c].present <= Credited
        /\ job.present <= Credited
    BY <1>0 DEF BoundInv
  <1>2. Credited \in Nat /\ NumPresent \in Nat /\ NumPresent <= Credited
    BY <1>1, PresentAtMostCredited
  <1>3. FromScans'
    <2> SUFFICES ASSUME NEW s \in Students, record'[s].status = "present"
                 PROVE  \E r \in Answer("present")' : req'[r].student = s
      BY DEF FromScans, PresentStudents
    <2>1. CASE record[s].status = "present"
      <3>1. PICK r \in Answer("present") : req[r].student = s
        BY <1>1, <2>1 DEF FromScans, PresentStudents
      <3> QED  BY <3>1, CreditedFrame
    <2>2. ASSUME NEW r \in Requests, Marked(r), req[r].student \in Students,
                 record[s].status # "present"
          PROVE  r \in Answer("present")' /\ req'[r].student = s
      <3>1. req[r].student = s
        BY <1>0, <2>2 DEF Marked, Scanned
      <3> QED  BY <1>0, <2>2, <3>1 DEF Marked, Answered, ReqState, Answer
    <2>3. ASSUME NEW c \in Calls, OverrideCommits(c) PROVE FALSE
      BY <2>3 DEF OverrideCommits, NoOverride, OverrideDone, TInv, TypeOK, CallState
    <2> QED  BY <2>1, <2>2, <2>3, RecordFrame
  <1>4. Credited' \in Nat /\ Credited <= Credited'
    <2>1. Credited' \in Nat
      <3>1. IsFiniteSet(Answer("present")')
        BY ConstantsAssumption, FS_Subset DEF Answer
      <3> QED  BY <3>1, FS_CardinalityType DEF Credited
    <2> QED  BY <1>2, <2>1, CreditedFrame
  <1>5. session'.count <= Credited'
    <2>1. ASSUME NEW r \in Requests, Marked(r) PROVE session'.count <= Credited'
      <3>1. session'.count = session.count + 1
        BY <1>0, <2>1 DEF Marked, CountAfterScan, SessionRow
      <3>2. Credited' = Credited + 1
        BY <2>1, CreditedFrame
      <3> QED  BY <1>0, <1>1, <1>2, <3>1, <3>2
    <2>2. ASSUME NEW c \in Calls, EndCommits(c) PROVE session'.count <= Credited'
      <3>1. session'.count \in {session.count, call[c].present}
        BY <2>2 DEF EndCommits, CountWritten
      <3> QED  BY <1>0, <1>1, <1>2, <1>4, <3>1
    <2>3. CASE ExpireCommits
      <3>1. session'.count \in {session.count, job.present}
        BY <1>0, <2>3 DEF ExpireCommits, CountWritten, SessionRow
      <3> QED  BY <1>0, <1>1, <1>2, <1>4, <3>1
    <2>4. CASE UNCHANGED session
      BY <1>0, <1>1, <1>2, <1>4, <2>4
    <2>5. ASSUME NEW c \in Calls, OverrideCommits(c) PROVE FALSE
      BY <2>5 DEF OverrideCommits, NoOverride, OverrideDone, TInv, TypeOK, CallState
    <2> QED
      BY <2>1, <2>2, <2>3, <2>4, <2>5
      DEF Next, vars, book, Tick, GrowOld, ShowQr, CleanupTokens, VerifyBegins,
          FaceRejected, VerifyDies, FaceVerified, FaceExpires, TurnedAway, MarkBegins, MarkStep,
          FaceTokenConsumed, QrConsumed, FaceTokenRefused, QrRefused, GpsPassed, GpsRefused,
          SnapshotLocked, SnapshotInserted, BleRefused, MarkConflicts, MarkDies, EndLoads, CallCounts,
          OverrideLoads, ExpireStep, ExpireLoads, ExpireCounts
  <1>6. /\ \A c \in Calls : call'[c].present <= Credited'
        /\ job'.present <= Credited'
    <2>1. \A n \in Nat : n <= Credited => n <= Credited'
      BY <1>2, <1>4
    <2>2. 0 <= Credited
      BY <1>2
    <2> QED  BY <1>0, <1>1, <1>2, <2>1, <2>2, CountsFrame
  <1> QED  BY <1>3, <1>5, <1>6

LEMMA BoundHolds == Spec => []BoundInv
  <1>1. Init => BoundInv
    <2> SUFFICES ASSUME Init PROVE BoundInv
      OBVIOUS
    <2>1. \A s \in Students : record[s] \in {DefaultAbsent, NoRecord}
      BY DEF Init
    <2>2. FromScans
      BY <2>1 DEF FromScans, PresentStudents, DefaultAbsent, NoRecord
    <2>3. 0 <= Credited
      BY <2>2, PresentAtMostCredited
    <2> QED  BY <2>2, <2>3 DEF Init, BoundInv, IdleCall, IdleJob
  <1>2. EvidenceInv => ChecksInv
    BY DEF EvidenceInv
  <1> QED  BY <1>1, <1>2, BoundStep, TInvHolds, EvidenceHolds, PTL DEF Spec

\* However many closes, of the teacher and of the job, race with the scans, the
\* count they leave never exceeds the scans answered with success.
THEOREM ClosesCreditNobody == Spec => []ClosedCountBounded
  BY BoundHolds, PTL DEF BoundInv, ClosedCountBounded, Credited

\* While the session is open and nobody overrides, its count only grows, and it
\* grows with every change of a record: a call that finds the count it loaded
\* counted the students who are present still.
LoadedInv ==
    NoOverride /\ session.status = "active" =>
        \A c \in Calls : call[c].pc \in {"loaded", "counted"} =>
            /\ call[c].count <= session.count
            /\ call[c].pc = "counted" /\ call[c].count = session.count
                 => call[c].present = NumPresent

LEMMA LoadedStep == TInv /\ LoadedInv /\ [Next]_vars => LoadedInv'
  <1> SUFFICES ASSUME TInv, LoadedInv, [Next]_vars, NoOverride', session'.status = "active",
                      NEW c \in Calls, call'[c].pc \in {"loaded", "counted"}
               PROVE  /\ call'[c].count <= session'.count
                      /\ call'[c].pc = "counted" /\ call'[c].count = session'.count
                           => call'[c].present = NumPresent'
    BY DEF LoadedInv
  <1>0. /\ NoOverride
        /\ session \in SessionRow
        /\ call \in [Calls -> CallState]
        /\ call[c] \in CallState
        /\ call[c].count \in Nat
        /\ session.count \in Nat
    BY NoOverrideBefore DEF TInv, TypeOK, SessionRow, CallState
  <1>1. session.status = "active" /\ call[c].pc \in {"loaded", "counted"} =>
          /\ call[c].count <= session.count
          /\ call[c].pc = "counted" /\ call[c].count = session.count
               => call[c].present = NumPresent
    BY <1>0 DEF LoadedInv
  <1>2. ASSUME NEW r \in Requests, Marked(r)
        PROVE  call'[c] = call[c] /\ call'[c].count < session'.count
    <2>1. call'[c] = call[c] /\ session' = [session EXCEPT !.count = session.count + 1]
      BY <1>2 DEF Marked, CountAfterScan, staff
    <2>2. session'.count = session.count + 1 /\ session.status = "active"
      BY <1>0, <2>1 DEF SessionRow
    <2> QED  BY <1>0, <1>1, <2>1, <2>2
  <1>3. ASSUME NEW d \in Calls, OverrideCommits(d) PROVE FALSE
    BY <1>3 DEF OverrideCommits, NoOverride, OverrideDone, TInv, TypeOK, CallState
  <1>4. ASSUME NEW d \in Calls, EndCommits(d) PROVE FALSE
    BY <1>4 DEF EndCommits
  <1>5. ASSUME ExpireCommits PROVE FALSE
    BY <1>0, <1>5 DEF ExpireCommits, SessionRow
  <1>6. CASE UNCHANGED <<session, record, call>>
    <2>1. NumPresent' = NumPresent
      BY <1>6 DEF NumPresent, PresentStudents
    <2> QED  BY <1>1, <1>6, <2>1
  <1>7. ASSUME UNCHANGED book, NEW d \in Calls,
               EndLoads(d) \/ CallCounts(d) \/ \E s \in Students, st \in OverrideTo : OverrideLoads(d, s, st)
        PROVE  /\ call'[c].count <= session'.count
               /\ call'[c].pc = "counted" /\ call'[c].count = session'.count
                    => call'[c].present = NumPresent'
    <2>1. NumPresent' = NumPresent /\ session' = session
      BY <1>7 DEF NumPresent, PresentStudents, book
    <2>2. CASE d # c
      <3>1. call'[c] = call[c]
        BY <1>0, <1>7, <2>2 DEF EndLoads, CallCounts, OverrideLoads
      <3> QED  BY <1>1, <2>1, <3>1
    <2>3. CASE EndLoads(c)
      <3>1. call'[c] = [call[c] EXCEPT !.pc = "loaded", !.op = "end", !.count = session.count]
        BY <1>0, <2>3 DEF EndLoads
      <3>2. call'[c].pc = "loaded" /\ call'[c].count = session.count
        BY <1>0, <3>1 DEF CallState
      <3> QED  BY <1>0, <2>1, <3>2
    <2>4. CASE CallCounts(c)
      <3>1. call'[c] = [call[c] EXCEPT !.pc = "counted", !.present = NumPresent]
        BY <1>0, <2>4 DEF CallCounts
      <3>2. call'[c].count = call[c].count /\ call'[c].present = NumPresent
              /\ call[c].pc = "loaded"
        BY <1>0, <2>4, <3>1 DEF CallState, CallCounts
      <3> QED  BY <1>1, <2>1, <3>2
    <2>5. ASSUME NEW s \in Students, NEW st \in OverrideTo, OverrideLoads(c, s, st)
          PROVE  call'[c].pc = "loaded" /\ call'[c].count = session.count
      BY <1>0, <2>5 DEF OverrideLoads
    <2> QED  BY <1>0, <1>7, <2>1, <2>2, <2>3, <2>4, <2>5
  <1>8. \/ \E r \in Requests : Marked(r)
        \/ \E d \in Calls : OverrideCommits(d) \/ EndCommits(d)
        \/ ExpireCommits
        \/ UNCHANGED <<session, record, call>>
        \/ /\ UNCHANGED book
           /\ \E d \in Calls :
                EndLoads(d) \/ CallCounts(d) \/ \E s \in Students, st \in OverrideTo : OverrideLoads(d, s, st)
    BY DEF Next, vars, book, staff, Tick, GrowOld, ShowQr, CleanupTokens, VerifyBegins,
          FaceRejected, VerifyDies, FaceVerified, FaceExpires, TurnedAway, MarkBegins, MarkStep,
          FaceTokenConsumed, QrConsumed, FaceTokenRefused, QrRefused, GpsPassed, GpsRefused,
          SnapshotLocked, SnapshotInserted, BleRefused, MarkConflicts, MarkDies, EndLoads, CallCounts,
          OverrideLoads, ExpireStep, ExpireLoads, ExpireCounts
  <1>9. ASSUME NEW r \in Requests, Marked(r)
        PROVE  /\ call'[c].count <= session'.count
               /\ call'[c].count # session'.count
    <2>1. call'[c].count \in Nat /\ session'.count \in Nat
      BY TStep DEF TInv, TypeOK, CallState, SessionRow
    <2> QED  BY <1>2, <1>9, <2>1
  <1> QED  BY <1>3, <1>4, <1>5, <1>6, <1>7, <1>8, <1>9

\* A teacher's close that no scan and no other close raced leaves the number of
\* students present: double counts are repaired, for any number of both.
THEOREM CloseRepairsTheCount == Spec => CloseReconciles
  <1>1. Init => LoadedInv
    BY DEF Init, LoadedInv, IdleCall
  <1> DEFINE Repaired ==
        \A c \in Calls :
           /\ call[c].pc = "counted" /\ call'[c].pc = "done" /\ call[c].op = "end"
           /\ session.status = "active"
           /\ session.count = call[c].count
           /\ NoOverride
           => session'.count = NumPresent
  <1>2. TInv /\ LoadedInv /\ [Next]_vars => [Repaired]_vars
    <2> SUFFICES ASSUME TInv, LoadedInv, [Next]_vars, NEW c \in Calls,
                        call[c].pc = "counted", call'[c].pc = "done", call[c].op = "end",
                        session.status = "active", session.count = call[c].count, NoOverride
                 PROVE  session'.count = NumPresent
      OBVIOUS
    <2>0. call \in [Calls -> CallState]
      BY DEF TInv, TypeOK
    <2>1. call[c].present = NumPresent
      BY DEF LoadedInv
    <2>2. EndCommits(c)
      <3>1. ASSUME NEW d \in Calls, EndLoads(d) \/ CallCounts(d) PROVE FALSE
        BY <2>0, <3>1 DEF EndLoads, CallCounts
      <3>2. ASSUME NEW d \in Calls, NEW s \in Students, NEW st \in OverrideTo,
                   OverrideLoads(d, s, st)
            PROVE  FALSE
        BY <2>0, <3>2 DEF OverrideLoads
      <3>3. ASSUME NEW d \in Calls, OverrideCommits(d) PROVE FALSE
        BY <2>0, <3>3 DEF OverrideCommits
      <3>4. ASSUME NEW d \in Calls, EndCommits(d) PROVE d = c
        BY <2>0, <3>4 DEF EndCommits
      <3>5. ~UNCHANGED call
        OBVIOUS
      <3> QED
        BY <3>1, <3>2, <3>3, <3>4, <3>5
        DEF Next, vars, staff, Tick, GrowOld, ShowQr, CleanupTokens, VerifyBegins, FaceRejected,
            VerifyDies, FaceVerified, FaceExpires, TurnedAway, MarkBegins, MarkStep,
            FaceTokenConsumed, QrConsumed, FaceTokenRefused, QrRefused, GpsPassed, GpsRefused,
            SnapshotLocked, SnapshotInserted, BleRefused, Marked, MarkConflicts, MarkDies, ExpireStep,
            ExpireLoads, ExpireCounts, ExpireCommits
    <2>3. session'.count = CountWritten(call[c])
      BY <2>2 DEF EndCommits
    <2> QED  BY <2>1, <2>3 DEF CountWritten
  <1>3. Spec => [][Repaired]_vars
    BY <1>1, <1>2, LoadedStep, TInvHolds, PTL DEF Spec
  <1> QED  BY <1>3 DEF CloseReconciles

=============================================================================

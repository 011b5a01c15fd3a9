------------------------ MODULE OfflineQueue_proofs ------------------------
(***************************************************************************)
(* Proofs about OfflineQueue, for any set of submissions, any MAX_RETRIES  *)
(* and any number of kills and failing storage writes.                     *)
(***************************************************************************)
EXTENDS OfflineQueue, TLAPS

\* The item in hand, once there is one
InHand == {"clear", "clearing", "notice", "retry", "retrying"}

ItemOK ==
    /\ sync.pc \in InHand => sync.item \in Ops
    /\ sync.pc \in {"retry", "retrying"} => sync.retries \in 0 .. MaxRetries
    /\ sync.pc \in {"clear", "clearing"} /\ sync.notice = "none" => sync.retries > 0

TInv == TypeOK /\ ItemOK

LEMMA WithoutType ==
    ASSUME NEW q \in Queue, NEW o \in Ops
    PROVE  Without(q, o) \in Queue
  BY QueueAssumption DEF Queue, Without, NotQueued

LEMMA StoredType ==
    ASSUME NEW q \in Queue, NEW o \in Ops, NEW n \in 0 .. MaxRetries
    PROVE  [q EXCEPT ![o] = n] \in Queue
  BY QueueAssumption DEF Queue, NotQueued

LEMMA EmptyType == EmptyQueue \in Queue
  BY QueueAssumption DEF Queue, EmptyQueue, NotQueued

LEMMA StepType ==
    ASSUME NEW s \in SyncState,
           NEW p \in {"started", "reading", "next", "notice"}
    PROVE  [s EXCEPT !.pc = p] \in SyncState
  BY DEF SyncState

LEMMA IdleType == IdleSync \in SyncState /\ [IdleSync EXCEPT !.pc = "started"] \in SyncState
  <1>1. IdleSync \in SyncState
    BY QueueAssumption, EmptyType DEF IdleSync, SyncState
  <1> QED  BY <1>1, StepType

LEMMA ReadType ==
    ASSUME NEW s \in SyncState, NEW q \in Queue
    PROVE  [s EXCEPT !.pc = "next", !.todo = q] \in SyncState
  BY DEF SyncState

LEMMA CopyType ==
    ASSUME NEW s \in SyncState, NEW q \in Queue, NEW p \in {"notice", "clearing", "retrying"}
    PROVE  [s EXCEPT !.pc = p, !.copy = q] \in SyncState
  BY DEF SyncState

LEMMA SentType ==
    ASSUME NEW s \in SyncState, NEW o \in Ops, NEW q \in Queue,
           NEW n \in {"none", "rejected", "failed"}, NEW k \in 0 .. MaxRetries + 1
    PROVE  /\ [s EXCEPT !.pc = "clear", !.item = o, !.todo = q, !.notice = n,
                        !.stop = FALSE] \in SyncState
           /\ [s EXCEPT !.pc = "clear", !.item = o, !.todo = q, !.retries = k,
                        !.notice = n, !.stop = FALSE] \in SyncState
  BY DEF SyncState

LEMMA FailedType ==
    ASSUME NEW s \in SyncState, NEW o \in Ops, NEW q \in Queue,
           NEW p \in {"clear", "retry"}, NEW n \in 0 .. MaxRetries + 1, NEW b \in BOOLEAN
    PROVE  [s EXCEPT !.pc = p, !.item = o, !.todo = q, !.retries = n,
                     !.notice = "gave_up", !.stop = b] \in SyncState
  BY DEF SyncState

LEMMA SubType ==
    ASSUME NEW s \in [Ops -> SubState], NEW o \in Ops, NEW q \in Queue,
           NEW p \in {"answered", "adding", "writing", "saved", "gone"}
    PROVE  /\ [s EXCEPT ![o].pc = p] \in [Ops -> SubState]
           /\ [s EXCEPT ![o] = [pc |-> p, copy |-> q]] \in [Ops -> SubState]
  BY DEF SubState

LEMMA ProcessType ==
    ASSUME TypeOK, NEW o \in Ops, Process(o)
    PROVE  applied' \in [Ops -> 0 .. 2]
  BY DEF TypeOK, Process

LEMMA TInit == Init => TInv
  <1> SUFFICES ASSUME Init PROVE TInv
    OBVIOUS
  <1> USE QueueAssumption
  <1>1. store \in Queue /\ sync \in SyncState
    BY EmptyType, IdleType DEF Init
  <1>2. sub \in [Ops -> SubState]
    <2>1. [pc |-> "new", copy |-> EmptyQueue] \in SubState
      BY EmptyType DEF SubState
    <2> QED  BY <2>1 DEF Init
  <1>3. ItemOK
    BY DEF Init, ItemOK, IdleSync, InHand
  <1>4. /\ told \in [Ops -> {"nothing", "saved", "rejected", "failed", "gave_up"}]
        /\ applied \in [Ops -> 0 .. 2]
        /\ fails \in [Ops -> 0 .. MaxRetries + 1]
    BY DEF Init
  <1>5. /\ online \in BOOLEAN
        /\ lost \subseteq Ops
        /\ raced \in BOOLEAN
    BY DEF Init
  <1>6. mishaps \in 0 .. MaxMishaps
    BY DEF Init
  <1> QED  BY <1>1, <1>2, <1>3, <1>4, <1>5, <1>6 DEF TInv, TypeOK

LEMMA AfterItemOK ==
    ASSUME TInv, sync' = AfterItem
    PROVE  sync' \in SyncState /\ ItemOK'
  <1>1. CASE sync.stop
    BY <1>1, IdleType DEF AfterItem, ItemOK, IdleSync, InHand
  <1>2. CASE ~sync.stop
    <2>1. sync' = [sync EXCEPT !.pc = "next"]
      BY <1>2 DEF AfterItem
    <2>2. sync' \in SyncState
      <3>1. sync \in SyncState
        BY DEF TInv, TypeOK
      <3>2. [sync EXCEPT !.pc = "next"] \in SyncState
        BY <3>1, StepType
      <3> QED  BY <2>1, <3>2
    <2>3. sync'.pc = "next"
      BY <2>1 DEF TInv, TypeOK, SyncState
    <2> QED  BY <2>2, <2>3 DEF ItemOK, InHand
  <1> QED  BY <1>1, <1>2

\* An item that may be sent has at most MAX_RETRIES retries.
LEMMA SendableRetries ==
    ASSUME TInv, NEW o \in Ops, MaySend(o)
    PROVE  sync.todo[o] \in 0 .. MaxRetries
  BY QueueAssumption DEF MaySend, Queued, Queue, NotQueued, TInv, TypeOK, SyncState

\* A failed try, field by field
LEMMA TriedFields ==
    ASSUME TInv, NEW o \in Ops, NEW n \in 1 .. MaxRetries + 1, NEW b \in BOOLEAN,
           sync' = Tried(o, n, b)
    PROVE  /\ sync' \in SyncState /\ ItemOK'
           /\ sync'.pc = IF n > MaxRetries THEN "clear" ELSE "retry"
           /\ sync'.item = o /\ sync'.copy = sync.copy
           /\ sync'.todo = Without(sync.todo, o)
           /\ sync'.retries = n /\ sync'.notice = "gave_up"
  <1> USE QueueAssumption
  <1> DEFINE p == IF LastTry(n) THEN "clear" ELSE "retry"
             c == b /\ ~LastTry(n)
  <1>1. sync \in SyncState /\ Without(sync.todo, o) \in Queue
    BY WithoutType DEF TInv, TypeOK, SyncState
  <1>2. p \in {"clear", "retry"} /\ c \in BOOLEAN /\ n \in 0 .. MaxRetries + 1
    OBVIOUS
  <1>3. sync' = [sync EXCEPT !.pc = p, !.item = o, !.todo = Without(sync.todo, o),
                             !.retries = n, !.notice = "gave_up", !.stop = c]
    BY DEF Tried
  <1>4. p = IF n > MaxRetries THEN "clear" ELSE "retry"
    BY DEF LastTry
  <1> HIDE DEF p, c
  <1> DEFINE q == Without(sync.todo, o)
  <1>5. sync' \in SyncState
    <2>1. q \in Queue /\ sync' = [sync EXCEPT !.pc = p, !.item = o, !.todo = q,
                                   !.retries = n, !.notice = "gave_up", !.stop = c]
      BY <1>1, <1>3
    <2> HIDE DEF q
    <2>2. p \in {"clear", "retry"} /\ c \in BOOLEAN /\ n \in 0 .. MaxRetries + 1
      BY <1>2
    <2>3. sync \in SyncState /\ q \in Queue
      BY <1>1, <2>1
    <2>4. [sync EXCEPT !.pc = p, !.item = o, !.todo = q, !.retries = n,
                       !.notice = "gave_up", !.stop = c] \in SyncState
      BY <2>2, <2>3, FailedType
    <2> QED  BY <2>1, <2>4
  <1>6. /\ sync'.pc = p /\ sync'.item = o /\ sync'.copy = sync.copy
        /\ sync'.todo = Without(sync.todo, o)
        /\ sync'.retries = n /\ sync'.notice = "gave_up"
    BY <1>1, <1>3 DEF SyncState
  <1>7. ItemOK'
    BY <1>2, <1>4, <1>6 DEF ItemOK, InHand
  <1> QED  BY <1>4, <1>5, <1>6, <1>7

LEMMA CountType ==
    ASSUME TInv, NEW o \in Ops, CountFailure(o)
    PROVE  fails' \in [Ops -> 0 .. MaxRetries + 1]
  BY QueueAssumption DEF CountFailure, TInv, TypeOK

LEMMA MishapType ==
    ASSUME TInv, Mishap
    PROVE  mishaps' \in 0 .. MaxMishaps
  BY QueueAssumption DEF Mishap, TInv, TypeOK

LEMMA TNext == TInv /\ [Next]_vars => TInv'
  <1> SUFFICES ASSUME TInv, [Next]_vars PROVE TInv'
    OBVIOUS
  <1> USE QueueAssumption
  <1>1. ASSUME NEW o \in Ops, SubmitAnswered(o) PROVE TInv'
    BY <1>1, SubType, EmptyType, ProcessType DEF SubmitAnswered, TInv, TypeOK, ItemOK
  <1>2. ASSUME NEW o \in Ops, SubmitUnanswered(o) PROVE TInv'
    BY <1>2, SubType, EmptyType, ProcessType DEF SubmitUnanswered, TInv, TypeOK, ItemOK
  <1>3. ASSUME NEW o \in Ops, AddReads(o) PROVE TInv'
    BY <1>3, SubType DEF AddReads, TInv, TypeOK, ItemOK
  <1>4. ASSUME NEW o \in Ops, AddWrites(o) PROVE TInv'
    <2>1. sub[o].copy \in Queue
      BY DEF TInv, TypeOK, SubState
    <2>2. store' \in Queue
      BY <1>4, <2>1, StoredType DEF AddWrites
    <2>3. sub' \in [Ops -> SubState]
      BY <1>4, SubType, EmptyType DEF AddWrites, TInv, TypeOK
    <2> QED  BY <1>4, <2>2, <2>3 DEF AddWrites, Stale, TInv, TypeOK, ItemOK
  <1>5. CASE GoOffline
    BY <1>5 DEF GoOffline, TInv, TypeOK, ItemOK
  <1>6. CASE GoOnline
    <2>1. sync' \in SyncState
      BY <1>6, StepType DEF GoOnline, Triggered, TInv, TypeOK
    <2>2. sync' = sync \/ sync'.pc = "started"
      BY <1>6 DEF GoOnline, Triggered, TInv, TypeOK, SyncState
    <2>3. ItemOK'
      BY <2>2 DEF TInv, ItemOK, InHand
    <2> QED  BY <1>6, <2>1, <2>3 DEF GoOnline, TInv, TypeOK
  <1>7. CASE Restart
    <2>1. sub' \in [Ops -> SubState]
      BY <1>7, EmptyType DEF Restart, TInv, TypeOK, SubState
    <2>2. sync' \in SyncState /\ ItemOK'
      BY <1>7, IdleType DEF Restart, ItemOK, IdleSync, InHand
    <2>3. lost' \subseteq Ops
      BY <1>7 DEF Restart, TInv, TypeOK, ItemOK, InHand
    <2>4. mishaps' \in 0 .. MaxMishaps
      BY <1>7, MishapType DEF Restart
    <2> QED  BY <1>7, <2>1, <2>2, <2>3, <2>4 DEF Restart, TInv, TypeOK
  <1>8. CASE SyncChecks
    <2>1. sync' = IdleSync \/ sync' = [sync EXCEPT !.pc = "reading"]
      BY <1>8 DEF SyncChecks
    <2>2. sync' \in SyncState
      BY <2>1, StepType, IdleType DEF TInv, TypeOK
    <2>3. sync'.pc \in {"idle", "reading"}
      BY <2>1 DEF TInv, TypeOK, SyncState, IdleSync
    <2>4. ItemOK'
      BY <2>3 DEF ItemOK, InHand
    <2> QED  BY <1>8, <2>2, <2>4 DEF SyncChecks, TInv, TypeOK
  <1>9. CASE SyncReads
    <2>1. sync' = [sync EXCEPT !.pc = "next", !.todo = store]
      BY <1>9 DEF SyncReads
    <2>2. sync' \in SyncState
      BY <2>1, ReadType DEF TInv, TypeOK
    <2>3. sync'.pc = "next"
      BY <2>1 DEF TInv, TypeOK, SyncState
    <2>4. ItemOK'
      BY <2>3 DEF ItemOK, InHand
    <2> QED  BY <1>9, <2>2, <2>4 DEF SyncReads, TInv, TypeOK
  <1>10. ASSUME NEW o \in Ops, SendSucceeds(o) PROVE TInv'
    <2>1. Without(sync.todo, o) \in Queue
      BY WithoutType DEF TInv, TypeOK, SyncState
    <2>0. sync.todo[o] \in 0 .. MaxRetries
      BY <1>10, SendableRetries DEF SendSucceeds
    <2>2. sync' \in SyncState
      <3>1. sync.todo[o] + 1 \in 0 .. MaxRetries + 1
        BY <2>0
      <3> QED  BY <1>10, <2>1, <3>1, SentType DEF SendSucceeds, TInv, TypeOK
    <2>3. sync'.pc = "clear" /\ sync'.item = o /\ sync'.retries > 0
      BY <1>10, <2>0 DEF SendSucceeds, TInv, TypeOK, SyncState
    <2> QED  BY <1>10, <2>2, <2>3, ProcessType DEF SendSucceeds, TInv, TypeOK, ItemOK
  <1>11. ASSUME NEW o \in Ops, SendRefused(o) PROVE TInv'
    <2>1. Without(sync.todo, o) \in Queue
      BY WithoutType DEF TInv, TypeOK, SyncState
    <2>2. sync' \in SyncState
      <3>1. PICK n \in {"rejected", "failed"} :
              sync' = [sync EXCEPT !.pc = "clear", !.item = o, !.todo = Without(@, o),
                                   !.notice = n, !.stop = FALSE]
        BY <1>11 DEF SendRefused
      <3> QED  BY <2>1, <3>1, SentType DEF TInv, TypeOK
    <2>3. sync'.pc = "clear" /\ sync'.item = o /\ sync'.notice # "none"
      BY <1>11 DEF SendRefused, TInv, TypeOK, SyncState
    <2> QED  BY <1>11, <2>2, <2>3 DEF SendRefused, TInv, TypeOK, ItemOK
  <1>12. ASSUME NEW o \in Ops, SendFails(o) PROVE TInv'
    <2>1. sync.todo[o] \in 0 .. MaxRetries
      BY <1>12, SendableRetries DEF SendFails
    <2>2. PICK b \in BOOLEAN : sync' = Tried(o, sync.todo[o] + 1, b)
      BY <1>12 DEF SendFails
    <2>3. sync.todo[o] + 1 \in 1 .. MaxRetries + 1
      BY <2>1
    <2>5. sync' \in SyncState /\ ItemOK'
      BY <2>2, <2>3, TriedFields
    <2>7. applied' \in [Ops -> 0 .. 2] /\ lost' \subseteq Ops
      BY <1>12, ProcessType DEF SendFails, TInv, TypeOK
    <2>8. fails' \in [Ops -> 0 .. MaxRetries + 1]
      BY <1>12, CountType DEF SendFails
    <2> QED  BY <1>12, <2>5, <2>7, <2>8 DEF SendFails, TInv, TypeOK
  <1>13. CASE ClearReads
    <2>1. PICK p \in {"notice", "clearing"} :
            sync.pc = "clear" /\ sync' = [sync EXCEPT !.pc = p, !.copy = store]
      BY <1>13 DEF ClearReads
    <2>2. sync' \in SyncState
      BY <2>1, CopyType DEF TInv, TypeOK
    <2>3. sync' = [sync EXCEPT !.pc = p, !.copy = store] /\ sync \in SyncState
      BY <2>1 DEF TInv, TypeOK
    <2>4. /\ sync'.pc = p /\ sync'.item = sync.item
          /\ sync'.retries = sync.retries /\ sync'.notice = sync.notice
      BY <2>3 DEF SyncState
    <2>5. ItemOK'
      BY <2>1, <2>4 DEF TInv, ItemOK, InHand
    <2> QED  BY <1>13, <2>2, <2>5 DEF ClearReads, TInv, TypeOK
  <1>14. CASE ClearWrites
    <2>1. store' \in Queue
      BY <1>14, WithoutType DEF ClearWrites, Cleared, TInv, TypeOK, ItemOK, InHand, SyncState
    <2>2. sync.pc = "clearing" /\ sync' = [sync EXCEPT !.pc = "notice"]
      BY <1>14 DEF ClearWrites
    <2>3. sync' \in SyncState
      BY <2>2, StepType DEF TInv, TypeOK
    <2>4. sync'.pc = "notice" /\ sync'.item = sync.item
      BY <2>2 DEF TInv, TypeOK, SyncState
    <2>5. ItemOK'
      BY <2>2, <2>4 DEF TInv, ItemOK, InHand
    <2> QED  BY <1>14, <2>1, <2>3, <2>5 DEF ClearWrites, Stale, TInv, TypeOK
  <1>15. CASE Notifies
    <2>1. told' \in [Ops -> {"nothing", "saved", "rejected", "failed", "gave_up"}]
      BY <1>15 DEF Notifies, TInv, TypeOK, SyncState
    <2> QED  BY <1>15, <2>1, AfterItemOK DEF Notifies, TInv, TypeOK
  <1>16. CASE RetryReads
    <2>1. sync' \in SyncState /\ ItemOK'
      <3>1. CASE store[sync.item] = NotQueued
        BY <1>16, <3>1, AfterItemOK DEF RetryReads
      <3>2. CASE store[sync.item] # NotQueued
        <4>1. sync.pc = "retry" /\ sync' = [sync EXCEPT !.pc = "retrying", !.copy = store]
          BY <1>16, <3>2 DEF RetryReads
        <4>2. sync' \in SyncState
          BY <4>1, CopyType DEF TInv, TypeOK
        <4>3. sync'.pc = "retrying" /\ sync'.item = sync.item /\ sync'.retries = sync.retries
          BY <4>1 DEF TInv, TypeOK, SyncState
        <4>4. ItemOK'
          BY <4>1, <4>3 DEF TInv, ItemOK, InHand
        <4> QED  BY <4>2, <4>4
      <3> QED  BY <3>1, <3>2
    <2> QED  BY <1>16, <2>1 DEF RetryReads, TInv, TypeOK
  <1>17. CASE RetryWrites
    <2>1. store' \in Queue
      BY <1>17, StoredType DEF RetryWrites, TInv, TypeOK, ItemOK, InHand, SyncState
    <2> QED  BY <1>17, <2>1, AfterItemOK DEF RetryWrites, Stale, TInv, TypeOK
  <1>18. CASE SyncEnds
    BY <1>18, IdleType DEF SyncEnds, TInv, TypeOK, ItemOK, InHand, IdleSync
  <1>19. ASSUME NEW o \in Ops, AddThrows(o) PROVE TInv'
    <2>1. sub' \in [Ops -> SubState]
      BY <1>19, SubType, EmptyType DEF AddThrows, TInv, TypeOK
    <2> QED  BY <1>19, <2>1, MishapType DEF AddThrows, TInv, TypeOK, ItemOK
  <1>20. CASE ClearThrows
    <2>1. sync.item \in Ops
      BY <1>20 DEF ClearThrows, TInv, ItemOK, InHand
    <2>2. sync' \in SyncState /\ ItemOK' /\ fails' \in [Ops -> 0 .. MaxRetries + 1]
      <3>1. CASE sync.notice = "none"
        <4>1. sync.retries \in 1 .. MaxRetries + 1
          BY <1>20, <3>1 DEF ClearThrows, TInv, ItemOK, TypeOK, SyncState
        <4>2. sync' = Tried(sync.item, sync.retries, TRUE) /\ CountFailure(sync.item)
          BY <1>20, <3>1 DEF ClearThrows
        <4>3. fails' \in [Ops -> 0 .. MaxRetries + 1]
          BY <2>1, <4>2, CountType
        <4>4. sync' \in SyncState /\ ItemOK'
          BY <2>1, <4>1, <4>2, TriedFields
        <4> QED  BY <4>3, <4>4
      <3>2. CASE sync.notice # "none"
        <4>1. sync' = IdleSync /\ fails' = fails
          BY <1>20, <3>2 DEF ClearThrows
        <4>2. ItemOK'
          BY <4>1 DEF ItemOK, IdleSync, InHand
        <4> QED  BY <4>1, <4>2, IdleType DEF TInv, TypeOK
      <3> QED  BY <3>1, <3>2
    <2> QED  BY <1>20, <2>1, <2>2, MishapType DEF ClearThrows, TInv, TypeOK
  <1>21. CASE RetryThrows
    BY <1>21, IdleType, MishapType DEF RetryThrows, TInv, TypeOK, ItemOK, IdleSync, InHand
  <1>22. CASE UNCHANGED vars
    BY <1>22 DEF vars, TInv, TypeOK, ItemOK
  <1> QED
    BY <1>1, <1>2, <1>3, <1>4, <1>5, <1>6, <1>7, <1>8, <1>9, <1>10, <1>11, <1>12,
       <1>13, <1>14, <1>15, <1>16, <1>17, <1>18, <1>19, <1>20, <1>21, <1>22
       DEF Next, SyncStep, AddStep, StorageFails

\* Every variable of the queue keeps its type: in particular no item is stored
\* with more than MAX_RETRIES retries (offlineQueue.js, _persistRetry).
THEOREM QueueTypeCorrect == Spec => []TypeOK
  <1>1. TInv => TypeOK
    BY DEF TInv
  <1> QED  BY <1>1, TInit, TNext, PTL DEF Spec

-----------------------------------------------------------------------------
(* What the steps of a run do to it, field by field *)

LEMMA SendFields ==
    ASSUME TInv, NEW o \in Ops, SendSucceeds(o) \/ SendRefused(o)
    PROVE  /\ sync.pc = "next" /\ sync.todo[o] # NotQueued
           /\ sync'.pc = "clear" /\ sync'.item = o /\ sync'.copy = sync.copy
           /\ sync'.todo = Without(sync.todo, o)
           /\ SendSucceeds(o) => sync'.notice = "none" /\ sync'.retries = sync.todo[o] + 1
           /\ SendRefused(o) => sync'.notice \in {"rejected", "failed"}
  <1>1. SendSucceeds(o) =>
          /\ sync'.pc = "clear" /\ sync'.item = o /\ sync'.copy = sync.copy
          /\ sync'.todo = Without(sync.todo, o) /\ sync'.notice = "none"
          /\ sync'.retries = sync.todo[o] + 1
    BY DEF SendSucceeds, TInv, TypeOK, SyncState
  <1>2. ASSUME SendRefused(o)
        PROVE  /\ sync'.pc = "clear" /\ sync'.item = o /\ sync'.copy = sync.copy
               /\ sync'.todo = Without(sync.todo, o)
               /\ sync'.notice \in {"rejected", "failed"}
    <2>1. PICK n \in {"rejected", "failed"} :
              sync' = [sync EXCEPT !.pc = "clear", !.item = o, !.todo = Without(@, o),
                                   !.notice = n, !.stop = FALSE]
      BY <1>2 DEF SendRefused
    <2> QED  BY <2>1 DEF TInv, TypeOK, SyncState
  <1>3. sync.pc = "next" /\ sync.todo[o] # NotQueued
    BY DEF SendSucceeds, SendRefused, MaySend, Queued
  <1> QED  BY <1>1, <1>2, <1>3

LEMMA FailFields ==
    ASSUME TInv, NEW o \in Ops, SendFails(o)
    PROVE  /\ sync.pc = "next" /\ sync.todo[o] \in 0 .. MaxRetries
           /\ sync'.pc = IF sync.todo[o] + 1 > MaxRetries THEN "clear" ELSE "retry"
           /\ sync'.item = o /\ sync'.copy = sync.copy
           /\ sync'.todo = Without(sync.todo, o)
           /\ sync'.retries = sync.todo[o] + 1
           /\ sync'.notice = "gave_up"
  <1>1. sync.todo[o] \in 0 .. MaxRetries
    BY SendableRetries DEF SendFails
  <1>2. PICK b \in BOOLEAN : sync' = Tried(o, sync.todo[o] + 1, b)
    BY DEF SendFails
  <1>3. sync.todo[o] + 1 \in 1 .. MaxRetries + 1
    BY <1>1, QueueAssumption
  <1> QED  BY <1>1, <1>2, <1>3, TriedFields DEF SendFails

\* A failing clearItem: the try of a processed item fails, or the run ends.
LEMMA ThrowFields ==
    ASSUME TInv, ClearThrows
    PROVE  /\ sync.pc = "clearing" /\ sync.item \in Ops
           /\ sync.notice = "none" =>
                /\ sync.retries \in 1 .. MaxRetries + 1
                /\ sync'.pc = IF sync.retries > MaxRetries THEN "clear" ELSE "retry"
                /\ sync'.item = sync.item /\ sync'.copy = sync.copy
                /\ sync'.todo = Without(sync.todo, sync.item)
                /\ sync'.retries = sync.retries /\ sync'.notice = "gave_up"
           /\ sync.notice # "none" => sync' = IdleSync
  <1>1. sync.pc = "clearing" /\ sync.item \in Ops
    BY DEF ClearThrows, TInv, ItemOK, InHand
  <1>2. sync.notice = "none" => sync.retries \in 1 .. MaxRetries + 1
    BY <1>1 DEF TInv, ItemOK, TypeOK, SyncState
  <1>3. sync.notice = "none" => sync' = Tried(sync.item, sync.retries, TRUE)
    BY DEF ClearThrows
  <1>4. sync.notice # "none" => sync' = IdleSync
    BY DEF ClearThrows
  <1> QED  BY <1>1, <1>2, <1>3, <1>4, TriedFields

LEMMA AfterFields ==
    ASSUME TInv, sync' = AfterItem
    PROVE  /\ sync'.pc \in {"idle", "next"}
           /\ sync'.todo \in {sync.todo, EmptyQueue}
           /\ sync'.copy \in {sync.copy, EmptyQueue}
  <1>1. CASE sync.stop
    BY <1>1 DEF AfterItem, IdleSync
  <1>2. CASE ~sync.stop
    BY <1>2 DEF AfterItem, TInv, TypeOK, SyncState
  <1> QED  BY <1>1, <1>2

LEMMA RestartFields ==
    ASSUME TInv, Restart
    PROVE  /\ sync'.pc = "started" /\ sync'.todo = EmptyQueue /\ sync'.copy = EmptyQueue
           /\ \A p \in Ops :
                /\ sub'[p].pc = IF sub[p].pc \in {"adding", "writing"} THEN "gone"
                                ELSE sub[p].pc
                /\ sub'[p].copy \in {sub[p].copy, EmptyQueue}
  BY DEF Restart, IdleSync, TInv, TypeOK

-----------------------------------------------------------------------------
(* Given up after MAX_RETRIES + 1 failures *)

\* No queue, stored or in some flow's hands, counts more retries than sends
\* have failed.
Behind(q) == \A o \in Ops : q[o] <= fails[o]

CopiesBehind ==
    /\ Behind(store) /\ Behind(sync.todo) /\ Behind(sync.copy)
    /\ \A p \in Ops : Behind(sub[p].copy)

GivingUp ==
    /\ sync.pc \in {"retry", "retrying"} => sync.retries <= fails[sync.item]
    /\ sync.pc \in {"clear", "clearing", "notice"} /\ sync.notice = "gave_up"
         => fails[sync.item] = MaxRetries + 1
    /\ sync.pc \in {"clear", "clearing"} /\ sync.notice = "none"
         => sync.retries <= fails[sync.item] + 1

GInv == TInv /\ CopiesBehind /\ GivingUp /\ GivesUpLate

LEMMA EmptyBehind == TInv => Behind(EmptyQueue)
  BY QueueAssumption DEF TInv, TypeOK, Behind, EmptyQueue, NotQueued

LEMMA GInit == Init => GInv
  <1> SUFFICES ASSUME Init PROVE GInv
    OBVIOUS
  <1>1. TInv
    BY TInit
  <1>2. CopiesBehind
    BY <1>1, EmptyBehind DEF Init, CopiesBehind, IdleSync
  <1> QED  BY <1>1, <1>2 DEF Init, GInv, GivingUp, GivesUpLate, IdleSync

\* Nobody's count of failures goes down, and that of the failed item goes up.
LEMMA FailsGrow ==
    ASSUME TInv, NEW o \in Ops, CountFailure(o), NEW p \in Ops
    PROVE  /\ fails[p] <= fails'[p]
           /\ fails[p] = MaxRetries + 1 => fails'[p] = MaxRetries + 1
           /\ fails'[o] = IF fails[o] <= MaxRetries THEN fails[o] + 1 ELSE MaxRetries + 1
  <1>1. fails' = [fails EXCEPT ![o] = IF @ <= MaxRetries THEN @ + 1 ELSE @]
    BY DEF CountFailure
  <1>2. fails \in [Ops -> 0 .. MaxRetries + 1]
    BY DEF TInv, TypeOK
  <1> QED  BY <1>1, <1>2, QueueAssumption

LEMMA BehindGrows ==
    ASSUME TInv, NEW o \in Ops, CountFailure(o), NEW q \in Queue, Behind(q)
    PROVE  \A p \in Ops : q[p] <= fails'[p]
  <1>1. \A p \in Ops : fails[p] <= fails'[p]
    BY FailsGrow
  <1>2. \A p \in Ops : fails[p] \in Int /\ fails'[p] \in Int
    BY CountType, QueueAssumption DEF TInv, TypeOK
  <1> QED  BY <1>1, <1>2, QueueAssumption DEF Behind, Queue, NotQueued

LEMMA GNext == GInv /\ [Next]_vars => GInv'
  <1> SUFFICES ASSUME GInv, [Next]_vars PROVE GInv'
    OBVIOUS
  <1> USE QueueAssumption
  <1>0. TInv /\ TInv'
    BY TNext DEF GInv
  <1>e. Behind(EmptyQueue)
    BY <1>0, EmptyBehind
  <1>1. ASSUME NEW o \in Ops, SubmitAnswered(o) PROVE GInv'
    BY <1>0, <1>1 DEF SubmitAnswered, GInv, CopiesBehind, Behind, GivingUp, GivesUpLate,
       TInv, TypeOK, SubState
  <1>2. ASSUME NEW o \in Ops, SubmitUnanswered(o) PROVE GInv'
    BY <1>0, <1>2 DEF SubmitUnanswered, GInv, CopiesBehind, Behind, GivingUp, GivesUpLate,
       TInv, TypeOK, SubState
  <1>3. ASSUME NEW o \in Ops, AddReads(o) PROVE GInv'
    BY <1>0, <1>3 DEF AddReads, GInv, CopiesBehind, Behind, GivingUp, GivesUpLate,
       TInv, TypeOK, SubState
  <1>4. ASSUME NEW o \in Ops, AddWrites(o) PROVE GInv'
    <2>1. Behind(store)'
      <3>1. sub[o].copy \in Queue /\ Behind(sub[o].copy)
        BY <1>0 DEF GInv, CopiesBehind, TInv, TypeOK, SubState
      <3>2. \A p \in Ops : fails[p] >= 0 /\ fails'[p] = fails[p]
        BY <1>0, <1>4 DEF AddWrites, TInv, TypeOK
      <3>3. store' = [sub[o].copy EXCEPT ![o] = 0]
        BY <1>4 DEF AddWrites
      <3> QED  BY <3>1, <3>2, <3>3 DEF Behind, Queue
    <2>2. \A p \in Ops : sub'[p].copy \in {sub[p].copy, EmptyQueue}
      BY <1>0, <1>4 DEF AddWrites, TInv, TypeOK, SubState
    <2>3. fails' = fails /\ sync' = sync
      BY <1>4 DEF AddWrites
    <2>4. CopiesBehind'
      BY <1>e, <2>1, <2>2, <2>3 DEF GInv, CopiesBehind, Behind
    <2>5. GivesUpLate'
      BY <1>0, <1>4 DEF AddWrites, GInv, GivesUpLate, TInv, TypeOK
    <2> QED  BY <1>0, <2>3, <2>4, <2>5 DEF GInv, GivingUp
  <1>5. CASE GoOffline
    BY <1>0, <1>5 DEF GoOffline, GInv, CopiesBehind, Behind, GivingUp, GivesUpLate
  <1>6. CASE GoOnline
    <2>1. \/ sync' = sync
          \/ sync'.pc = "started" /\ sync'.todo = sync.todo /\ sync'.copy = sync.copy
      BY <1>0, <1>6 DEF GoOnline, Triggered, TInv, TypeOK, SyncState
    <2> QED
      BY <1>0, <1>6, <2>1 DEF GoOnline, GInv, CopiesBehind, Behind, GivingUp, GivesUpLate
  <1>7. CASE Restart
    <2>1. /\ sync'.pc = "started" /\ sync'.todo = EmptyQueue /\ sync'.copy = EmptyQueue
          /\ \A p \in Ops : sub'[p].copy \in {sub[p].copy, EmptyQueue}
      BY <1>0, <1>7, RestartFields
    <2>2. fails' = fails /\ store' = store /\ told' = told
      BY <1>7 DEF Restart
    <2>3. CopiesBehind'
      BY <1>e, <2>1, <2>2 DEF GInv, CopiesBehind, Behind
    <2> QED  BY <1>0, <2>1, <2>2, <2>3 DEF GInv, GivingUp, GivesUpLate
  <1>8. CASE SyncChecks
    <2>1. /\ sync'.pc \in {"reading", "idle"}
          /\ sync'.todo \in {sync.todo, EmptyQueue}
          /\ sync'.copy \in {sync.copy, EmptyQueue}
      BY <1>0, <1>8 DEF SyncChecks, IdleSync, TInv, TypeOK, SyncState
    <2>2. fails' = fails /\ store' = store /\ told' = told /\ sub' = sub
      BY <1>8 DEF SyncChecks
    <2>3. CopiesBehind'
      BY <1>e, <2>1, <2>2 DEF GInv, CopiesBehind, Behind
    <2> QED  BY <1>0, <2>1, <2>2, <2>3 DEF GInv, GivingUp, GivesUpLate
  <1>9. CASE SyncReads
    <2>1. sync'.pc = "next" /\ sync'.todo = store /\ sync'.copy = sync.copy
      BY <1>0, <1>9 DEF SyncReads, TInv, TypeOK, SyncState
    <2>2. fails' = fails /\ store' = store /\ told' = told /\ sub' = sub
      BY <1>9 DEF SyncReads
    <2> QED
      BY <1>0, <2>1, <2>2 DEF GInv, CopiesBehind, Behind, GivingUp, GivesUpLate
  <1>10. ASSUME NEW o \in Ops, SendSucceeds(o) \/ SendRefused(o) PROVE GInv'
    <2>1. fails' = fails /\ store' = store /\ told' = told /\ sub' = sub
      BY <1>10 DEF SendSucceeds, SendRefused
    <2>2. /\ sync'.pc = "clear" /\ sync'.copy = sync.copy
          /\ sync'.todo = Without(sync.todo, o) /\ sync'.notice # "gave_up"
          /\ sync'.item = o
          /\ sync'.notice = "none" => sync'.retries = sync.todo[o] + 1
      BY <1>0, <1>10, SendFields
    <2>3. Behind(Without(sync.todo, o))
      BY <1>0 DEF GInv, CopiesBehind, Behind, Without, NotQueued, Queue,
         TInv, TypeOK, SyncState
    <2>4. CopiesBehind'
      BY <2>1, <2>2, <2>3 DEF GInv, CopiesBehind, Behind
    <2>5. sync.todo[o] <= fails[o] /\ sync.todo[o] \in Int /\ fails[o] \in Int
      BY <1>0 DEF GInv, CopiesBehind, Behind, NotQueued, Queue, TInv, TypeOK, SyncState
    <2>6. GivingUp'
      BY <2>1, <2>2, <2>5 DEF GivingUp
    <2> QED  BY <1>0, <2>1, <2>4, <2>6 DEF GInv, GivesUpLate
  <1>12. ASSUME NEW o \in Ops, SendFails(o) PROVE GInv'
    <2>1. store' = store /\ told' = told /\ sub' = sub /\ CountFailure(o)
      BY <1>12 DEF SendFails
    <2>2. \A p \in Ops : fails[p] = MaxRetries + 1 => fails'[p] = MaxRetries + 1
      BY <1>0, <2>1, FailsGrow
    <2>3. Behind(Without(sync.todo, o))
      BY <1>0 DEF GInv, CopiesBehind, Behind, Without, NotQueued, Queue,
         TInv, TypeOK, SyncState
    <2>4. \A q \in Queue : Behind(q) => \A p \in Ops : q[p] <= fails'[p]
      BY <1>0, <2>1, BehindGrows
    <2>5. CopiesBehind'
      <3>1. /\ store \in Queue /\ sync.copy \in Queue
            /\ Without(sync.todo, o) \in Queue
            /\ \A p \in Ops : sub[p].copy \in Queue
        BY <1>0, WithoutType DEF TInv, TypeOK, SyncState, SubState
      <3>2. sync'.copy = sync.copy /\ sync'.todo = Without(sync.todo, o)
        BY <1>0, <1>12, FailFields
      <3> QED  BY <2>1, <2>3, <2>4, <3>1, <3>2 DEF GInv, CopiesBehind, Behind
    <2>6. GivingUp'
      <3>1. sync.todo[o] <= fails[o]
        BY DEF GInv, CopiesBehind, Behind
      <3>2. /\ fails'[o] = IF fails[o] <= MaxRetries THEN fails[o] + 1 ELSE MaxRetries + 1
            /\ fails[o] \in 0 .. MaxRetries + 1
        BY <1>0, <2>1, FailsGrow DEF TInv, TypeOK
      <3>3. /\ sync.todo[o] \in 0 .. MaxRetries
            /\ sync'.pc = IF sync.todo[o] + 1 > MaxRetries THEN "clear" ELSE "retry"
            /\ sync'.item = o /\ sync'.retries = sync.todo[o] + 1
            /\ sync'.notice = "gave_up"
        BY <1>0, <1>12, FailFields
      <3> QED  BY <3>1, <3>2, <3>3 DEF GivingUp
    <2>7. GivesUpLate'
      BY <2>1, <2>2 DEF GInv, GivesUpLate
    <2> QED  BY <1>0, <2>5, <2>6, <2>7 DEF GInv
  <1>13. CASE ClearReads
    <2>1. /\ sync.pc = "clear" /\ sync'.pc \in {"notice", "clearing"}
          /\ sync'.item = sync.item /\ sync'.notice = sync.notice
          /\ sync'.todo = sync.todo /\ sync'.copy = store /\ sync'.retries = sync.retries
      BY <1>0, <1>13 DEF ClearReads, TInv, TypeOK, SyncState
    <2>2. fails' = fails /\ store' = store /\ told' = told /\ sub' = sub
      BY <1>13 DEF ClearReads
    <2> QED
      BY <1>0, <2>1, <2>2 DEF GInv, CopiesBehind, Behind, GivingUp, GivesUpLate
  <1>14. CASE ClearWrites
    <2>1. /\ sync.pc = "clearing" /\ sync'.pc = "notice"
          /\ sync'.item = sync.item /\ sync'.notice = sync.notice
          /\ sync'.todo = sync.todo /\ sync'.copy = sync.copy
      BY <1>0, <1>14 DEF ClearWrites, TInv, TypeOK, SyncState
    <2>2. fails' = fails /\ told' = told /\ sub' = sub
      BY <1>14 DEF ClearWrites
    <2>3. Behind(store)'
      <3>1. store' = Without(sync.copy, sync.item)
        BY <1>14 DEF ClearWrites, Cleared
      <3> QED
        BY <1>0, <2>2, <3>1 DEF GInv, CopiesBehind, Behind, Without, NotQueued, Queue,
           TInv, TypeOK, SyncState
    <2> QED
      BY <1>0, <2>1, <2>2, <2>3 DEF GInv, CopiesBehind, Behind, GivingUp, GivesUpLate
  <1>15. CASE Notifies
    <2>1. fails' = fails /\ store' = store /\ sub' = sub
      BY <1>15 DEF Notifies
    <2>2. /\ sync'.pc \in {"idle", "next"}
          /\ sync'.todo \in {sync.todo, EmptyQueue}
          /\ sync'.copy \in {sync.copy, EmptyQueue}
      BY <1>0, <1>15, AfterFields DEF Notifies
    <2>3. CopiesBehind'
      BY <1>e, <2>1, <2>2 DEF GInv, CopiesBehind, Behind
    <2>4. GivesUpLate'
      BY <1>0, <1>15 DEF Notifies, GInv, GivesUpLate, GivingUp, TInv, TypeOK
    <2> QED  BY <1>0, <2>2, <2>3, <2>4 DEF GInv, GivingUp
  <1>16. CASE RetryReads
    <2>1. fails' = fails /\ store' = store /\ sub' = sub /\ told' = told
      BY <1>16 DEF RetryReads
    <2>2. \/ /\ sync'.pc \in {"idle", "next"}
             /\ sync'.todo \in {sync.todo, EmptyQueue}
             /\ sync'.copy \in {sync.copy, EmptyQueue}
          \/ /\ sync'.pc = "retrying" /\ sync'.item = sync.item
             /\ sync'.retries = sync.retries
             /\ sync'.todo = sync.todo /\ sync'.copy = store
      <3>1. CASE store[sync.item] = NotQueued
        BY <1>0, <1>16, <3>1, AfterFields DEF RetryReads
      <3>2. CASE store[sync.item] # NotQueued
        BY <1>0, <1>16, <3>2 DEF RetryReads, TInv, TypeOK, SyncState
      <3> QED  BY <3>1, <3>2
    <2>3. CopiesBehind'
      BY <1>e, <2>1, <2>2 DEF GInv, CopiesBehind, Behind
    <2>4. GivingUp'
      BY <1>16, <2>1, <2>2 DEF RetryReads, GInv, GivingUp
    <2> QED  BY <1>0, <2>1, <2>3, <2>4 DEF GInv, GivesUpLate
  <1>17. CASE RetryWrites
    <2>1. fails' = fails /\ sub' = sub /\ told' = told
      BY <1>17 DEF RetryWrites
    <2>2. /\ sync'.pc \in {"idle", "next"}
          /\ sync'.todo \in {sync.todo, EmptyQueue}
          /\ sync'.copy \in {sync.copy, EmptyQueue}
      BY <1>0, <1>17, AfterFields DEF RetryWrites
    <2>3. Behind(store)'
      BY <1>0, <1>17 DEF RetryWrites, GInv, CopiesBehind, Behind, GivingUp, Queue,
         TInv, TypeOK, ItemOK, InHand, SyncState
    <2>4. CopiesBehind'
      BY <1>e, <2>1, <2>2, <2>3 DEF GInv, CopiesBehind, Behind
    <2> QED  BY <1>0, <2>1, <2>2, <2>4 DEF GInv, GivingUp, GivesUpLate
  <1>18. CASE SyncEnds
    <2>1. sync' = IdleSync /\ fails' = fails /\ sub' = sub /\ told' = told /\ store' = store
      BY <1>18 DEF SyncEnds
    <2>2. CopiesBehind'
      BY <1>e, <2>1 DEF GInv, CopiesBehind, Behind, IdleSync
    <2> QED  BY <1>0, <2>1, <2>2 DEF GInv, GivingUp, GivesUpLate, IdleSync
  <1>19. ASSUME NEW o \in Ops, AddThrows(o) PROVE GInv'
    <2>1. fails' = fails /\ store' = store /\ sync' = sync /\ told' = told
      BY <1>19 DEF AddThrows
    <2>2. \A p \in Ops : sub'[p].copy \in {sub[p].copy, EmptyQueue}
      BY <1>0, <1>19 DEF AddThrows, TInv, TypeOK, SubState
    <2>3. CopiesBehind'
      BY <1>e, <2>1, <2>2 DEF GInv, CopiesBehind, Behind
    <2> QED  BY <1>0, <2>1, <2>3 DEF GInv, GivingUp, GivesUpLate
  <1>20. CASE ClearThrows
    <2>1. store' = store /\ told' = told /\ sub' = sub
      BY <1>20 DEF ClearThrows
    <2>2. CASE sync.notice = "none"
      <3> DEFINE o == sync.item
      <3>1. /\ o \in Ops /\ CountFailure(o)
            /\ sync.retries \in 1 .. MaxRetries + 1 /\ sync.retries <= fails[o] + 1
        BY <1>0, <1>20, <2>2, ThrowFields DEF ClearThrows, GInv, GivingUp
      <3>2. /\ sync'.pc = IF sync.retries > MaxRetries THEN "clear" ELSE "retry"
            /\ sync'.item = o /\ sync'.copy = sync.copy
            /\ sync'.todo = Without(sync.todo, o)
            /\ sync'.retries = sync.retries /\ sync'.notice = "gave_up"
        BY <1>0, <1>20, <2>2, ThrowFields
      <3> HIDE DEF o
      <3>3. /\ fails'[o] = IF fails[o] <= MaxRetries THEN fails[o] + 1 ELSE MaxRetries + 1
            /\ fails[o] \in 0 .. MaxRetries + 1
            /\ \A p \in Ops : fails[p] = MaxRetries + 1 => fails'[p] = MaxRetries + 1
        BY <1>0, <3>1, FailsGrow DEF TInv, TypeOK
      <3>4. Behind(Without(sync.todo, o))
        BY <1>0, <3>1 DEF GInv, CopiesBehind, Behind, Without, NotQueued, Queue,
           TInv, TypeOK, SyncState
      <3>5. \A q \in Queue : Behind(q) => \A p \in Ops : q[p] <= fails'[p]
        BY <1>0, <3>1, BehindGrows
      <3>6. CopiesBehind'
        <4>1. /\ store \in Queue /\ sync.copy \in Queue
              /\ Without(sync.todo, o) \in Queue
              /\ \A p \in Ops : sub[p].copy \in Queue
          BY <1>0, <3>1, WithoutType DEF TInv, TypeOK, SyncState, SubState
        <4> QED  BY <2>1, <3>2, <3>4, <3>5, <4>1 DEF GInv, CopiesBehind, Behind
      <3>7. GivingUp'
        BY <3>1, <3>2, <3>3 DEF GivingUp
      <3>8. GivesUpLate'
        BY <2>1, <3>3 DEF GInv, GivesUpLate
      <3> QED  BY <1>0, <3>6, <3>7, <3>8 DEF GInv
    <2>3. CASE sync.notice # "none"
      <3>1. sync' = IdleSync /\ fails' = fails
        BY <1>20, <2>3 DEF ClearThrows
      <3>2. CopiesBehind'
        BY <1>e, <2>1, <3>1 DEF GInv, CopiesBehind, Behind, IdleSync
      <3> QED  BY <1>0, <2>1, <3>1, <3>2 DEF GInv, GivingUp, GivesUpLate, IdleSync
    <2> QED  BY <2>2, <2>3
  <1>21. CASE RetryThrows
    <2>1. sync' = IdleSync /\ fails' = fails /\ sub' = sub /\ told' = told /\ store' = store
      BY <1>21 DEF RetryThrows
    <2>2. CopiesBehind'
      BY <1>e, <2>1 DEF GInv, CopiesBehind, Behind, IdleSync
    <2> QED  BY <1>0, <2>1, <2>2 DEF GInv, GivingUp, GivesUpLate, IdleSync
  <1>22. CASE UNCHANGED vars
    BY <1>0, <1>22 DEF vars, GInv, CopiesBehind, Behind, GivingUp, GivesUpLate
  <1> QED
    BY <1>1, <1>2, <1>3, <1>4, <1>5, <1>6, <1>7, <1>8, <1>9, <1>10, <1>12,
       <1>13, <1>14, <1>15, <1>16, <1>17, <1>18, <1>19, <1>20, <1>21, <1>22
       DEF Next, SyncStep, AddStep, StorageFails

\* A submission is given up only after MAX_RETRIES + 1 failed tries, for every
\* MAX_RETRIES and whatever writes undo each other (offlineQueue.js:221-259).
THEOREM GivenUpLate == Spec => []GivesUpLate
  <1>1. GInv => GivesUpLate
    BY DEF GInv
  <1> QED  BY <1>1, GInit, GNext, PTL DEF Spec

-----------------------------------------------------------------------------
(* Twice processed, and lost: the queue without racing writes *)

\* A submission reaches a queue, a copy of it or the run's hands only after it was
\* saved; a screen that is about to send has sent nothing.
Absent(o) ==
    /\ store[o] = NotQueued /\ sync.todo[o] = NotQueued /\ sync.copy[o] = NotQueued
    /\ \A p \in Ops : sub[p].copy[o] = NotQueued

SavedFirst ==
    /\ \A o \in Ops : sub[o].pc # "saved" => Absent(o)
    /\ sync.pc \in InHand => sub[sync.item].pc = "saved"
    /\ \A o \in Ops : sub[o].pc = "new" => applied[o] = 0

\* What the run is about to do with its item
RunOK ==
    /\ sync.pc = "retrying" => sync.copy[sync.item] # NotQueued
    /\ sync.pc \in {"clear", "clearing", "notice"} /\ sync.notice = "none"
         => applied[sync.item] > 0

Done(o) == applied[o] > 0 /\ o \notin lost

\* What was processed and not lost was processed once and is on its way out.
Once(o) ==
    /\ applied[o] = 1
    /\ sub[o].pc \in {"answered", "saved"}
    /\ sync.todo[o] = NotQueued
    /\ store[o] # NotQueued =>
         sync.item = o /\ sync.pc \in {"clear", "clearing"} /\ sync.notice = "none"

Quiet == ~raced
OnceDone == Quiet => \A o \in Ops : Done(o) => Once(o)
AllAccounted == Quiet => \A o \in Ops : sub[o].pc = "saved" => Accounted(o)

SInv == TInv /\ SavedFirst
CInv == SInv /\ RunOK /\ OnceDone /\ AllAccounted

LEMMA CInit == Init => CInv
  <1> SUFFICES ASSUME Init PROVE CInv
    OBVIOUS
  <1>1. TInv
    BY TInit
  <1>2. SavedFirst
    BY DEF Init, SavedFirst, Absent, IdleSync, EmptyQueue, InHand
  <1>3. RunOK
    BY DEF Init, RunOK, IdleSync
  <1>4. OnceDone
    BY DEF Init, OnceDone, Done
  <1>5. AllAccounted
    BY DEF Init, AllAccounted
  <1> QED  BY <1>1, <1>2, <1>3, <1>4, <1>5 DEF CInv, SInv

\* What a processed request adds
LEMMA ProcessAdds ==
    ASSUME TInv, NEW o \in Ops, Process(o)
    PROVE  /\ applied'[o] > 0
           /\ applied[o] = 0 => applied'[o] = 1
           /\ \A p \in Ops : p # o => applied'[p] = applied[p]
  BY DEF Process, TInv, TypeOK

\* A write is quiet only if nothing was written since its copy was read.
LEMMA QuietWrite ==
    ASSUME NEW q, Stale(q), Quiet'
    PROVE  Quiet /\ q = store
  BY DEF Stale, Quiet

\* Every step keeps "saved" and moves only the submissions of the screens.
LEMMA SNext == SInv /\ [Next]_vars => SInv'
  <1> SUFFICES ASSUME SInv, [Next]_vars PROVE SInv'
    OBVIOUS
  <1> USE QueueAssumption
  <1>0. TInv /\ TInv'
    BY TNext DEF SInv
  <1>e. \A p \in Ops : EmptyQueue[p] = NotQueued
    BY DEF EmptyQueue
  <1>1. ASSUME NEW o \in Ops, SubmitAnswered(o) PROVE SInv'
    <2>1. /\ sub[o].pc = "new" /\ sub'[o].pc = "answered" /\ sub'[o].copy = sub[o].copy
          /\ \A p \in Ops : p # o => sub'[p] = sub[p]
      BY <1>0, <1>1 DEF SubmitAnswered, TInv, TypeOK, SubState
    <2>2. store' = store /\ sync' = sync
          /\ \A p \in Ops : p # o => applied'[p] = applied[p]
      <3>1. UNCHANGED applied \/ Process(o)
        BY <1>1 DEF SubmitAnswered
      <3> QED  BY <1>0, <1>1, <3>1, ProcessAdds DEF SubmitAnswered
    <2> QED  BY <1>0, <2>1, <2>2 DEF SInv, SavedFirst, Absent, ItemOK, TInv
  <1>2. ASSUME NEW o \in Ops, SubmitUnanswered(o) PROVE SInv'
    <2>1. /\ sub[o].pc = "new" /\ sub'[o].pc = "adding" /\ sub'[o].copy = sub[o].copy
          /\ \A p \in Ops : p # o => sub'[p] = sub[p]
      BY <1>0, <1>2 DEF SubmitUnanswered, TInv, TypeOK, SubState
    <2>2. store' = store /\ sync' = sync
          /\ \A p \in Ops : p # o => applied'[p] = applied[p]
      BY <1>0, <1>2, ProcessAdds DEF SubmitUnanswered
    <2> QED  BY <1>0, <2>1, <2>2 DEF SInv, SavedFirst, Absent, ItemOK, TInv
  <1>3. ASSUME NEW o \in Ops, AddReads(o) PROVE SInv'
    <2>1. /\ sub[o].pc = "adding" /\ sub'[o].pc = "writing" /\ sub'[o].copy = store
          /\ \A p \in Ops : p # o => sub'[p] = sub[p]
      BY <1>0, <1>3 DEF AddReads, TInv, TypeOK, SubState
    <2>2. store' = store /\ sync' = sync /\ applied' = applied
      BY <1>3 DEF AddReads
    <2> QED  BY <1>0, <2>1, <2>2 DEF SInv, SavedFirst, Absent, ItemOK, TInv
  <1>4. ASSUME NEW o \in Ops, AddWrites(o) PROVE SInv'
    <2>1. /\ sub[o].pc = "writing" /\ sub'[o].pc = "saved" /\ sub'[o].copy = EmptyQueue
          /\ \A p \in Ops : p # o => sub'[p] = sub[p]
      BY <1>0, <1>4 DEF AddWrites, TInv, TypeOK, SubState
    <2>2. /\ \A p \in Ops : p # o => store'[p] = sub[o].copy[p]
          /\ sync' = sync /\ applied' = applied
      BY <1>0, <1>4 DEF AddWrites, TInv, TypeOK, SubState, Queue
    <2> QED  BY <1>0, <1>e, <2>1, <2>2 DEF SInv, SavedFirst, Absent, ItemOK, TInv
  <1>5. CASE GoOffline
    BY <1>0, <1>5 DEF GoOffline, SInv, SavedFirst, Absent
  <1>6. CASE GoOnline
    <2>1. \/ sync' = sync
          \/ sync'.pc = "started" /\ sync'.todo = sync.todo /\ sync'.copy = sync.copy
      BY <1>0, <1>6 DEF GoOnline, Triggered, TInv, TypeOK, SyncState
    <2> QED
      BY <1>0, <1>6, <2>1 DEF GoOnline, SInv, SavedFirst, Absent, InHand
  <1>7. CASE Restart
    <2>1. store' = store /\ applied' = applied
      BY <1>7 DEF Restart
    <2> QED  BY <1>0, <1>e, <1>7, <2>1, RestartFields DEF SInv, SavedFirst, Absent, InHand
  <1>8. CASE SyncChecks
    <2>1. /\ sync'.pc \in {"reading", "idle"}
          /\ sync'.todo \in {sync.todo, EmptyQueue}
          /\ sync'.copy \in {sync.copy, EmptyQueue}
      BY <1>0, <1>8 DEF SyncChecks, IdleSync, TInv, TypeOK, SyncState
    <2>2. store' = store /\ applied' = applied /\ sub' = sub
      BY <1>8 DEF SyncChecks
    <2> QED  BY <1>0, <1>e, <2>1, <2>2 DEF SInv, SavedFirst, Absent, InHand
  <1>9. CASE SyncReads
    <2>1. sync'.pc = "next" /\ sync'.todo = store /\ sync'.copy = sync.copy
      BY <1>0, <1>9 DEF SyncReads, TInv, TypeOK, SyncState
    <2>2. store' = store /\ applied' = applied /\ sub' = sub
      BY <1>9 DEF SyncReads
    <2> QED  BY <1>0, <2>1, <2>2 DEF SInv, SavedFirst, Absent, InHand
  <1>10. ASSUME NEW o \in Ops, SendSucceeds(o) \/ SendRefused(o) \/ SendFails(o) PROVE SInv'
    <2>1. /\ sync.todo[o] # NotQueued
          /\ sync'.item = o /\ sync'.copy = sync.copy
          /\ sync'.todo = Without(sync.todo, o)
      BY <1>0, <1>10, SendFields, FailFields DEF NotQueued
    <2>2. \A p \in Ops : sync.todo[p] = NotQueued => sync'.todo[p] = NotQueued
      BY <1>0, <2>1 DEF Without, TInv, TypeOK, SyncState, Queue
    <2>3. store' = store /\ sub' = sub
      BY <1>10 DEF SendSucceeds, SendRefused, SendFails
    <2>4. sub[o].pc = "saved"
      BY <2>1 DEF SInv, SavedFirst, Absent
    <2>5. \A p \in Ops : p # o => applied'[p] = applied[p]
      <3>1. UNCHANGED applied \/ Process(o)
        BY <1>10 DEF SendSucceeds, SendRefused, SendFails
      <3> QED  BY <1>0, <3>1, ProcessAdds
    <2> QED  BY <1>0, <2>1, <2>2, <2>3, <2>4, <2>5 DEF SInv, SavedFirst, Absent
  <1>11. CASE ClearReads
    <2>1. /\ sync.pc = "clear" /\ sync'.item = sync.item
          /\ sync'.todo = sync.todo /\ sync'.copy = store
      BY <1>0, <1>11 DEF ClearReads, TInv, TypeOK, SyncState
    <2>2. store' = store /\ applied' = applied /\ sub' = sub
      BY <1>11 DEF ClearReads
    <2> QED  BY <1>0, <2>1, <2>2 DEF SInv, SavedFirst, Absent, InHand
  <1>12. CASE ClearWrites
    <2>1. /\ sync.pc = "clearing" /\ sync'.item = sync.item
          /\ sync'.todo = sync.todo /\ sync'.copy = sync.copy
      BY <1>0, <1>12 DEF ClearWrites, TInv, TypeOK, SyncState
    <2>2. applied' = applied /\ sub' = sub /\ store' = Without(sync.copy, sync.item)
      BY <1>12 DEF ClearWrites, Cleared
    <2>3. \A p \in Ops : sync.copy[p] = NotQueued => store'[p] = NotQueued
      BY <1>0, <2>2 DEF Without, TInv, TypeOK, SyncState, Queue
    <2> QED  BY <1>0, <2>1, <2>2, <2>3 DEF SInv, SavedFirst, Absent, InHand
  <1>13. CASE Notifies
    <2>1. store' = store /\ applied' = applied /\ sub' = sub /\ sync' = AfterItem
      BY <1>13 DEF Notifies
    <2> QED  BY <1>0, <1>e, <2>1, AfterFields DEF SInv, SavedFirst, Absent, InHand
  <1>14. CASE RetryReads
    <2>1. store' = store /\ applied' = applied /\ sub' = sub
      BY <1>14 DEF RetryReads
    <2>2. CASE store[sync.item] = NotQueued
      <3>1. sync' = AfterItem
        BY <1>14, <2>2 DEF RetryReads
      <3> QED  BY <1>0, <1>e, <2>1, <3>1, AfterFields DEF SInv, SavedFirst, Absent, InHand
    <2>3. CASE store[sync.item] # NotQueued
      <3>1. /\ sync.pc = "retry" /\ sync'.item = sync.item
            /\ sync'.todo = sync.todo /\ sync'.copy = store
        BY <1>0, <1>14, <2>3 DEF RetryReads, TInv, TypeOK, SyncState
      <3> QED  BY <1>0, <2>1, <3>1 DEF SInv, SavedFirst, Absent, InHand
    <2> QED  BY <2>2, <2>3
  <1>15. CASE RetryWrites
    <2>1. /\ sync.pc = "retrying" /\ applied' = applied /\ sub' = sub /\ sync' = AfterItem
          /\ store' = [sync.copy EXCEPT ![sync.item] = sync.retries]
      BY <1>15 DEF RetryWrites
    <2>2. \A p \in Ops : p # sync.item => store'[p] = sync.copy[p]
      BY <1>0, <2>1 DEF TInv, TypeOK, SyncState, Queue
    <2> QED
      BY <1>0, <1>e, <2>1, <2>2, AfterFields DEF SInv, SavedFirst, Absent, InHand
  <1>16. CASE SyncEnds
    <2>1. store' = store /\ applied' = applied /\ sub' = sub /\ sync' = IdleSync
      BY <1>16 DEF SyncEnds
    <2> QED  BY <1>0, <1>e, <2>1 DEF SInv, SavedFirst, Absent, InHand, IdleSync
  <1>17. ASSUME NEW o \in Ops, AddThrows(o) PROVE SInv'
    <2>1. /\ sub[o].pc = "writing" /\ sub'[o].pc = "gone" /\ sub'[o].copy = EmptyQueue
          /\ \A p \in Ops : p # o => sub'[p] = sub[p]
      BY <1>0, <1>17 DEF AddThrows, TInv, TypeOK, SubState
    <2>2. store' = store /\ sync' = sync /\ applied' = applied
      BY <1>17 DEF AddThrows
    <2> QED  BY <1>0, <1>e, <2>1, <2>2 DEF SInv, SavedFirst, Absent, ItemOK, TInv
  <1>18. CASE ClearThrows
    <2>1. store' = store /\ applied' = applied /\ sub' = sub
      BY <1>18 DEF ClearThrows
    <2>2. CASE sync.notice = "none"
      <3>1. /\ sync.pc = "clearing" /\ sync.item \in Ops /\ sync'.item = sync.item
            /\ sync'.copy = sync.copy /\ sync'.todo = Without(sync.todo, sync.item)
        BY <1>0, <1>18, <2>2, ThrowFields
      <3>2. \A p \in Ops : sync.todo[p] = NotQueued => sync'.todo[p] = NotQueued
        BY <1>0, <3>1 DEF Without, TInv, TypeOK, SyncState, Queue
      <3> QED  BY <1>0, <2>1, <3>1, <3>2 DEF SInv, SavedFirst, Absent, InHand
    <2>3. CASE sync.notice # "none"
      <3>1. sync' = IdleSync
        BY <1>18, <2>3 DEF ClearThrows
      <3> QED  BY <1>0, <1>e, <2>1, <3>1 DEF SInv, SavedFirst, Absent, InHand, IdleSync
    <2> QED  BY <2>2, <2>3
  <1>19. CASE RetryThrows
    <2>1. store' = store /\ applied' = applied /\ sub' = sub /\ sync' = IdleSync
      BY <1>19 DEF RetryThrows
    <2> QED  BY <1>0, <1>e, <2>1 DEF SInv, SavedFirst, Absent, InHand, IdleSync
  <1>20. CASE UNCHANGED vars
    BY <1>0, <1>20 DEF vars, SInv, SavedFirst, Absent
  <1> QED
    BY <1>1, <1>2, <1>3, <1>4, <1>5, <1>6, <1>7, <1>8, <1>9, <1>10, <1>11, <1>12,
       <1>13, <1>14, <1>15, <1>16, <1>17, <1>18, <1>19, <1>20
       DEF Next, SyncStep, AddStep, StorageFails

\* A step that leaves the queue, the run and the submissions' state alone
LEMMA CSame ==
    ASSUME CInv, SInv', store' = store, sync' = sync, applied' = applied, lost' = lost,
           raced' = raced, told' = told, \A p \in Ops : sub'[p].pc = sub[p].pc
    PROVE  CInv'
  BY DEF CInv, RunOK, OnceDone, AllAccounted, Quiet, Done, Once, Accounted, Queued

\* A step of the run between two items that writes nothing
LEMMA CBetween ==
    ASSUME CInv, SInv', UNCHANGED <<store, sub, told, applied, lost, raced>>,
           sync.pc \notin {"clear", "clearing", "notice"},
           sync'.pc \in {"idle", "started", "reading", "next"},
           \A p \in Ops : sync'.todo[p] \in {sync.todo[p], store[p], NotQueued}
    PROVE  CInv'
  <1>1. OnceDone'
    BY DEF CInv, OnceDone, Quiet, Done, Once
  <1>2. AllAccounted'
    BY DEF CInv, AllAccounted, Quiet, Accounted, Queued
  <1>3. RunOK'
    BY DEF RunOK
  <1> QED  BY <1>1, <1>2, <1>3 DEF CInv

LEMMA CNext == CInv /\ [Next]_vars => CInv'
  <1> SUFFICES ASSUME CInv, [Next]_vars PROVE CInv'
    OBVIOUS
  <1> USE QueueAssumption
  <1>0. SInv /\ SInv' /\ TInv /\ TInv'
    BY SNext DEF CInv, SInv
  <1>e. \A p \in Ops : EmptyQueue[p] = NotQueued
    BY DEF EmptyQueue
  <1>1. ASSUME NEW o \in Ops, SubmitAnswered(o) PROVE CInv'
    <2>1. /\ sub[o].pc = "new" /\ sub'[o].pc = "answered"
          /\ \A p \in Ops : p # o => sub'[p] = sub[p]
      BY <1>0, <1>1 DEF SubmitAnswered, TInv, TypeOK, SubState
    <2>2. UNCHANGED <<store, sync, told, lost, raced>>
      BY <1>1 DEF SubmitAnswered
    <2>3. Absent(o) /\ applied[o] = 0 /\ (sync.pc \in InHand => sync.item # o)
      BY <1>0, <2>1 DEF SInv, SavedFirst
    <2>4. applied'[o] \in {0, 1} /\ \A p \in Ops : p # o => applied'[p] = applied[p]
      <3>1. UNCHANGED applied \/ Process(o)
        BY <1>1 DEF SubmitAnswered
      <3> QED  BY <1>0, <2>3, <3>1, ProcessAdds
    <2>5. RunOK'
      BY <1>0, <2>2, <2>3, <2>4 DEF CInv, RunOK, InHand, TInv, ItemOK
    <2>6. OnceDone'
      BY <2>1, <2>2, <2>3, <2>4 DEF CInv, OnceDone, Quiet, Done, Once, Absent
    <2>7. AllAccounted'
      BY <2>1, <2>2, <2>4 DEF CInv, AllAccounted, Quiet, Accounted, Queued
    <2> QED  BY <1>0, <2>5, <2>6, <2>7 DEF CInv
  <1>2. ASSUME NEW o \in Ops, SubmitUnanswered(o) PROVE CInv'
    <2>1. /\ sub[o].pc = "new" /\ sub'[o].pc = "adding"
          /\ \A p \in Ops : p # o => sub'[p] = sub[p]
      BY <1>0, <1>2 DEF SubmitUnanswered, TInv, TypeOK, SubState
    <2>2. UNCHANGED <<store, sync, told, raced>>
      BY <1>2 DEF SubmitUnanswered
    <2>3. applied[o] = 0 /\ (sync.pc \in InHand => sync.item # o)
      BY <1>0, <2>1 DEF SInv, SavedFirst
    <2>4. /\ applied'[o] = 0 \/ o \in lost'
          /\ \A p \in Ops : p # o => applied'[p] = applied[p] /\ (p \in lost' <=> p \in lost)
      BY <1>0, <1>2, <2>3, ProcessAdds DEF SubmitUnanswered
    <2>5. RunOK'
      BY <1>0, <2>2, <2>3, <2>4 DEF CInv, RunOK, InHand, TInv, ItemOK
    <2>6. OnceDone'
      BY <2>1, <2>2, <2>3, <2>4 DEF CInv, OnceDone, Quiet, Done, Once
    <2>7. AllAccounted'
      BY <2>1, <2>2, <2>4 DEF CInv, AllAccounted, Quiet, Accounted, Queued
    <2> QED  BY <1>0, <2>5, <2>6, <2>7 DEF CInv
  <1>3. ASSUME NEW o \in Ops, AddReads(o) PROVE CInv'
    <2>1. /\ sub[o].pc = "adding" /\ sub'[o].pc = "writing"
          /\ \A p \in Ops : p # o => sub'[p] = sub[p]
      BY <1>0, <1>3 DEF AddReads, TInv, TypeOK, SubState
    <2>2. UNCHANGED <<store, sync, told, applied, lost, raced>>
      BY <1>3 DEF AddReads
    <2>5. RunOK'
      BY <2>2 DEF CInv, RunOK
    <2>6. OnceDone'
      BY <2>1, <2>2 DEF CInv, OnceDone, Quiet, Done, Once
    <2>7. AllAccounted'
      BY <2>1, <2>2 DEF CInv, AllAccounted, Quiet, Accounted, Queued
    <2> QED  BY <1>0, <2>5, <2>6, <2>7 DEF CInv
  <1>4. ASSUME NEW o \in Ops, AddWrites(o) PROVE CInv'
    <2>1. /\ sub[o].pc = "writing" /\ sub'[o].pc = "saved"
          /\ \A p \in Ops : p # o => sub'[p] = sub[p] /\ told'[p] = told[p]
      BY <1>0, <1>4 DEF AddWrites, TInv, TypeOK, SubState
    <2>2. UNCHANGED <<sync, applied, lost>>
      BY <1>4 DEF AddWrites
    <2>3. Quiet' => Quiet /\ sub[o].copy = store
      BY <1>4, QuietWrite DEF AddWrites
    <2>4. Quiet' => store'[o] = 0 /\ \A p \in Ops : p # o => store'[p] = store[p]
      BY <1>0, <1>4, <2>3 DEF AddWrites, TInv, TypeOK, Queue
    <2>5. RunOK'
      BY <2>2 DEF CInv, RunOK
    <2>6. OnceDone'
      BY <2>1, <2>2, <2>3, <2>4 DEF CInv, OnceDone, Done, Once
    <2>7. AllAccounted'
      BY <2>1, <2>2, <2>3, <2>4 DEF CInv, AllAccounted, Accounted, Queued, NotQueued
    <2> QED  BY <1>0, <2>5, <2>6, <2>7 DEF CInv
  <1>5. CASE GoOffline
    BY <1>0, <1>5, CSame DEF GoOffline
  <1>6. CASE GoOnline
    <2>1. CASE sync.pc = "idle"
      <3>1. sync'.pc = "started" /\ sync'.todo = sync.todo
        BY <1>0, <1>6, <2>1 DEF GoOnline, Triggered, TInv, TypeOK, SyncState
      <3> QED  BY <1>0, <1>6, <2>1, <3>1, CBetween DEF GoOnline
    <2>2. CASE sync.pc # "idle"
      BY <1>0, <1>6, <2>2, CSame DEF GoOnline, Triggered
    <2> QED  BY <2>1, <2>2
  <1>7. CASE Restart
    <2>1. UNCHANGED <<store, told, applied, raced>>
      BY <1>7 DEF Restart
    <2>2. /\ lost \subseteq lost'
          /\ sync.pc \in {"clear", "clearing", "notice"} => sync.item \in lost'
      BY <1>7 DEF Restart
    <2>3. /\ sync'.pc = "started" /\ sync'.todo = EmptyQueue
          /\ \A p \in Ops : sub'[p].pc = IF sub[p].pc \in {"adding", "writing"} THEN "gone"
                                         ELSE sub[p].pc
      BY <1>0, <1>7, RestartFields
    <2>5. RunOK'
      BY <2>3 DEF RunOK
    <2>6. OnceDone'
      BY <1>e, <2>1, <2>2, <2>3 DEF CInv, OnceDone, Quiet, Done, Once
    <2>7. AllAccounted'
      BY <2>1, <2>2, <2>3 DEF CInv, AllAccounted, Quiet, Accounted, Queued
    <2> QED  BY <1>0, <2>5, <2>6, <2>7 DEF CInv
  <1>8. CASE SyncChecks
    <2>1. /\ sync.pc = "started" /\ sync'.pc \in {"reading", "idle"}
          /\ sync'.todo \in {sync.todo, EmptyQueue}
      BY <1>0, <1>8 DEF SyncChecks, IdleSync, TInv, TypeOK, SyncState
    <2> QED  BY <1>0, <1>e, <1>8, <2>1, CBetween DEF SyncChecks
  <1>9. CASE SyncReads
    <2>1. sync.pc = "reading" /\ sync'.pc = "next" /\ sync'.todo = store
      BY <1>0, <1>9 DEF SyncReads, TInv, TypeOK, SyncState
    <2> QED  BY <1>0, <1>9, <2>1, CBetween DEF SyncReads
  <1>10. ASSUME NEW o \in Ops, SendSucceeds(o) \/ SendRefused(o) PROVE CInv'
    <2>1. /\ sync.pc = "next" /\ sync.todo[o] # NotQueued
          /\ sync'.pc = "clear" /\ sync'.item = o
          /\ SendRefused(o) => sync'.notice # "none"
      BY <1>0, <1>10, SendFields
    <2>2. /\ sync'.todo[o] = NotQueued
          /\ \A p \in Ops : sync.todo[p] = NotQueued => sync'.todo[p] = NotQueued
      <3>1. sync'.todo = Without(sync.todo, o)
        BY <1>0, <1>10, SendFields
      <3> QED  BY <1>0, <3>1 DEF Without, TInv, TypeOK, SyncState, Queue
    <2>3. UNCHANGED <<store, sub, told, lost, raced>>
      BY <1>10 DEF SendSucceeds, SendRefused
    <2>4. /\ \A p \in Ops : p # o => applied'[p] = applied[p]
          /\ applied'[o] = applied[o] \/ applied'[o] > 0
          /\ SendSucceeds(o) => applied'[o] > 0
          /\ applied[o] = 0 => applied'[o] \in {0, 1}
          /\ sync'.notice # "none" => applied'[o] = applied[o]
      <3>1. SendSucceeds(o) => Process(o)
        BY DEF SendSucceeds
      <3>2. SendRefused(o) => applied' = applied
        BY DEF SendRefused
      <3>3. SendSucceeds(o) => sync'.notice = "none"
        BY <1>0, SendFields
      <3> QED  BY <1>0, <1>10, <3>1, <3>2, <3>3, ProcessAdds
    <2>5. RunOK'
      BY <1>10, <2>1, <2>4 DEF RunOK
    <2>6. OnceDone'
      <3>1. sub[o].pc = "saved"
        BY <1>0, <2>1 DEF SInv, SavedFirst, Absent
      <3>2. applied[o] \in 0 .. 2
        BY <1>0 DEF TInv, TypeOK
      <3>3. Quiet => applied[o] = 0 \/ o \in lost
        BY <2>1, <3>2 DEF CInv, OnceDone, Done, Once
      <3>4. Quiet' => Quiet
        BY <2>3 DEF Quiet
      <3>5. Quiet' => (Done(o) => Once(o))'
        BY <2>1, <2>2, <2>3, <2>4, <3>1, <3>3, <3>4 DEF Done, Once
      <3>6. Quiet' => \A p \in Ops : p # o => (Done(p) => Once(p))'
        BY <2>1, <2>2, <2>3, <2>4, <3>4 DEF CInv, OnceDone, Done, Once
      <3> QED  BY <3>5, <3>6 DEF OnceDone
    <2>7. AllAccounted'
      BY <2>1, <2>3, <2>4 DEF CInv, AllAccounted, Quiet, Accounted, Queued
    <2> QED  BY <1>0, <2>5, <2>6, <2>7 DEF CInv
  <1>11. ASSUME NEW o \in Ops, SendFails(o) PROVE CInv'
    <2>1. /\ sync.pc = "next" /\ sync.todo[o] # NotQueued
          /\ sync'.pc \in {"clear", "retry"} /\ sync'.item = o
          /\ sync'.notice = "gave_up"
      BY <1>0, <1>11, FailFields DEF NotQueued
    <2>2. /\ sync'.todo[o] = NotQueued
          /\ \A p \in Ops : sync.todo[p] = NotQueued => sync'.todo[p] = NotQueued
      <3>1. sync'.todo = Without(sync.todo, o)
        BY <1>0, <1>11, FailFields
      <3> QED  BY <1>0, <3>1 DEF Without, TInv, TypeOK, SyncState, Queue
    <2>3. UNCHANGED <<store, sub, told, raced>>
      BY <1>11 DEF SendFails
    <2>4. /\ \A p \in Ops : p # o => applied'[p] = applied[p] /\ (p \in lost' <=> p \in lost)
          /\ o \in lost' \/ (o \notin lost /\ applied'[o] = applied[o])
          /\ applied'[o] = applied[o] \/ applied'[o] > 0
          /\ lost \subseteq lost'
      <3>1. UNCHANGED <<applied, lost>> \/ (Process(o) /\ lost' = lost \cup {o})
        BY <1>11 DEF SendFails
      <3> QED  BY <1>0, <3>1, ProcessAdds
    <2>5. RunOK'
      BY <2>1 DEF RunOK
    <2>6. OnceDone'
      <3>1. Quiet' => Quiet
        BY <2>3 DEF Quiet
      <3>2. Quiet => ~Done(o)
        BY <2>1 DEF CInv, OnceDone, Once
      <3>3. Quiet' => ~Done(o)'
        BY <2>4, <3>1, <3>2 DEF Done
      <3>4. Quiet' => \A p \in Ops : p # o => (Done(p) => Once(p))'
        BY <2>1, <2>2, <2>3, <2>4, <3>1 DEF CInv, OnceDone, Done, Once
      <3> QED  BY <3>3, <3>4 DEF OnceDone
    <2>7. AllAccounted'
      BY <2>1, <2>3, <2>4 DEF CInv, AllAccounted, Quiet, Accounted, Queued
    <2> QED  BY <1>0, <2>5, <2>6, <2>7 DEF CInv
  <1>12. CASE ClearReads
    <2>1. /\ sync.pc = "clear" /\ sync'.item = sync.item /\ sync'.notice = sync.notice
          /\ sync'.todo = sync.todo
          /\ sync'.pc = IF store[sync.item] = NotQueued THEN "notice" ELSE "clearing"
      BY <1>0, <1>12 DEF ClearReads, TInv, TypeOK, SyncState
    <2>2. UNCHANGED <<store, sub, told, applied, lost, raced>>
      BY <1>12 DEF ClearReads
    <2>5. RunOK'
      BY <2>1, <2>2 DEF CInv, RunOK
    <2>6. OnceDone'
      BY <2>1, <2>2 DEF CInv, OnceDone, Quiet, Done, Once
    <2>7. AllAccounted'
      BY <2>1, <2>2 DEF CInv, AllAccounted, Quiet, Accounted, Queued
    <2> QED  BY <1>0, <2>5, <2>6, <2>7 DEF CInv
  <1>13. CASE ClearWrites
    <2>1. /\ sync.pc = "clearing" /\ sync'.item = sync.item /\ sync'.notice = sync.notice
          /\ sync'.todo = sync.todo /\ sync'.pc = "notice" /\ sync.item \in Ops
      BY <1>0, <1>13 DEF ClearWrites, TInv, TypeOK, SyncState, ItemOK, InHand
    <2>2. UNCHANGED <<sub, told, applied, lost>>
      BY <1>13 DEF ClearWrites
    <2>3. Quiet' => Quiet /\ sync.copy = store
      BY <1>13, QuietWrite DEF ClearWrites
    <2>4. Quiet' => /\ store'[sync.item] = NotQueued
                    /\ \A p \in Ops : p # sync.item => store'[p] = store[p]
      BY <1>0, <1>13, <2>1, <2>3
         DEF ClearWrites, Cleared, Without, TInv, TypeOK, Queue
    <2>5. RunOK'
      BY <2>1, <2>2 DEF CInv, RunOK
    <2>6. OnceDone'
      BY <2>1, <2>2, <2>3, <2>4 DEF CInv, OnceDone, Done, Once
    <2>7. AllAccounted'
      BY <2>1, <2>2, <2>3, <2>4 DEF CInv, AllAccounted, Accounted, Queued
    <2> QED  BY <1>0, <2>5, <2>6, <2>7 DEF CInv
  <1>14. CASE Notifies
    <2>1. /\ sync.pc = "notice" /\ sync.item \in Ops
          /\ sync.notice = "none" => applied[sync.item] > 0
      BY <1>0, <1>14 DEF Notifies, TInv, ItemOK, InHand, CInv, RunOK
    <2>2. UNCHANGED <<store, sub, applied, lost, raced>> /\ sync' = AfterItem
      BY <1>14 DEF Notifies
    <2>3. /\ sync'.pc \in {"idle", "next"}
          /\ sync'.todo \in {sync.todo, EmptyQueue}
      BY <1>0, <2>2, AfterFields
    <2>4. /\ \A p \in Ops : p # sync.item => told'[p] = told[p]
          /\ sync.notice # "none" => told'[sync.item] \in {"rejected", "failed", "gave_up"}
          /\ sync.notice = "none" => told' = told
      BY <1>0, <1>14, <2>1 DEF Notifies, TInv, TypeOK, SyncState
    <2>5. RunOK'
      BY <2>3 DEF RunOK
    <2>6. OnceDone'
      BY <1>e, <2>1, <2>2, <2>3 DEF CInv, OnceDone, Quiet, Done, Once
    <2>7. AllAccounted'
      BY <2>1, <2>2, <2>3, <2>4 DEF CInv, AllAccounted, Quiet, Accounted, Queued
    <2> QED  BY <1>0, <2>5, <2>6, <2>7 DEF CInv
  <1>15. CASE RetryReads
    <2>1. CASE store[sync.item] = NotQueued
      <3>1. sync.pc = "retry" /\ sync' = AfterItem
        BY <1>15, <2>1 DEF RetryReads
      <3> QED  BY <1>0, <1>e, <1>15, <3>1, AfterFields, CBetween DEF RetryReads
    <2>2. CASE store[sync.item] # NotQueued
      <3>1. /\ sync.pc = "retry" /\ sync'.pc = "retrying" /\ sync'.item = sync.item
            /\ sync'.todo = sync.todo /\ sync'.copy = store
        BY <1>0, <1>15, <2>2 DEF RetryReads, TInv, TypeOK, SyncState
      <3>2. UNCHANGED <<store, sub, told, applied, lost, raced>>
        BY <1>15 DEF RetryReads
      <3>5. RunOK'
        BY <2>2, <3>1, <3>2 DEF RunOK
      <3>6. OnceDone'
        BY <3>1, <3>2 DEF CInv, OnceDone, Quiet, Done, Once
      <3>7. AllAccounted'
        BY <3>1, <3>2 DEF CInv, AllAccounted, Quiet, Accounted, Queued
      <3> QED  BY <1>0, <3>5, <3>6, <3>7 DEF CInv
    <2> QED  BY <2>1, <2>2
  <1>16. CASE RetryWrites
    <2>1. /\ sync.pc = "retrying" /\ sync.item \in Ops
          /\ sync.copy[sync.item] # NotQueued /\ sync.retries \in 0 .. MaxRetries
      BY <1>0, <1>16 DEF RetryWrites, TInv, ItemOK, InHand, CInv, RunOK
    <2>2. UNCHANGED <<sub, told, applied, lost>> /\ sync' = AfterItem
      BY <1>16 DEF RetryWrites
    <2>3. Quiet' => Quiet /\ sync.copy = store
      BY <1>16, QuietWrite DEF RetryWrites
    <2>4. Quiet' => /\ store[sync.item] # NotQueued /\ store'[sync.item] # NotQueued
                    /\ \A p \in Ops : p # sync.item => store'[p] = store[p]
      BY <1>0, <1>16, <2>1, <2>3 DEF RetryWrites, TInv, TypeOK, Queue, NotQueued
    <2>5. sync'.pc \in {"idle", "next"} /\ sync'.todo \in {sync.todo, EmptyQueue}
      BY <1>0, <2>2, AfterFields
    <2>6. RunOK'
      BY <2>5 DEF RunOK
    <2>7. OnceDone'
      BY <1>e, <2>1, <2>2, <2>3, <2>4, <2>5 DEF CInv, OnceDone, Done, Once
    <2>8. AllAccounted'
      BY <2>1, <2>2, <2>3, <2>4, <2>5 DEF CInv, AllAccounted, Accounted, Queued
    <2> QED  BY <1>0, <2>6, <2>7, <2>8 DEF CInv
  <1>17. CASE SyncEnds
    <2>1. sync.pc = "next" /\ sync' = IdleSync /\ sync'.pc = "idle" /\ sync'.todo = EmptyQueue
      BY <1>17 DEF SyncEnds, IdleSync
    <2> QED  BY <1>0, <1>e, <1>17, <2>1, CBetween DEF SyncEnds
  <1>18. ASSUME NEW o \in Ops, AddThrows(o) PROVE CInv'
    <2>1. /\ sub[o].pc = "writing" /\ sub'[o].pc = "gone"
          /\ \A p \in Ops : p # o => sub'[p] = sub[p]
      BY <1>0, <1>18 DEF AddThrows, TInv, TypeOK, SubState
    <2>2. UNCHANGED <<store, sync, told, applied, lost, raced>>
      BY <1>18 DEF AddThrows
    <2>5. RunOK'
      BY <2>2 DEF CInv, RunOK
    <2>6. OnceDone'
      BY <2>1, <2>2 DEF CInv, OnceDone, Quiet, Done, Once
    <2>7. AllAccounted'
      BY <2>1, <2>2 DEF CInv, AllAccounted, Quiet, Accounted, Queued
    <2> QED  BY <1>0, <2>5, <2>6, <2>7 DEF CInv
  <1>19. CASE ClearThrows
    <2>1. UNCHANGED <<store, sub, told, applied, raced>>
      BY <1>19 DEF ClearThrows
    <2>2. CASE sync.notice = "none"
      <3>1. /\ sync.pc = "clearing" /\ sync.item \in Ops
            /\ sync'.pc \in {"clear", "retry"} /\ sync'.item = sync.item
            /\ sync'.todo = Without(sync.todo, sync.item) /\ sync'.notice = "gave_up"
        BY <1>0, <1>19, <2>2, ThrowFields
      <3>2. \A p \in Ops : sync.todo[p] = NotQueued => sync'.todo[p] = NotQueued
        BY <1>0, <3>1 DEF Without, TInv, TypeOK, SyncState, Queue
      <3>3. lost' = lost \cup {sync.item}
        BY <1>19, <2>2 DEF ClearThrows
      <3>5. RunOK'
        BY <3>1 DEF RunOK
      <3>6. OnceDone'
        BY <2>1, <3>1, <3>2, <3>3 DEF CInv, OnceDone, Quiet, Done, Once
      <3>7. AllAccounted'
        BY <2>1, <3>1, <3>3 DEF CInv, AllAccounted, Quiet, Accounted, Queued
      <3> QED  BY <1>0, <3>5, <3>6, <3>7 DEF CInv
    <2>3. CASE sync.notice # "none"
      <3>0. sync' = IdleSync /\ lost' = lost /\ sync.pc = "clearing"
        BY <1>19, <2>3 DEF ClearThrows
      <3>1. sync'.pc = "idle" /\ sync'.todo = EmptyQueue
        BY <3>0 DEF IdleSync
      <3>2. RunOK'
        BY <3>1 DEF RunOK
      <3>3. OnceDone'
        BY <1>e, <2>1, <2>3, <3>0, <3>1 DEF CInv, OnceDone, Quiet, Done, Once, RunOK
      <3>4. AllAccounted'
        BY <2>1, <3>0, <3>1 DEF CInv, AllAccounted, Quiet, Accounted, Queued
      <3> QED  BY <1>0, <3>2, <3>3, <3>4 DEF CInv
    <2> QED  BY <2>2, <2>3
  <1>20. CASE RetryThrows
    <2>1. /\ sync.pc = "retrying" /\ sync' = IdleSync /\ sync'.pc = "idle"
          /\ sync'.todo = EmptyQueue
      BY <1>20 DEF RetryThrows, IdleSync
    <2> QED  BY <1>0, <1>e, <1>20, <2>1, CBetween DEF RetryThrows
  <1>21. CASE UNCHANGED vars
    BY <1>0, <1>21, CSame DEF vars
  <1> QED
    BY <1>1, <1>2, <1>3, <1>4, <1>5, <1>6, <1>7, <1>8, <1>9, <1>10, <1>11, <1>12,
       <1>13, <1>14, <1>15, <1>16, <1>17, <1>18, <1>19, <1>20, <1>21
       DEF Next, SyncStep, AddStep, StorageFails

\* Unless the app could not record that the server processed a submission, or a
\* write undid another, the queue processes nothing twice, for any number of
\* submissions, retries, restarts and failing writes (offlineQueue.js:171-272).
THEOREM NothingTwice == Spec => []DuplicatesExplained
  <1>1. CInv => DuplicatesExplained
    BY DEF CInv, OnceDone, Quiet, Done, Once, DuplicatesExplained, SInv, TInv, TypeOK
  <1> QED  BY <1>1, CInit, CNext, PTL DEF Spec

\* Without racing writes every saved submission is queued, processed, or explained
\* to the student (offlineQueue.js:5-7).
THEOREM NothingLost == Spec => []SavedAccounted
  <1>1. CInv => SavedAccounted
    BY DEF CInv, AllAccounted, Quiet, SavedAccounted
  <1> QED  BY <1>1, CInit, CNext, PTL DEF Spec
=============================================================================

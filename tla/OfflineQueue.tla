---------------------------- MODULE OfflineQueue ----------------------------
(***************************************************************************)
(* The mobile client's offline queue: a submission that gets no response   *)
(* is saved to AsyncStorage and replayed when connectivity returns.        *)
(*                                                                         *)
(* The queue is one stored value.  Every writer reads it, awaits, and      *)
(* writes a changed copy back, so the flows of the screens (sub) and the   *)
(* one run of processQueue (sync) interleave between the read and the      *)
(* write.  store survives the app; sub and sync do not.  lost, fails,      *)
(* applied and raced record what happened, for the properties.             *)
(***************************************************************************)
EXTENDS Integers, FiniteSets

CONSTANTS
    Ops,          \* submissions the student makes
    Attendance,   \* those that mark attendance: they go first
    NoOp,
    MaxRetries,   \* MAX_RETRIES
    MaxMishaps    \* bound on the kills of the app and the failing storage writes

ASSUME QueueAssumption ==
    /\ Attendance \subseteq Ops
    /\ NoOp \notin Ops
    /\ MaxRetries \in Nat
    /\ MaxMishaps \in Nat

VARIABLES
    online,   \* what NetInfo reports
    store,    \* offline_queue: retries of each queued item
    sub,      \* a screen's submission: from the direct request to addToQueue
    sync,     \* the run of processQueue; idle is _processing = false
    told,     \* what the last dialog about a submission said
    applied,  \* times the server processed a submission, up to 2
    fails,    \* failed sends of a queued item, up to MaxRetries + 1
    lost,     \* submissions processed without the app recording it: no answer, an
              \* error after the commit, a kill or a storage failure after the 2xx
    raced,    \* a storage write undid another one
    mishaps

vars == <<online, store, sub, sync, told, applied, fails, lost, raced, mishaps>>

NotQueued == -1
Queue == [Ops -> NotQueued .. MaxRetries]
EmptyQueue == [o \in Ops |-> NotQueued]
Queued(q) == {o \in Ops : q[o] # NotQueued}
Without(q, o) == [q EXCEPT ![o] = NotQueued]

IdleSync == [pc |-> "idle", todo |-> EmptyQueue, item |-> NoOp, retries |-> 0,
             notice |-> "none", stop |-> FALSE, copy |-> EmptyQueue]

SubState == [pc : {"new", "adding", "writing", "saved", "answered", "gone"}, copy : Queue]
SyncState == [pc : {"idle", "started", "reading", "next", "clear", "clearing", "notice",
                    "retry", "retrying"},
              todo : Queue, item : Ops \cup {NoOp}, retries : 0 .. MaxRetries + 1,
              notice : {"none", "rejected", "failed", "gave_up"},
              stop : BOOLEAN, copy : Queue]

TypeOK ==
    /\ online \in BOOLEAN
    /\ store \in Queue
    /\ sub \in [Ops -> SubState]
    /\ sync \in SyncState
    /\ told \in [Ops -> {"nothing", "saved", "rejected", "failed", "gave_up"}]
    /\ applied \in [Ops -> 0 .. 2]
    /\ fails \in [Ops -> 0 .. MaxRetries + 1]
    /\ lost \subseteq Ops
    /\ raced \in BOOLEAN
    /\ mishaps \in 0 .. MaxMishaps

\* The app starts on an empty queue; its first processQueue finds nothing.
Init ==
    /\ online \in BOOLEAN
    /\ store = EmptyQueue
    /\ sub = [o \in Ops |-> [pc |-> "new", copy |-> EmptyQueue]]
    /\ sync = IdleSync
    /\ told = [o \in Ops |-> "nothing"]
    /\ applied = [o \in Ops |-> 0]
    /\ fails = [o \in Ops |-> 0]
    /\ lost = {}
    /\ raced = FALSE
    /\ mishaps = 0

\* The server processes a request: at most two times are told apart.
Process(o) == applied' = [applied EXCEPT ![o] = IF @ < 2 THEN @ + 1 ELSE @]

\* The app is killed, or AsyncStorage refuses a write and keeps its old value.
Mishap == mishaps < MaxMishaps /\ mishaps' = mishaps + 1

\* A write of copy changed in one place undoes what was written since the read.
Stale(copy) == raced' = (raced \/ copy # store)

-----------------------------------------------------------------------------
(* The screens: client.post, and addToQueue when there is no response *)

SubmitAnswered(o) ==
    /\ sub[o].pc = "new"
    /\ online
    /\ Process(o) \/ UNCHANGED applied
    /\ sub' = [sub EXCEPT ![o].pc = "answered"]
    /\ UNCHANGED <<online, store, sync, told, fails, lost, raced, mishaps>>

\* A timeout, or no network: the request may still have reached the server.
SubmitUnanswered(o) ==
    /\ sub[o].pc = "new"
    /\ \/ UNCHANGED <<applied, lost>>
       \/ online /\ Process(o) /\ lost' = lost \cup {o}
    /\ sub' = [sub EXCEPT ![o].pc = "adding"]
    /\ UNCHANGED <<online, store, sync, told, fails, raced, mishaps>>

AddReads(o) ==
    /\ sub[o].pc = "adding"
    /\ sub' = [sub EXCEPT ![o] = [pc |-> "writing", copy |-> store]]
    /\ UNCHANGED <<online, store, sync, told, applied, fails, lost, raced, mishaps>>

AddWrites(o) ==
    /\ sub[o].pc = "writing"
    /\ store' = [sub[o].copy EXCEPT ![o] = 0]
    /\ Stale(sub[o].copy)
    /\ sub' = [sub EXCEPT ![o] = [pc |-> "saved", copy |-> EmptyQueue]]
    /\ told' = [told EXCEPT ![o] = "saved"]
    /\ UNCHANGED <<online, sync, applied, fails, lost, mishaps>>

\* The write fails: the screen shows its error, and promises nothing.
AddThrows(o) ==
    /\ sub[o].pc = "writing"
    /\ Mishap
    /\ sub' = [sub EXCEPT ![o] = [pc |-> "gone", copy |-> EmptyQueue]]
    /\ UNCHANGED <<online, store, sync, told, applied, fails, lost, raced>>

-----------------------------------------------------------------------------
(* Triggers.  Only a transition from offline to online, or the mount of the *)
(* provider, starts a run; one started while another is in flight is a no-op. *)

GoOffline ==
    /\ online
    /\ online' = FALSE
    /\ UNCHANGED <<store, sub, sync, told, applied, fails, lost, raced, mishaps>>

\* Mutants of Triggered: without the _processing flag the run starts over;
\* wasOffline is never set, so that only the mount starts a run.
TriggeredAgain == [IdleSync EXCEPT !.pc = "started"]
NeverTriggered == sync

Triggered == IF sync.pc = "idle" THEN [sync EXCEPT !.pc = "started"] ELSE sync

GoOnline ==
    /\ ~online
    /\ online' = TRUE
    /\ sync' = Triggered
    /\ UNCHANGED <<store, sub, told, applied, fails, lost, raced, mishaps>>

\* The app is killed and opened again.  A request the run had an answer for and
\* not yet recorded is answered unseen.
Restart ==
    /\ Mishap
    /\ sub' = [o \in Ops |->
                 IF sub[o].pc \in {"adding", "writing"}
                 THEN [pc |-> "gone", copy |-> EmptyQueue] ELSE sub[o]]
    /\ sync' = [IdleSync EXCEPT !.pc = "started"]
    /\ lost' = IF sync.pc \in {"clear", "clearing", "notice"}
               THEN lost \cup {sync.item} ELSE lost
    /\ UNCHANGED <<online, store, told, applied, fails, raced>>

-----------------------------------------------------------------------------
(* processQueue *)

SyncChecks ==
    /\ sync.pc = "started"
    /\ sync' = IF online THEN [sync EXCEPT !.pc = "reading"] ELSE IdleSync
    /\ UNCHANGED <<online, store, sub, told, applied, fails, lost, raced, mishaps>>

SyncReads ==
    /\ sync.pc = "reading"
    /\ sync' = [sync EXCEPT !.pc = "next", !.todo = store]
    /\ UNCHANGED <<online, store, sub, told, applied, fails, lost, raced, mishaps>>

\* Sorted by priority: attendance before anything else
MaySend(o) ==
    /\ o \in Queued(sync.todo)
    /\ o \in Attendance \/ Queued(sync.todo) \cap Attendance = {}

\* 2xx: processed, though the body may say success: false.  retries is what the
\* item will count should clearItem throw.
SendSucceeds(o) ==
    /\ sync.pc = "next"
    /\ online
    /\ MaySend(o)
    /\ Process(o)
    /\ sync' = [sync EXCEPT !.pc = "clear", !.item = o, !.todo = Without(@, o),
                            !.retries = sync.todo[o] + 1, !.notice = "none",
                            !.stop = FALSE]
    /\ UNCHANGED <<online, store, sub, told, fails, lost, raced, mishaps>>

\* The window is closed, or the request can never succeed.
SendRefused(o) ==
    /\ sync.pc = "next"
    /\ online
    /\ MaySend(o)
    /\ \E n \in {"rejected", "failed"} :
         sync' = [sync EXCEPT !.pc = "clear", !.item = o, !.todo = Without(@, o),
                              !.notice = n, !.stop = FALSE]
    /\ UNCHANGED <<online, store, sub, told, applied, fails, lost, raced, mishaps>>

\* Mutants of LastTry: one try too few, and one too many.
TryTooFew(n) == n >= MaxRetries
TryTooMany(n) == n > MaxRetries + 1

LastTry(n) == n > MaxRetries

\* The item is kept with n retries, or given up; only a kept one stops the run.
Tried(o, n, stops) ==
    [sync EXCEPT !.pc = IF LastTry(n) THEN "clear" ELSE "retry",
                 !.item = o, !.todo = Without(@, o), !.retries = n,
                 !.notice = "gave_up", !.stop = stops /\ ~LastTry(n)]

CountFailure(o) == fails' = [fails EXCEPT ![o] = IF @ <= MaxRetries THEN @ + 1 ELSE @]

\* No response (the run stops) or a transient error (it goes on), before or after
\* the server committed.
SendFails(o) ==
    /\ sync.pc = "next"
    /\ MaySend(o)
    /\ CountFailure(o)
    /\ \E response \in BOOLEAN :
         /\ response => online
         /\ sync' = Tried(o, sync.todo[o] + 1, ~response)
    /\ \/ UNCHANGED <<applied, lost>>
       \/ online /\ Process(o) /\ lost' = lost \cup {o}
    /\ UNCHANGED <<online, store, sub, told, raced, mishaps>>

\* clearItem: an item already gone is not written.
ClearReads ==
    /\ sync.pc = "clear"
    /\ sync' = [sync EXCEPT !.pc = IF store[sync.item] = NotQueued THEN "notice"
                                   ELSE "clearing",
                            !.copy = store]
    /\ UNCHANGED <<online, store, sub, told, applied, fails, lost, raced, mishaps>>

\* Mutant of Cleared: every item goes, as in clearQueue.
ClearedAll(q, o) == EmptyQueue

\* clearItem keeps every item but one.
Cleared(q, o) == Without(q, o)

ClearWrites ==
    /\ sync.pc = "clearing"
    /\ store' = Cleared(sync.copy, sync.item)
    /\ Stale(sync.copy)
    /\ sync' = [sync EXCEPT !.pc = "notice"]
    /\ UNCHANGED <<online, sub, told, applied, fails, lost, mishaps>>

\* The write fails.  After a 2xx the exception has no response and counts as a
\* failed send; from a failure's own branch it ends the run.
ClearThrows ==
    /\ sync.pc = "clearing"
    /\ Mishap
    /\ \/ /\ sync.notice = "none"
          /\ sync' = Tried(sync.item, sync.retries, TRUE)
          /\ CountFailure(sync.item)
          /\ lost' = lost \cup {sync.item}
       \/ /\ sync.notice # "none"
          /\ sync' = IdleSync
          /\ UNCHANGED <<fails, lost>>
    /\ UNCHANGED <<online, store, sub, told, applied, raced>>

\* The next item of the snapshot, or the end of the run
AfterItem == IF sync.stop THEN IdleSync ELSE [sync EXCEPT !.pc = "next"]

Notifies ==
    /\ sync.pc = "notice"
    /\ told' = IF sync.notice = "none" THEN told
               ELSE [told EXCEPT ![sync.item] = sync.notice]
    /\ sync' = AfterItem
    /\ UNCHANGED <<online, store, sub, applied, fails, lost, raced, mishaps>>

RetryReads ==
    /\ sync.pc = "retry"
    /\ sync' = IF store[sync.item] = NotQueued THEN AfterItem
               ELSE [sync EXCEPT !.pc = "retrying", !.copy = store]
    /\ UNCHANGED <<online, store, sub, told, applied, fails, lost, raced, mishaps>>

RetryWrites ==
    /\ sync.pc = "retrying"
    /\ store' = [sync.copy EXCEPT ![sync.item] = sync.retries]
    /\ Stale(sync.copy)
    /\ sync' = AfterItem
    /\ UNCHANGED <<online, sub, told, applied, fails, lost, mishaps>>

RetryThrows ==
    /\ sync.pc = "retrying"
    /\ Mishap
    /\ sync' = IdleSync
    /\ UNCHANGED <<online, store, sub, told, applied, fails, lost, raced>>

SyncEnds ==
    /\ sync.pc = "next"
    /\ Queued(sync.todo) = {}
    /\ sync' = IdleSync
    /\ UNCHANGED <<online, store, sub, told, applied, fails, lost, raced, mishaps>>

SyncStep ==
    \/ SyncChecks \/ SyncReads \/ ClearReads \/ ClearWrites \/ Notifies
    \/ RetryReads \/ RetryWrites \/ SyncEnds
    \/ \E o \in Ops : SendSucceeds(o) \/ SendRefused(o) \/ SendFails(o)

AddStep(o) == AddReads(o) \/ AddWrites(o)

StorageFails == ClearThrows \/ RetryThrows \/ \E o \in Ops : AddThrows(o)

Next ==
    \/ GoOffline \/ GoOnline \/ Restart \/ SyncStep \/ StorageFails
    \/ \E o \in Ops : SubmitAnswered(o) \/ SubmitUnanswered(o) \/ AddStep(o)

Spec == Init /\ [][Next]_vars

\* The app runs what it started, connectivity comes and goes, and it lasts
\* often enough for a run to find it.
Fairness ==
    /\ WF_vars(SyncStep)
    /\ \A o \in Ops : WF_vars(AddStep(o))
    /\ WF_vars(GoOffline)
    /\ WF_vars(GoOnline)
    /\ SF_vars(online /\ SyncChecks)

FairSpec == Spec /\ Fairness

-----------------------------------------------------------------------------
(* Properties *)

\* "could not be submitted after several attempts" is said only of a submission
\* whose tries failed MAX_RETRIES + 1 times, whatever was killed, replayed,
\* overwritten or not written in between.
GivesUpLate ==
    \A o \in Ops : told[o] = "gave_up" => fails[o] = MaxRetries + 1

\* The queue alone never submits twice: a second processing needs one the app
\* could not record (its answer lost, an error after the server's commit, a kill
\* or a failing storage write after the 2xx), or a write that undid another.
DuplicatesExplained ==
    \A o \in Ops : applied[o] > 1 => o \in lost \/ raced

\* The student's "saved offline" is kept: the item is still queued, or the server
\* processed it, or he was told it was dropped; the app may be about to tell him,
\* or was killed just then.
Accounted(o) ==
    \/ o \in Queued(store)
    \/ applied[o] > 0
    \/ told[o] \in {"rejected", "failed", "gave_up"}
    \/ o = sync.item /\ sync.pc = "notice"
    \/ o \in lost

SavedAccounted ==
    raced \/ \A o \in Ops : sub[o].pc = "saved" => Accounted(o)

\* offlineQueue.js:5-7 promises the same without the exception: "the operation is
\* persisted to AsyncStorage and replayed automatically once connectivity returns".
SavedNotLost ==
    \A o \in Ops : sub[o].pc = "saved" => Accounted(o)

\* A queued item leaves the queue, sent, refused or given up, provided that
\* connectivity keeps coming back: one saved while online waits for the next
\* transition, since nothing else starts a run.
EveryItemLeaves ==
    \A o \in Ops : o \in Queued(store) ~> o \notin Queued(store)
=============================================================================

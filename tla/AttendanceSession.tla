------------------------- MODULE AttendanceSession -------------------------
(***************************************************************************)
(* One attendance session from the commit of start_session to the end of   *)
(* the override window: students marking themselves through the            *)
(* multi-commit mark_attendance handler, the teacher's end_session and     *)
(* manual_override, and the auto-expire and token-cleanup jobs.            *)
(*                                                                         *)
(* Every variable but req, call and job is committed database state.  req, *)
(* call and job hold what a request in flight has read and not committed:  *)
(* PostgreSQL runs READ COMMITTED, the session factory has autoflush off   *)
(* and its ORM writes only the attributes that differ from what it loaded, *)
(* so a handler acts on what it read and not on what is there.             *)
(***************************************************************************)
EXTENDS Integers, FiniteSets

CONSTANTS
    Students,      \* students of the subject's course and semester
    Requests,      \* POST /attendance/mark calls
    Calls,         \* end-session and manual-override calls of the staff
    CallOps,       \* which of the two the staff use
    FaceTokens,    \* rows face_verify may insert
    NoOne,         \* no student, no token, no request
    MaxSlot,       \* bound: the 5-second QR slots 0 .. MaxSlot
    MaxVerify,     \* _MAX_VERIFY_ATTEMPTS
    CleanupSlots,  \* slots during which the daily 04:00 cleanup falls
    OverrideTo,    \* statuses the staff override to
    UseGps,        \* the teacher shared a location with the session
    BleRequired,   \* settings.BLUETOOTH_REQUIRED
    Horizon        \* bound: how far time runs, see Age

Slots == 0 .. MaxSlot
Final == {"present", "late", "medical_leave", "duty_leave"}
Status == Final \cup {"absent"}

\* 0: within the 70 minutes of a class; 1: past them; 2: a day after the close
Age == 0 .. 2

ASSUME ConstantsAssumption ==
    /\ NoOne \notin Students \cup FaceTokens \cup Requests
    /\ Requests \cap Calls = {}
    /\ MaxSlot \in Nat
    /\ MaxVerify \in Nat \ {0}
    /\ CleanupSlots \subseteq Slots
    /\ OverrideTo \subseteq Status
    /\ UseGps \in BOOLEAN
    /\ BleRequired \in BOOLEAN
    /\ Horizon \in Age
    /\ CallOps \subseteq {"end", "override"}
    /\ IsFiniteSet(Students)
    /\ IsFiniteSet(Requests)
    /\ IsFiniteSet(FaceTokens)

VARIABLES
    session,   \* row of attendance_sessions
    record,    \* rows of attendance_records, by student
    face,      \* rows of face_verify_tokens
    slot,      \* int(time.time()) // QR_EXPIRY_SECONDS
    shown,     \* slots whose QR code the teacher's screen has displayed
    qrUsedBy,  \* rows of qr_tokens: used_by per time_slot
    snap,      \* students with a row in student_gps_snapshots
    snapLock,  \* request holding that row's lock or its unique-index entry
    audit,     \* row of attendance_audit committed by a request or a call
    verifyFails, \* failed rows of attendance_audit committed by face_verify
    age,       \* Age reached
    req,       \* mark requests in flight
    call,      \* staff calls in flight
    job        \* auto_expire_sessions run in flight

vars == <<session, record, face, slot, shown, qrUsedBy, snap, snapLock,
          audit, verifyFails, age, req, call, job>>

\* What an action leaves alone, by kind
book == <<session, record>>
tokens == <<face, shown, qrUsedBy>>
clock == <<slot, age>>
snapshot == <<snap, snapLock>>
log == <<audit, verifyFails>>
staff == <<call, job>>

NoToken == [owner |-> NoOne, state |-> "none"]
NoRecord == [status |-> "none", by |-> "none"]
DefaultAbsent == [status |-> "absent", by |-> "auto_absent"]
IdleReq == [pc |-> "idle", student |-> NoOne, face |-> NoOne, slot |-> 0,
            found |-> FALSE, checks |-> {}, answer |-> "none"]
IdleCall == [pc |-> "idle", op |-> "none", student |-> NoOne, new |-> "absent",
             loaded |-> NoRecord, count |-> 0, present |-> 0]
IdleJob == [pc |-> "idle", count |-> 0, present |-> 0]

PresentStudents == {s \in Students : record[s].status = "present"}
NumPresent == Cardinality(PresentStudents)

\* prior_attempts in face_verify: every failed audit row counts, whatever failed
FailedRows(s) ==
    verifyFails[s]
      + Cardinality({r \in Requests : req[r].student = s /\ audit[r] = "failed"})

RecordRow == [status : Status \cup {"none"},
              by : {"none", "auto_absent", "qr_scan", "manual"}]
SessionRow == [status : {"active", "ended", "expired"}, count : Nat,
               endTime : BOOLEAN]
TokenRow == [owner : Students \cup {NoOne},
             state : {"none", "pending", "live", "used", "expired", "purged"}]
ReqState == [pc : {"idle", "face", "qr", "gps", "snapshot", "insert", "commit", "done"},
             student : Students \cup {NoOne}, face : FaceTokens \cup {NoOne},
             slot : Slots, found : BOOLEAN, checks : SUBSET {"face", "qr", "gps"},
             answer : {"none", "closed", "already", "device", "failed", "present",
                       "flush_failed", "conflict", "died"}]
CallState == [pc : {"idle", "loaded", "counted", "done"},
              op : {"none", "end", "override"}, student : Students \cup {NoOne},
              new : Status, loaded : RecordRow, count : Nat, present : Nat]
JobState == [pc : {"idle", "loaded", "counted"}, count : Nat, present : Nat]

TypeOK ==
    /\ session \in SessionRow
    /\ record \in [Students -> RecordRow]
    /\ face \in [FaceTokens -> TokenRow]
    /\ slot \in Slots
    /\ shown \subseteq Slots
    /\ qrUsedBy \in [Slots -> Students \cup {NoOne}]
    /\ snap \subseteq Students
    /\ snapLock \in [Students -> Requests \cup {NoOne}]
    /\ audit \in [Requests \cup Calls -> {"none", "failed", "success"}]
    /\ verifyFails \in [Students -> Nat]
    /\ age \in Age
    /\ req \in [Requests -> ReqState]
    /\ call \in [Calls -> CallState]
    /\ job \in JobState

\* start_session has just committed; it inserted absent records for the students
\* of the session's section, which need not be all of the course and semester.
Init ==
    /\ session = [status |-> "active", count |-> 0, endTime |-> FALSE]
    /\ record \in [Students -> {DefaultAbsent, NoRecord}]
    /\ face = [f \in FaceTokens |-> NoToken]
    /\ slot = 0
    /\ shown = {}
    /\ qrUsedBy = [k \in Slots |-> NoOne]
    /\ snap \in {{}, Students}
    /\ snapLock = [s \in Students |-> NoOne]
    /\ audit = [x \in Requests \cup Calls |-> "none"]
    /\ verifyFails = [s \in Students |-> 0]
    /\ age = 0
    /\ req = [r \in Requests |-> IdleReq]
    /\ call = [c \in Calls |-> IdleCall]
    /\ job = IdleJob

-----------------------------------------------------------------------------
(* Time, the QR display and the face check *)

Tick ==
    /\ slot < MaxSlot
    /\ slot' = slot + 1
    /\ UNCHANGED <<book, tokens, snapshot, log, staff, age, req>>

\* The 70 minutes pass; a day passes after the close, outliving every request.
GrowOld ==
    /\ age < Horizon
    /\ age = 1 => /\ session.status # "active"
                  /\ \A r \in Requests : req[r].pc \in {"idle", "done"}
                  /\ \A c \in Calls : call[c].pc \in {"idle", "done"}
                  /\ job.pc = "idle"
    /\ age' = age + 1
    /\ UNCHANGED <<book, tokens, snapshot, log, staff, slot, req>>

ShowQr ==
    /\ session.status = "active"
    /\ shown' = shown \cup {slot}
    /\ UNCHANGED <<book, clock, snapshot, log, staff, face, qrUsedBy, req>>

\* Mutant of MayVerify: one attempt too many.
MayVerifyOnceMore(s) == FailedRows(s) <= MaxVerify

MayVerify(s) == FailedRows(s) < MaxVerify

\* face_verify checks session and attempts, then waits for the recognition
\* service; f is the token row it will insert if the face matches.
VerifyBegins(s, f) ==
    /\ session.status = "active"
    /\ MayVerify(s)
    /\ face[f].state = "none"
    /\ face' = [face EXCEPT ![f] = [owner |-> s, state |-> "pending"]]
    /\ UNCHANGED <<book, clock, snapshot, log, staff, shown, qrUsedBy, req>>

FaceVerified(f) ==
    /\ face[f].state = "pending"
    /\ face' = [face EXCEPT ![f].state = "live"]
    /\ UNCHANGED <<book, clock, snapshot, log, staff, shown, qrUsedBy, req>>

FaceRejected(f) ==
    /\ face[f].state = "pending"
    /\ face' = [face EXCEPT ![f] = NoToken]
    /\ verifyFails' = [verifyFails EXCEPT ![face[f].owner] = @ + 1]
    /\ UNCHANGED <<book, clock, snapshot, staff, audit, shown, qrUsedBy, req>>

VerifyDies(f) ==
    /\ face[f].state = "pending"
    /\ face' = [face EXCEPT ![f] = NoToken]
    /\ UNCHANGED <<book, clock, snapshot, log, staff, shown, qrUsedBy, req>>

\* 60 seconds after it was issued
FaceExpires(f) ==
    /\ face[f].state = "live"
    /\ face' = [face EXCEPT ![f].state = "expired"]
    /\ UNCHANGED <<book, clock, snapshot, log, staff, shown, qrUsedBy, req>>

\* Mutant of Purged: the job clears the flag instead of deleting the row.
PurgedUnused(t) == IF t.state = "used" THEN [t EXCEPT !.state = "live"] ELSE t

\* A token that can neither be consumed nor issued again
Purged(t) == IF t.state = "used" THEN [t EXCEPT !.state = "purged"] ELSE t

\* _daily_cleanup_tokens deletes every used token whatever its age
CleanupTokens ==
    /\ slot \in CleanupSlots
    /\ face' = [f \in FaceTokens |-> Purged(face[f])]
    /\ qrUsedBy' = [k \in Slots |-> NoOne]
    /\ UNCHANGED <<book, clock, snapshot, log, staff, shown, req>>

-----------------------------------------------------------------------------
(* mark_attendance: one action per commit, and per lock it may wait for *)

\* Every answer ends the transaction: what it locked is free again.
Answered(r, a) ==
    req' = [req EXCEPT ![r] = [@ EXCEPT !.pc = "done", !.answer = a]]

Passes(r, check, next) ==
    req' = [req EXCEPT ![r] =
              [@ EXCEPT !.pc = next, !.checks = req[r].checks \cup {check}]]

\* Mutant of Unlocked: the transaction is left open.
StillLocked(r) == snapLock

Unlocked(r) ==
    [s \in Students |-> IF snapLock[s] = r THEN NoOne ELSE snapLock[s]]

\* Steps 1a to 2 turn the request away: 409, already marked, or wrong device,
\* the last with an audit row that the return leaves uncommitted.
TurnedAway(r, s) ==
    /\ req[r].pc = "idle"
    /\ \E a \in {"closed", "already", "device"} :
         /\ a = "closed" <=> session.status # "active"
         /\ a # "closed" => (a = "already" <=> record[s].status \in Final)
         /\ req' = [req EXCEPT ![r] =
                      [@ EXCEPT !.pc = "done", !.student = s, !.answer = a]]
    /\ UNCHANGED <<book, tokens, clock, snapshot, log, staff>>

\* Steps 1a to 2 pass.  The student shows some token and some displayed code.
MarkBegins(r, s, f, k) ==
    /\ req[r].pc = "idle"
    /\ face[f].state \notin {"none", "pending"}
    /\ k \in shown
    /\ session.status = "active"
    /\ record[s].status \notin Final
    /\ req' = [req EXCEPT ![r] =
                 [@ EXCEPT !.pc = "face", !.student = s, !.face = f, !.slot = k,
                           !.found = record[s].status # "none"]]
    /\ UNCHANGED <<book, tokens, clock, snapshot, log, staff>>

\* Mutants of TokenValid: no check of the user, no check of used.
TokenOfAnyone(r) == face[req[r].face].state = "live"
TokenReusable(r) ==
    /\ face[req[r].face].owner = req[r].student
    /\ face[req[r].face].state \in {"live", "used"}

TokenValid(r) == face[req[r].face] = [owner |-> req[r].student, state |-> "live"]

\* validate_face_verify_token: SELECT ... FOR UPDATE, used = True, commit
FaceTokenConsumed(r) ==
    /\ req[r].pc = "face"
    /\ TokenValid(r)
    /\ face' = [face EXCEPT ![req[r].face].state = "used"]
    /\ Passes(r, "face", "qr")
    /\ UNCHANGED <<book, clock, snapshot, log, staff, shown, qrUsedBy>>

\* _write_audit adds the row, the return rolls it back
FaceTokenRefused(r) ==
    /\ req[r].pc = "face"
    /\ ~TokenValid(r)
    /\ Answered(r, "failed")
    /\ UNCHANGED <<book, tokens, clock, snapshot, log, staff>>

\* Mutant of SlotValid: the window is checked, the ledger is not.
SlotInWindow(r) == req[r].slot \in (slot - 1) .. (slot + 1)

SlotValid(r) ==
    /\ req[r].slot \in (slot - 1) .. (slot + 1)
    /\ qrUsedBy[req[r].slot] = NoOne

\* validate_qr_token: INSERT ... ON CONFLICT DO NOTHING, commit
QrConsumed(r) ==
    /\ req[r].pc = "qr"
    /\ SlotValid(r)
    /\ qrUsedBy' = [qrUsedBy EXCEPT ![req[r].slot] = req[r].student]
    /\ Passes(r, "qr", IF UseGps THEN "gps" ELSE "commit")
    /\ UNCHANGED <<book, clock, snapshot, log, staff, face, shown>>

\* The answer is failed, and sec_logger.log commits the audit row with its own as
\* best it can: an error of that commit is swallowed and everything rolled back.
Refused(r) ==
    /\ Answered(r, "failed")
    /\ \/ audit' = [audit EXCEPT ![r] = "failed"]
       \/ UNCHANGED audit

QrRefused(r) ==
    /\ req[r].pc = "qr"
    /\ ~SlotValid(r)
    /\ Refused(r)
    /\ UNCHANGED <<book, tokens, clock, snapshot, staff, verifyFails>>

GpsRefused(r) ==
    /\ req[r].pc = "gps"
    /\ Refused(r)
    /\ UNCHANGED <<book, tokens, clock, snapshot, staff, verifyFails>>

GpsPassed(r) ==
    /\ req[r].pc = "gps"
    /\ Passes(r, "gps", "snapshot")
    /\ UNCHANGED <<book, tokens, clock, snapshot, log, staff>>

\* The verdict is given.  SELECT ... FOR UPDATE on the snapshot waits for its lock;
\* no row, no lock.
SnapshotLocked(r) ==
    LET s == req[r].student IN
    /\ req[r].pc = "snapshot"
    /\ s \in snap => snapLock[s] = NoOne
    /\ snapLock' = IF s \in snap THEN [snapLock EXCEPT ![s] = r] ELSE snapLock
    /\ req' = [req EXCEPT ![r].pc = IF s \in snap THEN "commit" ELSE "insert"]
    /\ UNCHANGED <<book, tokens, clock, log, staff, snap>>

\* flush of the new snapshot: waits for an uncommitted one of the same student;
\* a committed one fails the flush, and the next use of the session raises
SnapshotInserted(r) ==
    LET s == req[r].student IN
    /\ req[r].pc = "insert"
    /\ snapLock[s] = NoOne
    /\ IF s \in snap
       THEN /\ Answered(r, "flush_failed")
            /\ UNCHANGED snapLock
       ELSE /\ snapLock' = [snapLock EXCEPT ![s] = r]
            /\ req' = [req EXCEPT ![r].pc = "commit"]
    /\ UNCHANGED <<book, tokens, clock, log, staff, snap>>

\* The commit that ends the transaction also commits a flushed snapshot.
SnapshotWith(r) == IF UseGps THEN snap \cup {req[r].student} ELSE snap

BleRefused(r) ==
    /\ BleRequired
    /\ req[r].pc = "commit"
    /\ Refused(r)
    /\ snapLock' = Unlocked(r)
    /\ snap' = IF audit'[r] = "failed" THEN SnapshotWith(r) ELSE snap
    /\ UNCHANGED <<book, tokens, clock, staff, verifyFails>>

\* Mutant of Scanned: the row that start_session inserted keeps its status.
ScannedKeepsStatus(s) == [record EXCEPT ![s].by = "qr_scan"]

Scanned(s) ==
    [record EXCEPT ![s] = [status |-> "present", by |-> "qr_scan"]]

\* Mutants of CountAfterScan: a recount that does not see the unflushed record,
\* and a decrement.
Recounted == NumPresent
Decremented == session.count - 1

\* The increment runs in SQL, on the row as it is.
CountAfterScan == session.count + 1

\* Steps 7 and 8: the record as loaded in step 1c is updated, or inserted when
\* there was none; neither it nor the session is looked at again.
Marked(r) ==
    LET s == req[r].student IN
    /\ req[r].pc = "commit"
    /\ req[r].found \/ record[s].status = "none"
    /\ record' = Scanned(s)
    /\ session' = [session EXCEPT !.count = CountAfterScan]
    /\ audit' = [audit EXCEPT ![r] = "success"]
    /\ snap' = SnapshotWith(r)
    /\ snapLock' = Unlocked(r)
    /\ Answered(r, "present")
    /\ UNCHANGED <<tokens, clock, staff, verifyFails>>

\* Two inserts of one student's record: the unique constraint fails the second.
MarkConflicts(r) ==
    /\ req[r].pc = "commit"
    /\ ~req[r].found
    /\ record[req[r].student].status # "none"
    /\ Answered(r, "conflict")
    /\ snapLock' = Unlocked(r)
    /\ UNCHANGED <<book, tokens, clock, log, staff, snap>>

\* The worker dies or the database fails the request: it rolls back.
MarkDies(r) ==
    /\ req[r].pc \notin {"idle", "done"}
    /\ Answered(r, "died")
    /\ snapLock' = Unlocked(r)
    /\ UNCHANGED <<book, tokens, clock, log, staff, snap>>

MarkStep(r) ==
    \/ FaceTokenConsumed(r) \/ FaceTokenRefused(r)
    \/ QrConsumed(r) \/ QrRefused(r)
    \/ GpsPassed(r) \/ GpsRefused(r) \/ SnapshotLocked(r) \/ SnapshotInserted(r)
    \/ BleRefused(r) \/ Marked(r) \/ MarkConflicts(r)

-----------------------------------------------------------------------------
(* end_session, manual_override and auto_expire_sessions: load, count, commit *)

\* Mutants of CountWritten: added to, and not written.
CountAccumulated(load) == session.count + load.present
CountKept(load) == session.count

\* The ORM writes present_count only when it differs from the value loaded.
CountWritten(load) ==
    IF load.present # load.count THEN load.present ELSE session.count

EndLoads(c) ==
    /\ "end" \in CallOps
    /\ call[c].pc = "idle"
    /\ session.status = "active"
    /\ call' = [call EXCEPT ![c] =
                  [@ EXCEPT !.pc = "loaded", !.op = "end", !.count = session.count]]
    /\ UNCHANGED <<book, tokens, clock, snapshot, log, req, job>>

\* The 24-hour guard looks at ended sessions with an end_time only.
OverrideWindowOpen == ~(session.status = "ended" /\ session.endTime /\ age = 2)

OverrideLoads(c, s, st) ==
    /\ "override" \in CallOps
    /\ call[c].pc = "idle"
    /\ OverrideWindowOpen
    /\ record[s].status # "none"
    /\ call' = [call EXCEPT ![c] =
                  [pc |-> "loaded", op |-> "override", student |-> s, new |-> st,
                   loaded |-> record[s], count |-> session.count, present |-> 0]]
    /\ UNCHANGED <<book, tokens, clock, snapshot, log, req, job>>

\* end_session reads all records; manual_override counts the present ones in
\* SQL, with its own change of the record not flushed.
CallCounts(c) ==
    /\ call[c].pc = "loaded"
    /\ call' = [call EXCEPT ![c] =
                  [@ EXCEPT !.pc = "counted", !.present = NumPresent]]
    /\ UNCHANGED <<book, tokens, clock, snapshot, log, req, job>>

EndCommits(c) ==
    /\ call[c].pc = "counted"
    /\ call[c].op = "end"
    /\ session' = [status |-> "ended", count |-> CountWritten(call[c]),
                   endTime |-> TRUE]
    /\ call' = [call EXCEPT ![c].pc = "done"]
    /\ UNCHANGED <<tokens, clock, snapshot, log, record, req, job>>

OverrideCommits(c) ==
    LET o == call[c] IN
    /\ o.pc = "counted"
    /\ o.op = "override"
    /\ record' = [record EXCEPT ![o.student] =
         [status |-> IF o.new # o.loaded.status THEN o.new ELSE @.status,
          by |-> IF o.loaded.by # "manual" THEN "manual" ELSE @.by]]
    /\ session' = [session EXCEPT !.count = CountWritten(o)]
    /\ audit' = [audit EXCEPT ![c] = "success"]
    /\ call' = [call EXCEPT ![c].pc = "done"]
    /\ UNCHANGED <<tokens, clock, snapshot, verifyFails, req, job>>

\* Mutant of Overdue: a cut-off of a day.
OverdueByADay == age > 1

\* The cutoff: CLASS_DURATION_MINUTES after the row was created
Overdue == age >= 1

ExpireLoads ==
    /\ job.pc = "idle"
    /\ session.status = "active"
    /\ Overdue
    /\ job' = [pc |-> "loaded", count |-> session.count, present |-> 0]
    /\ UNCHANGED <<book, tokens, clock, snapshot, log, req, call>>

ExpireCounts ==
    /\ job.pc = "loaded"
    /\ job' = [job EXCEPT !.pc = "counted", !.present = NumPresent]
    /\ UNCHANGED <<book, tokens, clock, snapshot, log, req, call>>

ExpireCommits ==
    /\ job.pc = "counted"
    /\ session' = [session EXCEPT !.status = "expired", !.count = CountWritten(job)]
    /\ job' = IdleJob
    /\ UNCHANGED <<tokens, clock, snapshot, log, record, req, call>>

ExpireStep == ExpireLoads \/ ExpireCounts \/ ExpireCommits

-----------------------------------------------------------------------------
Next ==
    \/ Tick \/ GrowOld \/ ShowQr \/ CleanupTokens
    \/ \E s \in Students, f \in FaceTokens : VerifyBegins(s, f)
    \/ \E f \in FaceTokens : \/ FaceVerified(f) \/ FaceRejected(f)
                              \/ VerifyDies(f) \/ FaceExpires(f)
    \/ \E r \in Requests, s \in Students : TurnedAway(r, s)
    \/ \E r \in Requests, s \in Students, f \in FaceTokens, k \in Slots :
         MarkBegins(r, s, f, k)
    \/ \E r \in Requests : MarkStep(r) \/ MarkDies(r)
    \/ \E c \in Calls : EndLoads(c) \/ CallCounts(c) \/ EndCommits(c)
                          \/ OverrideCommits(c)
    \/ \E c \in Calls, s \in Students, st \in OverrideTo : OverrideLoads(c, s, st)
    \/ ExpireStep

Spec == Init /\ [][Next]_vars

\* A worker runs its request to an answer, and the scheduler runs the job every
\* minute.  Nothing obliges a student, a teacher, the clock or a crash.
FairSpec ==
    /\ Spec
    /\ \A r \in Requests : WF_vars(MarkStep(r))
    /\ WF_vars(ExpireStep)

-----------------------------------------------------------------------------
(* What the session promises *)

\* What mark_attendance verifies on the server; BLE it takes from the phone
AllChecks == {"face", "qr"} \cup (IF UseGps THEN {"gps"} ELSE {})

Answer(a) == {r \in Requests : req[r].answer = a}
OverrideDone(c) == call[c].op = "override" /\ call[c].pc = "done"
PendingChecks(s) == {f \in FaceTokens : face[f] = [owner |-> s, state |-> "pending"]}
NoOverride == \A c \in Calls : ~OverrideDone(c)

\* Two requests never pass the QR step on one time slot, however they interleave
\* (validate_qr_token, steps e and f).
QrSingleUse ==
    \A r1, r2 \in Requests :
        /\ r1 # r2
        /\ "qr" \in req[r1].checks \cap req[r2].checks
        => req[r1].slot # req[r2].slot

\* Two requests never pass the face step on one token
\* (validate_face_verify_token, "atomic lock prevents double-use").
FaceSingleUse ==
    \A r1, r2 \in Requests :
        /\ r1 # r2
        /\ "face" \in req[r1].checks \cap req[r2].checks
        => req[r1].face # req[r2].face

\* A record says qr_scan only if a request of that very student passed every
\* check of the session, with a token issued for his own face (mark_attendance).
ScanEvidence ==
    \A s \in Students :
        record[s].by = "qr_scan" =>
            \E r \in Answer("present") :
                /\ req[r].student = s
                /\ req[r].checks = AllChecks
                /\ face[req[r].face].owner = s

\* A student told "marked successfully" stays present until the staff says
\* otherwise, whatever closes the session meanwhile (mark_attendance, step 7).
SuccessRecorded ==
    \A r \in Answer("present") :
        \/ \E c \in Calls : OverrideDone(c) /\ call[c].student = req[r].student
        \/ record[req[r].student] = [status |-> "present", by |-> "qr_scan"]

\* The limit of failed attempts is overrun only by face checks that were with the
\* recognition service already when it was reached: face_verify counts the rows
\* before it waits, every check in flight may still add one, and none more starts.
AttemptsBounded ==
    \A s \in Students :
        verifyFails[s] + Cardinality(PendingChecks(s))
            <= MaxVerify - 1 + Cardinality(FaceTokens)

\* While the session is open and nobody overrides, present_count loses no
\* update: it is the number of successful scans (the SQL increment of step 7).
CountMatchesScans ==
    session.status = "active" /\ NoOverride
        => session.count = Cardinality(Answer("present"))

\* Closing, by teacher or by job, never credits a scan that did not succeed,
\* even when it races with scans that are committing.
ClosedCountBounded ==
    NoOverride => session.count <= Cardinality(Answer("present"))

\* A teacher's close that neither a scan nor another close raced repairs
\* present_count: a student counted twice is counted once (end_session recounts).
CloseReconciles ==
    [][\A c \in Calls :
         /\ call[c].pc = "counted" /\ call'[c].pc = "done" /\ call[c].op = "end"
         /\ session.status = "active"
         /\ session.count = call[c].count
         /\ NoOverride
         => session'.count = NumPresent]_vars

\* A snapshot lock is held by a request about to commit, for its own student:
\* no answer, error path or crash leaves it behind.
LockHeldByCommitter ==
    \A s \in Students, r \in Requests :
        snapLock[s] = r => req[r].pc = "commit" /\ req[r].student = s

\* The two ledgers the scan consumes implement the abstract one.
QrLedger == INSTANCE SingleUse WITH
    Items <- Slots, Claimants <- Students, Nobody <- NoOne, claimedBy <- qrUsedBy

FaceClaims == [f \in FaceTokens |->
    IF face[f].state \in {"used", "purged"} THEN face[f].owner ELSE NoOne]

FaceLedger == INSTANCE SingleUse WITH
    Items <- FaceTokens, Claimants <- Students, Nobody <- NoOne,
    claimedBy <- FaceClaims

\* A used QR slot is never given back and never passes to another student.
QrLedgerSpec == QrLedger!Spec

\* A face token is used once, by the student it was issued to, for good: the
\* cleanup job that deletes its row does not make it usable again.
FaceLedgerSpec == FaceLedger!Spec

\* Every mark request is answered: the locks of step 5 delay it, never for ever.
EveryMarkAnswered ==
    \A r \in Requests : req[r].pc = "face" ~> req[r].pc = "done"

\* A session nobody ends is closed by the job once the class is over.
StaleSessionCloses == age >= 1 ~> session.status # "active"

-----------------------------------------------------------------------------
(* What the comments and documents of the code say, and the code does not do *)

\* "This prevents a student from overwriting a teacher's manual override."
OverridePreserved ==
    [][\A s \in Students :
         record[s].by = "manual" /\ record[s].status \in Final
             => record'[s].by # "qr_scan"]_vars

\* "with_for_update() locks the row so two concurrent scans for the same student
\* don't both read a stale row and both insert duplicates"
SnapshotHarmless == Answer("flush_failed") = {}
=============================================================================

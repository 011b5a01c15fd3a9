# AutoAttend: specification and verification

AutoAttend marks the attendance of a college: a student scans a rotating QR code,
shows his face, and is located by GPS and Bluetooth; a teacher opens, closes and
corrects sessions; online classes turn minutes attended into attendance; a mobile
app and a web front end sign in, show and change all of it, and queue what could not be sent. This directory holds TLA+ models of the parts
where several actors, commits or failures meet, the TLC configurations that check
them on small instances, and TLAPS proofs that hold for every instance.

    cd tla
    tlc -workers 2 -config scan.cfg MCAttendanceSession     # any run listed below
    tlapm AttendanceSession_proofs.tla                      # any *_proofs module

Paths below are relative to `src/`; `R/` stands for `backend/routes/`, `U/` for
`backend/utils/`, `MO/` for `AutoAttendMobile/src/` and `W/` for `frontend/src/`.

## 1. Inventory

How handlers run decides what a step is. FastAPI runs the `def` endpoints in a pool of
threads; each request has its own SQLAlchemy session on PostgreSQL, at READ
COMMITTED, with `autoflush=False` (`backend/database.py:299-303`). Hence, in
every model: a read sees what was committed when it ran; nothing a handler
changes is visible before its commit; the ORM writes only attributes whose value
differs from the one *loaded* (writing back an equal value writes nothing); a
query issued between a change and its commit does not see the change; and a
commit can fail on a unique constraint. Between two commits anything may happen.

| Component | State it keeps | Operations | What is hard | Correct when |
|---|---|---|---|---|
| **Attendance session** `R/attendance.py` | `attendance_sessions`, `attendance_records`, `attendance_audit`, `student_gps_snapshots` | `start_session`, `mark_attendance` (8 steps, up to 4 commits), `end_session`, `manual_override` | scans race with the close, with an override and with each other; a crash or a refusal between two commits | a scan is backed by every check; a success stays; the count loses no update; no lock is left |
| **QR and face tokens** `U/qr_utils.py`, `R/qr.py`, `R/face.py`, `U/auth_utils.py` | `qr_tokens`, `face_verify_tokens` | issue, verify, consume, expire, purge | two requests consume one token; the cleanup job runs meanwhile | every item is used once, by its owner |
| **Scheduled jobs** `backend/main.py` | none of their own | `auto_expire_sessions` each minute, token cleanup at 04:00, alerts | they read, count and commit like a handler | a stale session closes, and its count is right |
| **Live sessions** `R/live_session.py` | `live_sessions`, `live_session_participants`, the linked sheet | create, start (two commits), join, heartbeat, leave, end | heartbeats are read-modify-write; end computes records from rows read at several moments; two starts or ends in flight | ended is final; presence is earned by heartbeats; nobody who joined is left out |
| **Live pulses, classroom tools** `R/live_session.py` | `pulse_checks`, `live_pulse_checks`, `_pulse_responders` | create, answer, auto-close, results; breakout rooms, observations | answers race with the closing timer; part of the state is in process memory | one answer per student, counts equal answers |
| **Mobile offline queue** `MO/utils/offlineQueue.js`, `MO/context/OfflineQueueContext.js` | one AsyncStorage value, `_processing` | add, process, clear, retry | read, await, write without a lock; lost answers; the app is killed | nothing saved is lost, nothing is submitted twice without cause |
| **Web offline queue** `frontend/src/utils/offlineQueue.js` | one localStorage value | the same | synchronous storage, but several tabs | the same |
| **Leave requests** `R/leave.py` | `leave_requests`, and the records an approval rewrites | apply, cancel, approve, reject | two decisions of one request; an approval rewrites records of open sessions | one decision; its effect on the records matches it |
| **Disputes** `R/student_portal.py` | `attendance_disputes`, one record, the count | file, resolve | the recount races with scans and overrides | resolving gives the record and a count that agrees |
| **Tutor ward meetings** `R/twm.py`, `R/tutor.py` | `twm_sessions`, `twm_attendance` | start, mark, bulk mark, end | bulk marks against single marks and the end | one row per student and meeting |
| **Login and tokens** `R/auth.py`, `U/auth_utils.py` | users, `refresh_tokens`, OTP rows | login, lockout, refresh rotation, reset | two refreshes of one token; counters under parallel attempts | no client is taken for a thief; one live token per login |
| **Sign-in on the phone** `MO/api/client.js`, `MO/context/AuthContext.js` | two SecureStore keys, the shown user, `_refreshInFlight` | login, logout, renewal, replay, relaunch | calls and renewals outlive a logout; the app dies between rotation and save | calls carry the shown user's token |
| **Sign-in on the web** `W/api/axios.js`, `W/context/AuthContext.jsx` | two cookies, per tab a `sessionStorage` bearer and `_refreshInFlight` | the same, reload | tabs share cookies but nothing else | the cookie is the one working token; a tab acts for the user it shows |
| **Scan wizard** `MO/screens/student/ScanQRScreen.js` | the state of one screen | photo, liveness, scan, biometric, submit, try again | timers, alerts and answers of closures of an older render | one scan at a time; the scanner answers |
| **Other screens and pages** `MO/screens`, `W/pages` | rows, flags and errors of React state | fetches and calls | answers out of order, failures, double presses | what is shown is what is selected and decided |
| **WebSocket sessions** `U/session_manager.py` | dictionary session → user → socket | connect, disconnect, broadcast | a late disconnect of a replaced socket | the registry holds the newest socket |
| **ClassPulse** `R/classpulse.py` | capsules, interactions, quiz attempts | unlock, watch, quiz, wall | the attempt limit under parallel submissions | at most two attempts, a day apart |
| **Location, Bluetooth** `U/location_utils.py`, `U/bluetooth_utils.py` | none | verdicts of steps 5 and 6 | floating point | — |
| **Audit, security events** `U/audit_helpers.py`, `U/security_logger.py` | `attendance_audit`, `security_events` | add, commit | which commit carries a row; a refusal's own commit may fail unnoticed | the attempt limit counts what was recorded |
| **Database schema** `backend/database.py` | the tables | — | unique constraints with NULL columns | — |
| Notifications, people and timetable, reports, content features | single rows, or none | create, read, update, delete; calls to services | none across several steps | — |

The attendance session is where the others meet: tokens are consumed by
`mark_attendance`; the jobs close sessions; a live class opens one and writes its
records; leaves and disputes rewrite records; the offline queue replays scans
against it. The two clients are programs of their own: each keeps a copy of what the
server said and acts on the copy.

## 2. Modules

| Module | What it is |
|---|---|
| `AttendanceSession.tla` | one attendance session: scans, tokens, close, override, expiry, cleanup |
| `SingleUse.tla` | abstract: a ledger of items claimed at most once, for good |
| `TokenChains.tla` | abstract: logins that hand one working token on, each to a new one |
| `LiveSession.tla` | one live class and the sheet it writes |
| `OfflineQueue.tla` | the mobile queue and the screens that feed it |
| `RefreshTokens.tla` | the refresh token table: issue, rotate, sweep, revoke |
| `MobileSignIn.tla`, `WebSignIn.tla` | the two clients of that table (both extend it) |
| `Approvals.tla` | leave requests and disputes, and the record and count they rewrite |
| `LiveFeed.tla` | the socket registry, the pulses sent through it and the page that shows them |
| `PhoneScan.tla` | the scan wizard |
| `Screens.tla` | one screen at work, for any row of the tables |
| `ScreenParts.tla`, `*Screens.tla`, `Web*Pages.tla` | the words of the tables, and one row per screen or page |
| `MCClients.tla` | phone, browser, approvals, feed, wizard and screen, one of them per behaviour |
| `MC*.tla`, `*.cfg` | instances and symmetry for TLC |
| `*_proofs.tla` | the theorems of section 6 |

`AttendanceSession` implements `SingleUse` twice (INSTANCE ... WITH): once for QR slots
(`claimedBy <- qrUsedBy`) and once for face tokens (`FaceClaims`). `Approvals` implements it for the
decisions of leaves (`Decision`), and `RefreshTokens`, as the phone and the browser use it, implements
`TokenChains` (`working <- Working`, the live rows of each login).

### AttendanceSession

State from the database: `session` (status, `present_count`, whether `end_time` is
set), `record` (status and `marked_by` per student), `face`, `qrUsedBy`, `snap`,
`audit`. State of requests in flight: `req` (a `mark_attendance` with its program
counter and what it loaded: whether the record was found), `call` (an
`end_session` or `manual_override` with the row it loaded and the count it
computed), `job` (the expiry job). `snapLock` is the row lock or unique-index entry
of the GPS snapshot.

* `mark_attendance` (`R/attendance.py:386-938`) is one action per commit: `TurnedAway`
  and `MarkBegins` (steps 1a-2), `FaceTokenConsumed/Refused` (step 3, a commit inside
  `validate_face_verify_token`), `QrConsumed/Refused` (step 4, a commit inside
  `validate_qr_token`), `GpsPassed/Refused` (step 5's verdict), `SnapshotLocked` (the wait for the row lock, which a
  request enters only after its verdict) and `SnapshotInserted` (the flush that can fail), `BleRefused` (step 6),
  `Marked` (steps 7, 8 and the commit), `MarkConflicts` (the unique constraint on records) and `MarkDies` (the
  worker dies). A `Refused` request commits its audit row if it can: an error of `sec_logger.log` is swallowed,
  rolls everything back, and the answer is the same.
* `end_session` is `EndLoads`, `CallCounts`, `EndCommits`; `manual_override` is
  `OverrideLoads`, `CallCounts`, `OverrideCommits`; `auto_expire_sessions` is
  `ExpireLoads`, `ExpireCounts`, `ExpireCommits`. `CountWritten` is the ORM rule above:
  a count equal to the loaded one is not written, so a concurrent increment stays.
* `face_verify` is `VerifyBegins` and one of `FaceVerified`, `FaceRejected`, `VerifyDies`: the
  recognition service answers between the two.
* `CleanupTokens` deletes used tokens; `FaceExpires`, `Tick`, `GrowOld` are time.

The HMAC of a QR code, the face match, the distance and the Bluetooth report are
verdicts: any outcome is possible. `age` counts 0 (within the 70 minutes), 1 (past
them), 2 (a day later).

### LiveSession

State from the database: `live`, `sheet`, `rows` (participant rows in id order: owner, time,
active), `rec`, `count`. `job[t]` is a handler in flight with what it has loaded. `beats`,
`told`, `vouched`, `raced`, `late` record history for the properties only.

* `start_live_session` (`R/live_session.py:931-966`) is `StartChecks`, `SheetInserted` or
  `SheetConflicts` (first commit, `uq_attendance_session_subject_date_section`), `GoesLive`
  (second commit, which does not look at the status again).
* `join_live_session` (1253-1427) is `JoinChecks`, `JoinLooksUp`, and `Rejoins` or `Joins`.
* `heartbeat` (1481-1510) is `BeatReads`, `BeatCommits`; `leave_session` (1636-1666) is
  `LeaveReads`, `LeaveCommits`, `LeaveAnswers` (the expired row is read again for the answer).
* `end_live_session` (1009-1091) is `EndChecks`, `EndMarksLeft` (the query for active rows),
  `EndLoads` (all rows, the sheet and its records), and `EndCommits` or `EndConflicts`. A row
  loaded by the first query keeps the time loaded with it: the identity map does not
  refresh it.
* `Scan`, `Override`, `AutoExpire`, `Restart` are the rest of the system, one commit each;
  their steps are AttendanceSession's subject.

Scope: a class with a subject *and* a section, on one day. With a NULL among them the
unique constraint lets every start through (section 7). Guests have no records; the
teacher's own row is skipped by the end's filter; both are left out. A heartbeat is
one unit of time and `MinBeats` units are the minimum.

### OfflineQueue

`store` is the AsyncStorage value (retries per queued item) and survives the app. `sub` is
a screen's flow from its direct request to `addToQueue`; `sync` is the run of
`processQueue`, whose idle state is `_processing = false`. Every write of the queue is two
actions, the read and the write (`AddReads`/`AddWrites`, `ClearReads`/`ClearWrites`,
`RetryReads`/`RetryWrites`), because the code awaits between them. A request that gets
no answer, or a transient error (5xx, 429), may have been processed all the same (`SubmitUnanswered`, `SendFails`): handlers go on
after their commit. `Restart` is the app killed and opened again; `AddThrows`, `ClearThrows` and `RetryThrows` are storage
writes that fail. A `clearItem` that throws after a 2xx falls into the branch for requests without a
response, and the item is sent again. `lost` records each of these. The server is external: `Process` counts what it
processed. Left out: `_readQueue`, whose catch takes a read that fails for an empty queue.

### RefreshTokens, MobileSignIn, WebSignIn

`refresh` is the table in order of issue: the user, whether the row is live, and `login`, the number
of the first token of its chain. A rotation is two steps (`U/auth_utils.py:312-345`): the row is
read, then the new row and the revocation are committed, whatever became of the old row since.
Reuse of a revoked token revokes the user's rows (`Sweep`). A handler does not stop when its client does: a
rotation that had read its row when the client gave up (a time limit, a lost connection, the app killed, the
page loaded again: `GivenUp`) may be lost with the connection or stay in `late` until the server commits it
(`LateCommit`).

* `MobileSignIn`: `store` is SecureStore, `renewal` the shared `_refreshInFlight`, `signing` a `login()` on its way, `rq` the API
  calls and logouts. Every await between two changes of the store separates two actions: `SignIn(p, both)` (the
  server's answer to one of the three screens that log in, of which FaceSetup hands over no refresh token) is followed by
  `LoginSavesAccess`, `LoginSavesRefresh` and `LoginShows`, or by `LoginFails`; a renewal by `SaveAccess` and
  `SaveRefresh`. `RenewalFails` frees `_refreshInFlight` first (the `finally`), then each waiter runs
  `ClearsAccess` and `ClearsRefresh`, and enters the logout (`Leave`, `LogoutDeletes`, `LogoutShows`), which removes the access token
  only. A delete may fail and is swallowed. `Relaunch` is the process killed at any moment.
* `WebSignIn`: `cookie` belongs to the browser, `tab[t]` and `tabRenewal[t]` to a tab. `Used(t)` is the
  token the server will look at: the tab's bearer first, then the cookie. `WebLogin`, `/auth/me` (`ShowUser`; `MeFails`,
  which hides the user and keeps the bearer; `AskAgain`), the renewal, the logout (served, answered or lost) and `Reload`.
  Left out: a login form sent while the page's opening `/auth/me` or its renewal is unanswered, and the redirect to `/login`
  after a replay that is refused with 401 again.

Flags record, for the properties only, that something happened against which the code has no protection:

* `cut`: the refresh token of a renewal stayed stored. The process ended before the renewal's last write or delete, a call began
  another renewal between the `finally` and the delete, or the delete failed.
* `mixed`: a sign-in over what an earlier user left (a running call, a refresh token that FaceSetup does not replace), or one
  that stopped between its two writes over an older refresh token.
* `crossed`: two tabs in exchanges at once, or a login over a live cookie; `dropped`: an exchange lost; `strangers`:
  somebody signing in while another tab shows, or keeps the bearer of, somebody else.

### Approvals

`call[c]` is a request the server works on: it has read its row and found it pending (`LeaveReads`, `DisputeReads`), or has found
no pending dispute of the student (`FilingReads`), and commits later. Filing is a check and an insert without lock or
constraint, so a student may have two rows in `dispute`. `approve_leave` excuses an absent record in the same commit;
`resolve_dispute` counts (`DisputeCounts`) before its own change is flushed and writes the count only if it differs from the loaded one
(`had`). `overlap` records that two calls about one leave, or two recounts, ran at once. `Decision` reads the table as a
ledger in which one decision claims a leave.

### LiveFeed

`registry` is the dictionary of `session_manager`, `atServer` the sockets whose handler runs, `inbox` what
has been broadcast and not yet received. `SendPulse`, `Close` (by the teacher or by the timer; both claim
the row and broadcast) and `Respond` are the server's, `Receive`, `HideFires` (the 8 s timer of a pulse
that has closed) and the sockets the page's. `hiddenEarly` records that a timer of an older pulse hid a newer one.

### PhoneScan

`screen` and `qrScanned` are the wizard's state and latch, `photos`, `scans` and `alert` what is under
way. Closures of an older render keep their own view of the state, so an answer moves the
wizard from wherever it has got to. `astray` records that this, or a refusal that keeps the latch, happened.

### Screens and its tables

189 screens, pages and panels share few ways to behave. A table row says what a screen fetches (what
starts a fetch, what becomes of an overtaken answer, of the loading flag and of a failure), what it can send
(checks, effect on its rows, what a refusal does) and what its view lets the user do meanwhile; `ScreenParts`
lists the words. `Screens` is one fetch of one screen with one call that changes it, for every distinct
combination in the tables (`Modes`): a mutated row is a mutated screen. A fetch has a moment when the server
reads; answers arrive in any order or fail. On a page with an Apply button the user may choose a filter without a fetch
(`Pick`); the Retry button of an error view can run beside a pull (`raced` records that one of the two failed first); a path that
the server does not serve is `never`: the fetch or the call can only fail. What a promise is made for is named by screen
(`FilteredPages`, `SingleShots`, `DecisionQueues`, `RecoveringScreens`), because many screens promise less: a row that says
`show` shows an overtaken answer.

`Modes` is built screen by screen with `ModesOf`; the union of all screens is written once, in parentheses, because TLC
and the prover bind `UNION A \union B` differently.

## 3. Runs

| Run | Instance | Question | Distinct states |
|---|---|---|---|
| `scan` | 2 students, 2 requests, 2 tokens, GPS and BLE on | do concurrent scans use tokens once, keep evidence, count and release locks, and by how much is the face-attempt limit overrun? QR ledger refinement | 633 000 |
| `closing` | 1 student, 2 requests, 1 staff call, cleanup, expiry, a day passing | do close, override and expiry racing with scans keep successes and bound and repair the count? face ledger refinement | 1.1 million |
| `liveness` | 1 student, 2 requests, GPS with the snapshot lock | is every request answered; does a stale session close? | 247 000 |
| `queue` | a scan and a leave, 1 retry, 1 kill or failing write | is an item given up late, sent twice only with cause, accounted for, and does it leave? | 369 000 |
| `live` | 2 students, 2 threads, 2 rows, minimum 2 heartbeats, 1 outside step | is ended final, presence earned, attendance kept, nobody left out, the count reconciled? | 2.5 million |
| `clients` | see below | are tokens rotated without loss, calls made for the user shown, decisions kept, pulses shown, scans single, rows those selected and decided, errors those of the latest fetch? | 1.9 million |
| `override_lost` | 1 request, 1 override | violated: a scan in flight overwrites the teacher's decision | |
| `first_snapshot` | 2 requests | violated: two first scans both insert the GPS snapshot, one fails | |
| `qr_purged` | cleanup during the QR window | violated: a purged slot is accepted again | |
| `queue_lost` | 2 submissions, no kill, no failing write | violated: one saved item overwrites the other | |
| `live_ghost` | as `live` | violated: a participant is active in an ended class | |
| `scan_wizard` | 4 photos, 2 scans | violated: the wizard shows "submitting" with nothing under way | |

`clients` puts components that do not meet into one run: `focus` names the one that a behaviour
follows, the others keep their initial state. Composing them would multiply
states without adding a single interaction; where components do meet (a client and the token table, the
registry and the page) they are composed in one module. Its instance: 2 people, 2 requests, 2 tabs,
3 tokens; 2 students, 2 disputes, 2 calls in flight; 1 viewer, 3 sockets, 2 pulses, 2 messages waiting; 4 photos,
2 scans; 2 fetches and 2 calls of a screen. Symmetry is over tabs and people.

A behaviour is followed (`CONSTRAINT Followed`) until nothing is left to check of its client but the types: `cut` and
`mixed` both up on the phone, or `strangers` with `crossed` or `dropped` in the browser, or a screen without a loading flag
of which nothing is promised. The flags are never reset,
so every state beyond satisfies the properties by their hypotheses, and the types are proved. The approvals are followed
while one of the two students has applied for no leave: no property relates the leaves of two students, and both dispute.

What each property says stands above it in the module.

### Bounds, and why they are enough

Each race needs two actors and one object they share, so two requests (or threads, or
submissions) of one student, plus a second student where a property compares two,
show it. `closing` uses one student because its properties are per student or about
one count; `scan` uses two because tokens may be tried by someone else.
`MaxSlot = 1` gives a slot and its neighbour, so a code is accepted both in its own slot
and in the next one; `MaxVerify = 1` reaches the face-attempt limit. `MinBeats = 2` needs two heartbeats, so that one
lost or invented matters, and `MaxRows = 2` lets a student have two rows or two students
one each. `MaxRetries = 1` reaches both a retry and the last try. `MaxOutside = 1`,
`MaxMishaps = 1`: one scan, override, expiry, kill or failing write at any moment. In `clients`: `MaxRefresh = 3` is a login
and two rotations, or a second user's login between two of the first one's tokens; `MaxDisputes = 2` two rows, of one student or of both; `MaxLate = 1` one rotation that outlives its call; `MaxSockets = 3` lets a socket be
replaced twice, so that a late disconnect has both an older and a newer one to hit; `MaxPulses = 2` is a pulse
and the one its timer may hide, `MaxInbox = 2` a message that waits behind another;
`MaxPhotos = 4` is two rounds of a tapped and an automatic photo, `MaxScans = 2` a scan that would have to be
ignored; `MaxLoads = 2` and `MaxCalls = 2` are an answer and the one that overtakes it. Larger live instances
(one student with two outside steps, 7.6 million states; two students with one heartbeat) show no error either. The
theorems remove the bounds for the properties they cover.

`CHECK_DEADLOCK FALSE` stands where the system really stops: every request answered,
the class ended with no thread busy at a bound, a wizard or a screen at rest. Symmetry is over students, requests,
tokens, calls and threads, and never used with liveness.

### Fairness

* `AttendanceSession`: WF of each request's own steps (a worker runs its handler to an
  answer) and of the expiry job (APScheduler, each minute). No student, teacher, clock
  or crash is obliged to act: `StaleSessionCloses` starts from `age >= 1`.
* `OfflineQueue`: WF of the run in flight and of `addToQueue` (promises the app's event loop
  continues, unless storage throws: at most `MaxMishaps` times), WF of connectivity changing both ways, and SF of `online /\ SyncChecks`:
  connectivity lasts often enough for a started run to find it. This is an assumption
  on the environment: without it no queued item could be promised anything. That
  connectivity must also *go* is the code's: only a transition from offline starts a run.

## 4. What the checks show

* Tokens: a slot and a face token are each used once, by one request, under any
  interleaving; the face ledger survives the cleanup job, the QR ledger does not if
  the job falls within a slot's window (`qr_purged`).
* Scans: a `qr_scan` record always has a request with every server-side check behind it,
  and a student told "marked" stays present whatever closes the session. Face checks
  running side by side overrun the attempt limit by no more than their number.
* Counts: while the session is open the count is exactly the number of successful scans;
  closing never overstates it, and a close nobody raced repairs it.
* Locks: no error path or crash leaves the snapshot lock behind, and every request is answered.
* Live classes: an ended class stays ended under any number of starts and ends in flight;
  time is never invented; leaving and rejoining loses none; everyone who joined
  before the end began has a record.
* Tokens of the clients: the phone's shared renewal and its order of saves never present a revoked token
  and never hold two live ones, unless the refresh token of a renewal stays stored (a kill, a second renewal before the
  delete, a delete that fails); the browser's cookie is the one
  working token unless two tabs cross or an answer is lost. These exceptions happen (section 7).
* Users: calls carry the token of the user shown, unless one user signs in over another's running
  calls, left-over refresh token or open tab, or a sign-in stops between its two writes.
* Decisions: whatever races, a leave has a status that was answered and no record is excused without an approval; a leave is
  decided once and a recount misses one record at most, unless two decisions are made at once.
* Feed: no order of connects and disconnects registers a closed socket; a viewer with one whole socket
  sees the running pulse unless an older pulse's timer hides it.
* Wizard: one scan is submitted at a time, whatever timers and late answers do; every way to a scanner that
  ignores codes is known.
* Screens: on the pages that guard against it no answer shows under another filter; the forms listed are
  never sent twice at once; the queues listed show every decision; no screen spins for ever; where failures are recovered
  from, an error is the latest fetch's, unless a Retry failed under a pull that succeeded.
* Queue: duplicates and losses need an answer the app could not record (lost, an error after the commit, a kill or a failing
  write after the 2xx) or two interleaved storage writes; giving up takes every failed send.

## 5. Hazards

`PROJECT.json` lists each hazard at the line where it bites, with the properties that would
catch it. Those without a property say why: either the code itself has no guarantee there
(section 7) or what the model leaves out and why.

## 6. Proofs

Every proof is for all values of the constants under the ASSUME of the module
(finite sets of students and requests, natural bounds, a null value outside the sets).

**AttendanceSession_proofs.** `TInv` is the type invariant and what each program counter
implies about the request's fields; it is inductive alone (`TStep`) and gives `TypeCorrect`.
* `FaceInv`: the request that passed the face step on a token left it used or purged, under its
  owner. `FaceSingleUse` alone is not inductive: it does not say that a token already
  used cannot be consumed again. Gives `FaceTokensUsedOnce` and `FaceRefinement`.
* `QrInv`: a slot passed by a request is recorded as used. Preserved only without the
  cleanup job, so `QrSlotsUsedOnce` and `QrRefinement` carry the hypothesis
  `CleanupSlots = {}`; `qr_purged` shows that it is needed.
* `ChecksInv`: the checks passed are those the program counter implies. With `FaceInv` it gives
  `ScansHaveEvidence`; `SuccessStays`, `NoLostCount` (the
  increment in SQL meets no other writer of an open session's count) and
  `LockIsReleased` rest on it or on `TInv`.
* `AttemptsBounded` is inductive beside `TInv`: a check begins only below the limit, no more of them are pending than there
  are token rows, and a failed row replaces the pending check it comes from. Gives `LimitOverrunBounded`.

**LiveSession_proofs.** `TInv` is the types and `JobOK`: a job's program counter fixes which fields
are set and points to an existing row. Two lemmas describe every step once (`JobEffect`: what a
step does to a handler; `DataEffect`: what it does to rows, records and history), and each
invariant is proved from them instead of action by action.
* `Life`: what `live`, `sheet` and the jobs allow together (one start at most is past its first
  commit, and the class is then still waiting). Gives `EndedForGood`.
* `Earned`: a row's time, the time a heartbeat has read and the time an end has seen never exceed
  the heartbeats accepted for the row. Gives `PresenceIsEarned`.
* `Listed`: an end that has loaded has seen every row that is not late. Gives `EveryoneRecorded`.
* `Kept`: a student told "counted" has one row whose time stays at or above the minimum, in the
  table and in every copy a handler holds. Gives `ToldIsCounted`.

**OfflineQueue_proofs.** `TInv` adds that a run in hand has an item. `GInv`: every copy of the queue in
flight holds no more retries than sends failed, and an item whose `clearItem` may still throw one more; gives `GivenUpLate`. `CInv`: a submission
reaches a queue or a copy of one only after it was saved (`SavedFirst`); the run notifies only of what it did (`RunOK`);
and without racing writes what was processed and answered was processed once and is on its way out
(`OnceDone`), and what was saved is accounted for (`AllAccounted`). Gives `NothingTwice` and `NothingLost`.

**SignIn_proofs.** First the table: each change keeps its type, its rows and their users; issuing, and rotating a live
token, keep one live token per chain.
* `PhoneInv`: unless `mixed`, there is one person to whom the stored tokens, the calls and the renewal all
  belong. Who that is cannot be read off the state after a logout, so the invariant says only that he
  exists. While a login stores its tokens, `Joining` says which of the two keys are already the new user's and that no call and no
  renewal is about. Gives `PhoneCalls`.
* `ReuseInv`: unless `cut`, the token to be presented next is live, and so is the stored one (`StillHeld`) except between a
  rotation and its save, or between a failed renewal and its deletes, and the one a login has yet to store. A renewal in
  flight has a waiter (`Awaited`), who clears the store should it fail. What the server goes on to rotate for a call the phone gave up on is live and neither of the two
(the renewal has failed by then, and its waiters wipe the store). Gives `PhoneReuse`, the phone's half of `PhoneReuseExplained`.
* `BrowserInv`: the same idea for tabs, with what the guards imply for a tab (`TabShape`: a tab that renews has
  no bearer that is alive and shows somebody or is about to). Gives `TabCalls`.
* `LiveCookie`: one tab at a time is in an exchange, and the one live row is the cookie's, then the
  answer's, then the cookie's again. Gives `OneWorkingToken`, behind `BrowserHoldsTheLiveToken`.
* `PhoneChains` and `BrowserChains`: the refinement of `TokenChains`, under the hypotheses of the properties. Three lemmas
  map the table's changes (`IssueBegins`, `RotateRenews` for a live token that is its login's only one, `RevokeEnds`), every other
  step stutters; `ReuseInv` and `LiveCookie` say that nothing else is ever rotated. Without the hypotheses TLC finds
  a fork with four tokens on the phone and three in the browser.

**Approvals_proofs.** `AsAnswered`: a leave has the status of a decision that was answered, and an excused record an approval;
nothing else is needed for it. `DInv`: unless `overlap`, one decision of a leave is under way and the leave is pending until it
commits. `RecountInv`: nothing counted or loaded exceeds the records; unless `overlap` one dispute call is under way, what it has
loaded is the stored count and what it has counted is the records. Give `DecisionsStand` and `RecountLag`; the latter is a
cardinality argument (a resolved record adds at most one). `LeaveDecidedOnce` is the refinement of `SingleUse`: by `DInv` a
commit finds its leave still open, and no other step touches the claim. It needs `~overlap` (section 7).

**LiveFeed_proofs.** The registry is proved alone (`RegistryHolds`). `FInv`: pulses are in order, messages are in the order of their
broadcasts, the first socket of a viewer is registered while it is whole, and a running pulse is on screen or in the
inbox. Gives `RunningPulse`.

**Screens_proofs**, in two parts.
* `Screens`. What the tables say of the screens a promise names is proved from their rows first, one lemma per table
  (`Pledged`, `ShowsItsKey`, `StaysOpen`, `Recovers`, ...): a row that changed would break its lemma. From these facts
  `ScreenInv` is inductive: the types, `Spinning` (the flag is up only while a fetch is on its way), and one part per promise.
  `FilterInv`: the rows are of the selected key, and so is every answer that would still be shown. `OnceInv`: one call at
  most. `QueueInv`: a decision answered is in the rows, or a fetch that will have read it is on its way. `TruthInv`: an error is the
  latest fetch's unless `raced`, and screens without Retry never are. Give `ScreensTyped`, `FilteredRows`, `OneCreation`, `DecisionsReachTheRows` and `ScreensSettle`.
* `PhoneScan`. `Latched` (a scan under way holds the latch) gives `OneScan`; `InOrder` (unless `astray`, the liveness
  check is one thing at a time and the latch is up only with a scan under way) gives `DeadScanner`.

**Clients_proofs.** `ClientsInv` carries the invariants above to the composition that the run `clients` follows, one component
at a time on shared tables; gives the two properties that are stated of the composition and its types.

**Counts.** The properties that compare a counter with a set across several readers rest on cardinality invariants.
* `BoundInv` (AttendanceSession): no count, stored or in flight, exceeds the successful scans and the overrides to
  present. Gives `ClosesCreditNobody`. `LoadedInv`: while the session is open and no override ran, the count only grows and
  moves with every record, so a call that finds the count it loaded has counted exactly who is present. Gives
  `CloseRepairsTheCount`.
* `Rooted` and `OneEach` (LiveSession): every record and every copy an end holds comes from a row of its student, and a student
  has one row that counts. Give `EndCountsEachOnce`.

**Two properties were corrected by their proofs.** `CloseReconciles` and `EndReconciles` held in every run and were false:
the step from the invariant did not go through, and a search from the state where it stuck found behaviours
longer than the runs' bounds (section 7, counts). The first now says that the session was open when the close committed;
the second is about the commit itself and says that the sheet is still the one the end had loaded.

**Only model-checked.** Liveness (`EveryMarkAnswered`, `StaleSessionCloses`, `EveryItemLeaves`): TLAPS has no support for
fairness here.

## 7. Where the code departs from its own words

With a run:
* `R/attendance.py`, step 1c: "prevents a student from overwriting a teacher's manual override" — a
  scan that loaded the record before the override commits after it (`override_lost`).
* Step 5: the `with_for_update()` comment says concurrent scans do not both insert a snapshot; with no row
  there is nothing to lock (`first_snapshot`).
* `backend/main.py`, cleanup: a used QR row deleted within its window makes the slot valid again (`qr_purged`).
* `MO/utils/offlineQueue.js:5-7`: what is queued "is replayed automatically" (`queue_lost`).
* `R/live_session.py:1027`: "Mark all active participants as left" (`live_ghost`).
* `MO/screens/student/ScanQRScreen.js:5`: "submitting -> success | failed". The server's QR text is not JSON, so it is
  sent whole as `session_id` (577), refused with a list of errors, and `.toLowerCase()` on the list throws (651):
  neither is reached (`scan_wizard`).

Met while proving, without a run:
* Counts of a close (`R/attendance.py:1106-1142`): `c1` loads the count and counts the records, a scan and a second close commit
  so that the count is again what `c1` loaded, and `c1`'s count, which misses the scan, is written over it. It takes two
  closes and a session that is no longer open.
* Counts of a live class (`R/live_session.py:1009-1091`): with three overlapping ends, and heartbeats between their loads, an end
  commits records and a count of different moments: `present_count` and the records disagree in an ended class.

Met while reading, without a run:
* Audit rows of steps 2 and 3 are added and then rolled back by the return
  (`R/attendance.py:397-399` against 569 and 592); those of the later refusals are lost when the commit of `sec_logger.log`
  fails, which it swallows (`U/security_logger.py:116-140`).
* An override is recounted before it is flushed (1318-1327), so the count lags the record by it.
* The expiry job writes `expired` over a session ended between its read and its commit (1519-1521, 1558).
* The 24-hour override window never closes for an expired session: it has no `end_time` (1288-1296).
* A student of the course in another section has no record and is inserted as present (848).
* Parallel face checks exceed the attempt limit (`R/face.py:55`, 108-201): each counts before
  any has failed.
* Queue: a 2xx answer with `success: false` counts as synced (205); `clearQueue` and `syncNow`
  have no caller; a storage read error is an empty queue; the body holds the face token
  although the header says never to store tokens (15); `ScanQRScreen.js:623` takes a timeout for
  a request that never arrived.
* Live: `frontend/src/pages/live/StudentLiveSession.jsx:316` posts a heartbeat without the `participant_id` that
  `HeartbeatReq` requires, so it is refused (422); a crash between the two commits of a start
  leaves a class that cannot start that day; without a section or a subject the constraint
  does not serialise starts, and a slow one can reopen an ended class; "attendance_counted: true" of a leave can be undone
  by racing heartbeats, by a second participant row, or by an override; the end overwrites an
  override recorded before it; `present_count` counts rows, so a student with two counts twice;
  liveness checks do not influence attendance.
* Tokens: two refreshes of one token both pass (`U/auth_utils.py:312-345`), and two tabs make them; the mobile
  logout neither removes the refresh token nor tells the server (`R/auth.py:811-815` expects it to); a renewal that
  ends after a logout stores tokens that a relaunch accepts; FaceSetup leaves an older user's refresh token; a login
  killed between its two writes (`MO/context/AuthContext.js:105-112`) does too; a second 401 between the `finally` and the deletes of a
  failed renewal presents its token again (`MO/api/client.js:192-194`, 40-47); a failing `/auth/me` leaves the bearer of a user who
  is not shown (`W/context/AuthContext.jsx:57-60`); the web
  TOTP step posts `code` where the server requires `totp_code` (`W/pages/auth/LoginPage.jsx:294-297`).
* Disputes: the comment in `resolve_dispute` says the count is recalculated; it misses the record being
  resolved (`R/student_portal.py:674-680`). Two decisions of one leave can both be answered with success (`R/leave.py:394`). Two filings
  in flight leave a student two pending disputes of one session (`R/student_portal.py:501-520`).
* Feed: the late disconnect of a replaced socket removes the new one's entry (`U/session_manager.py:54-58`); a
  page whose socket was cut does not reconnect (`W/pages/live/StudentLiveSession.jsx:292-295`) and an old socket's `onclose`
  clears the reference to the new one; the 8 s timer of a closed pulse hides the next; an answer is posted to
  a path the server lacks (`/live/pulse/{id}/respond`); the older pulse's distribution is changed in place, which
  the ORM does not notice (`R/live_session.py:2162`).
* Wizard: any 2xx is a success, although the server refuses with 200 and `success: false`; Try Again can lead to a scanner
  that ignores every code; a tap and the timer can send two photos.
* Screens: `QRGenerateScreen` shows `qr_token` where the server returns `qr_data`; `AttendanceManageScreen` (82-97) shows session A's
  late list under session B and posts overrides for B; `GenerateQRPage` (444-457) and `TeacherLiveDashboard` show "ended" after a
  failed end; the leave a student queues offline loses its uploaded document (`W/pages/student/StudentDashboard.jsx:989-996`);
  most pages with tabs or filters show an overtaken answer, and several keep an error although the latest answer succeeded;
  `CollegeReportsPage` (108-141) and `PrincipalAuditPage` (84-116) show the old filter's rows under a newly chosen one until Apply;
  `TeacherDisputesScreen` (59) posts an id its rows do not have with an action the server refuses, and `TeacherDisputesPage` (132) never
  renders its Review button, since the rows carry no status.
* Paths and bodies the server does not serve (`never` in the tables): the fetches of `StudentDashboardScreen`, `AttendanceHistoryScreen`,
  `ClassPulseHomeScreen`, `PrincipalDashboardScreen` (and its alert), `QRGenerateScreen`'s subjects, `SubmitTab`'s subjects, `DoubtWall` and
  `TeacherPreClassBrief`; the calls of `PendingApprovalsScreen`, `StrugglingStudentsPanel`, `TeacherEngagementTracker`, and the doubts, pulse
  answer, liveness and leave of `StudentLiveSession`.

## 8. Not modelled

Outside services (recognition, push, SMS, mail, AI, Agora) appear as verdicts or not at all. Read-only
endpoints, reports, single-row administration, content features and rendering keep no state
that several steps could bring out of line. Distances and percentages are floating point. Migrations,
the tenant and soft-delete columns and role checks are left out: they filter rows and change none.

* `start_session` is a check and an insert: with a section the unique constraint decides, without one nothing does
  (a hazard without a property); a model would restate the constraint.
* The older `pulse_checks` protocol, breakout rooms, observations, challenges and chat of a live class.
* Ward meetings and ClassPulse on the server: single rows behind unique constraints; their screens are in the tables.
* The web offline queue: the mobile engine over synchronous storage. Its pages are in the tables.
* Of a screen: two fetches at once of different feeds, navigation between screens, forms and layout. The tables' rows
  describe a fetch or call by class, so what one screen does with the fields of an answer is not told.

Every component and its status is in `PROJECT.json`.

## 9. Plan

Done, in this order: `AttendanceSession` with `SingleUse`, `OfflineQueue`, `LiveSession`; `RefreshTokens` with its two clients,
`Approvals`, `LiveFeed`, `PhoneScan`, `Screens` with the tables; proofs of every safety property of every run, and of the
abstract ledger and chains they implement.

Left, most important first:
1. A presence ledger that `LiveSession` implements, and a store of items that `OfflineQueue` implements.
2. The lockout counters and OTP rows of login under parallel attempts; the quiz attempt limit of ClassPulse.
3. The older live protocol: `pulse_checks`, challenges and breakout rooms.
4. Pure algorithms against reference definitions: the forecast of classes needed, lockout steps, leave
   days to records.

----------------------------- MODULE PhoneScan -----------------------------
(***************************************************************************)
(* The attendance wizard of the student app, ScanQRScreen: photo of the    *)
(* face, liveness frames, QR code, biometric prompt and the call that      *)
(* marks the attendance.  Every answer moves the wizard wherever it is.    *)
(***************************************************************************)
EXTENDS Integers, FiniteSets

CONSTANTS
  MaxPhotos,   \* bound: photos sent for verification
  MaxScans     \* bound: QR codes acted upon

ASSUME ScanAssumption == MaxPhotos \in Nat /\ MaxScans \in Nat

VARIABLES
  screen,      \* the wizard's state
  reason,      \* failureData.type
  qrScanned,   \* the scanner takes no further code
  capturing,   \* faceCapturing
  shutter,     \* the 3 s auto-capture: "off", or what it remembers of faceCapturing
  photos,      \* photos sent so far
  verifying,   \* calls of /face/verify on the way
  collecting,  \* the liveness frames are being taken
  checking,    \* liveness checks on the way
  alert,       \* the "Try Again" alert is up
  scans,       \* submissions going on: number, what the code holds and the step
  scanned,     \* codes acted upon so far
  astray       \* the wizard was moved by a way that keeps qrScanned: see the property

scanVars == <<screen, reason, qrScanned, capturing, shutter, photos, verifying,
              collecting, checking, alert, scans, scanned, astray>>
photoVars == <<capturing, photos, verifying>>
frameVars == <<collecting, checking, alert>>
codeVars == <<qrScanned, scans, scanned>>

WizardStates == {"idle", "face_verify", "liveness_check", "qr_scan", "submitting",
                 "success", "failed"}

\* What a code holds: the server's text "session:slot:hmac", or JSON with a session_id.
Codes == {"text", "json"}

\* What the wording of a refused call is taken for.
Refusals == {"qr_expired", "face_not_matched", "already_marked", "unknown"}

\* The reasons whose result screen offers Try Again, and those that reset the scanner.
Retryable == {"qr_expired", "face_not_matched", "unknown", "biometric_failed"}
Rescans == {"qr_expired", "biometric_failed"}

\* Types of the variables.
ScanTypeOK ==
  /\ screen \in WizardStates
  /\ reason \in Refusals \union Rescans \union {"none", "no_biometric_hardware", "offline_queued"}
  /\ qrScanned \in BOOLEAN /\ capturing \in BOOLEAN
  /\ shutter \in {"off", "free", "busy"}
  /\ photos \in 0..MaxPhotos /\ verifying \in 0..photos
  /\ collecting \in BOOLEAN /\ checking \in Nat /\ alert \in BOOLEAN
  /\ scans \in SUBSET [id : 0..MaxScans, code : Codes, step : {"biometric", "sending"}]
  /\ scanned \in 0..MaxScans
  /\ astray \in BOOLEAN

ScanInit ==
  /\ screen = "idle" /\ reason = "none"
  /\ qrScanned = FALSE
  /\ capturing = FALSE /\ shutter = "off"
  /\ photos = 0 /\ verifying = 0
  /\ collecting = FALSE /\ checking = 0 /\ alert = FALSE
  /\ scans = {} /\ scanned = 0
  /\ astray = FALSE

\* Showing a state; the face state arms the auto-capture when it is entered,
\* with the faceCapturing of that moment.
GoTo(s, busy) ==
  /\ screen' = s
  /\ shutter' = IF s # "face_verify" THEN "off"
                ELSE IF screen = s THEN shutter
                ELSE IF busy THEN "busy" ELSE "free"

StartAttendance ==
  /\ screen = "idle"
  /\ qrScanned' = FALSE
  /\ GoTo("face_verify", capturing)
  /\ UNCHANGED <<reason, photoVars, frameVars, scans, scanned, astray>>

SendPhoto ==
  /\ photos < MaxPhotos
  /\ photos' = photos + 1
  /\ verifying' = verifying + 1
  /\ capturing' = TRUE

\* The [Capture] tap is offered while no photo is being verified.
TapCapture ==
  /\ screen = "face_verify" /\ ~capturing
  /\ SendPhoto
  /\ UNCHANGED <<screen, reason, shutter, frameVars, codeVars, astray>>

\* The timer calls the captureFace of the render that armed it.
AutoCapture ==
  /\ shutter # "off"
  /\ shutter' = "off"
  /\ IF shutter = "free" THEN SendPhoto ELSE UNCHANGED photoVars
  /\ UNCHANGED <<screen, reason, frameVars, codeVars, astray>>

FaceAnswered ==
  /\ verifying > 0
  /\ verifying' = verifying - 1
  /\ capturing' = FALSE
  /\ astray' = (astray \/ screen # "face_verify")
  /\ UNCHANGED <<photos, checking, alert, codeVars>>

FaceMatched ==
  /\ FaceAnswered
  /\ GoTo("liveness_check", FALSE)
  /\ collecting' = TRUE
  /\ UNCHANGED reason

FaceRefused ==
  /\ FaceAnswered
  /\ reason' = "face_not_matched"
  /\ GoTo("failed", FALSE)
  /\ UNCHANGED collecting

FaceUnclear ==
  /\ FaceAnswered
  /\ GoTo("face_verify", FALSE)
  /\ UNCHANGED <<collecting, reason>>

\* The camera fails, or the refusal is no text: the wizard stays where it is.
PhotoFails ==
  /\ FaceAnswered
  /\ UNCHANGED <<screen, shutter, collecting, reason>>

\* Three frames need the front camera, which two of the states show.
FramesTaken ==
  /\ collecting
  /\ collecting' = FALSE
  /\ \/ screen \in {"face_verify", "liveness_check"} /\ checking' = checking + 1 /\ UNCHANGED alert
     \/ alert' = TRUE /\ UNCHANGED checking
  /\ UNCHANGED <<screen, reason, shutter, photoVars, codeVars, astray>>

LivenessConfirmed ==
  /\ checking > 0
  /\ checking' = checking - 1
  /\ GoTo("qr_scan", FALSE)
  /\ astray' = (astray \/ screen # "liveness_check")
  /\ UNCHANGED <<reason, photoVars, collecting, alert, codeVars>>

LivenessFails ==
  /\ checking > 0
  /\ checking' = checking - 1
  /\ alert' = TRUE
  /\ UNCHANGED <<screen, reason, shutter, photoVars, collecting, codeVars, astray>>

CloseAlert ==
  /\ alert
  /\ alert' = FALSE
  /\ GoTo("face_verify", capturing)
  /\ astray' = (astray \/ scans # {})
  /\ UNCHANGED <<reason, photoVars, collecting, checking, codeVars>>

\* The 45 seconds of the face token are over, be it during the biometric prompt.
FaceTokenEnds ==
  /\ screen = "qr_scan"
  /\ GoTo("face_verify", capturing)
  /\ astray' = (astray \/ scans # {})
  /\ UNCHANGED <<reason, photoVars, frameVars, codeVars>>

\* Mutant of Scan: the scanner goes on reading codes.
ScanUnlatched(code) ==
  /\ screen = "qr_scan" /\ ~qrScanned
  /\ scanned < MaxScans
  /\ scanned' = scanned + 1
  /\ scans' = scans \union {[id |-> scanned, code |-> code, step |-> "biometric"]}
  /\ UNCHANGED <<screen, reason, shutter, qrScanned, photoVars, frameVars, astray>>

Scan(code) ==
  /\ screen = "qr_scan" /\ ~qrScanned
  /\ scanned < MaxScans
  /\ scanned' = scanned + 1
  /\ qrScanned' = TRUE
  /\ scans' = scans \union {[id |-> scanned, code |-> code, step |-> "biometric"]}
  /\ UNCHANGED <<screen, reason, shutter, photoVars, frameVars, astray>>

Fail(s, why) ==
  /\ scans' = scans \ {s}
  /\ reason' = why
  /\ GoTo("failed", FALSE)
  /\ UNCHANGED <<photoVars, frameVars, scanned, astray>>

BiometricFails(s) ==
  /\ s.step = "biometric"
  /\ qrScanned' = FALSE
  /\ \E why \in {"biometric_failed", "no_biometric_hardware"} : Fail(s, why)

BiometricPassed(s) ==
  /\ s.step = "biometric"
  /\ scans' = (scans \ {s}) \union {[s EXCEPT !.step = "sending"]}
  /\ GoTo("submitting", FALSE)
  /\ UNCHANGED <<reason, qrScanned, scanned, photoVars, frameVars, astray>>

\* JSON.parse of the server's text throws, the whole text goes as session_id, and
\* the server refuses it with a list of errors, on which toLowerCase throws.
MarkUnreadable(s) ==
  /\ s.step = "sending" /\ s.code = "text"
  /\ scans' = scans \ {s}
  /\ UNCHANGED <<screen, reason, shutter, qrScanned, scanned, photoVars, frameVars, astray>>

\* Any 2xx is a success, also one that says success = false.
MarkAnswered(s) ==
  /\ s.step = "sending" /\ s.code = "json"
  /\ scans' = scans \ {s}
  /\ GoTo("success", FALSE)
  /\ UNCHANGED <<reason, qrScanned, scanned, photoVars, frameVars, astray>>

MarkRefused(s) ==
  /\ s.step = "sending"
  /\ UNCHANGED qrScanned
  /\ \E why \in Refusals : Fail(s, why)

MarkQueued(s) ==
  /\ s.step = "sending"
  /\ UNCHANGED qrScanned
  /\ Fail(s, "offline_queued")

\* Mutant of TryAgain: back to the scanner without resetting it.
TryAgainLatched ==
  /\ screen = "failed" /\ reason \in Retryable
  /\ IF reason \in Rescans
     THEN UNCHANGED qrScanned /\ GoTo("qr_scan", FALSE) /\ UNCHANGED astray
     ELSE GoTo("face_verify", capturing) /\ UNCHANGED qrScanned /\ astray' = TRUE
  /\ UNCHANGED <<reason, photoVars, frameVars, scans, scanned>>

TryAgain ==
  /\ screen = "failed" /\ reason \in Retryable
  /\ IF reason \in Rescans
     THEN qrScanned' = FALSE /\ GoTo("qr_scan", FALSE) /\ UNCHANGED astray
     ELSE GoTo("face_verify", capturing) /\ UNCHANGED qrScanned /\ astray' = TRUE
  /\ UNCHANGED <<reason, photoVars, frameVars, scans, scanned>>

ScanStep ==
  \/ StartAttendance \/ TapCapture \/ AutoCapture
  \/ FaceMatched \/ FaceRefused \/ FaceUnclear \/ PhotoFails
  \/ FramesTaken \/ LivenessConfirmed \/ LivenessFails \/ CloseAlert \/ FaceTokenEnds
  \/ \E code \in Codes : Scan(code)
  \/ \E s \in scans : \/ BiometricFails(s) \/ BiometricPassed(s) \/ MarkUnreadable(s)
                      \/ MarkAnswered(s) \/ MarkRefused(s) \/ MarkQueued(s)
  \/ TryAgain

ScanSpec == ScanInit /\ [][ScanStep]_scanVars

-----------------------------------------------------------------------------
\* One code is acted upon at a time, whatever alerts, timers and late answers do
\* to the wizard in the meantime.
OneScanAtATime == Cardinality(scans) <= 1

\* A scanner that ignores every code is reached only after Try Again from a
\* refusal that keeps qrScanned, after a face or liveness answer that found the
\* wizard elsewhere, or after the face token ended during a submission.
DeadScannerExplained ==
  screen = "qr_scan" /\ qrScanned /\ scans = {} => astray

\* The header of ScanQRScreen: submitting leads to success or failed, so while
\* it shows, a submission is going on.
SubmissionShown == screen = "submitting" => scans # {}
=============================================================================

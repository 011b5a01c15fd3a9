--------------------------- MODULE MobileSignIn ---------------------------
(***************************************************************************)
(* Signing in on the phone: AuthContext.js, the two interceptors of        *)
(* client.js and the login screens.  SecureStore keeps an access and a     *)
(* refresh token under two keys and survives the process; the shown user,  *)
(* the login under way, the calls and the one shared renewal do not.       *)
(* Every await between two changes of the store separates two actions; a   *)
(* write that throws ends what it belongs to, a delete that throws is      *)
(* swallowed.                                                              *)
(***************************************************************************)
EXTENDS RefreshTokens

CONSTANT
  Requests       \* API calls and logouts in flight at once

VARIABLES
  store,         \* [acc, ref]: the two SecureStore keys
  shown,         \* AuthContext's user
  signing,       \* login(): [st, user, tok], what it has yet to store and show
  rq,            \* per call or logout: [st, acc], the access token it was sent with
  renewal,       \* _refreshInFlight: [st, tok, by]; by = the user of the answer
  cut,           \* a token outlived its renewal: see below
  mixed          \* a sign-in met what an earlier user left behind, or stopped halfway

mobileVars == <<store, shown, signing, rq, renewal, cut, mixed>>

Access == [user : People, fresh : BOOLEAN]
NoAccess == [user |-> NoOne, fresh |-> FALSE]
IdleSigning == [st |-> "idle", user |-> NoOne, tok |-> NoToken]
IdleRequest == [st |-> "idle", acc |-> NoAccess]
IdleRenewal == [st |-> "idle", tok |-> NoToken, by |-> NoOne]

\* After a failed renewal a call clears the access key, wipes the refresh key
\* and enters logout, which deletes the access key (again) and shows nobody.
CallStates == {"idle", "sent", "waiting", "replayed", "clearing", "wiping", "leaving", "left"}

\* Types of the phone's variables.
MobileTypeOK ==
  /\ store \in [acc : Access \union {NoAccess}, ref : TokenIds]
  /\ shown \in People \union {NoOne}
  /\ signing \in [st : {"idle", "served", "saved", "stored"},
                  user : People \union {NoOne}, tok : TokenIds]
  /\ rq \in [Requests -> [st : CallStates, acc : Access \union {NoAccess}]]
  /\ renewal \in [st : {"idle", "asked", "read", "granted", "halfsaved", "failed"},
                   tok : TokenIds, by : People \union {NoOne}]
  /\ cut \in BOOLEAN /\ mixed \in BOOLEAN

MobileInit ==
  /\ store = [acc |-> NoAccess, ref |-> NoToken]
  /\ shown = NoOne
  /\ signing = IdleSigning
  /\ rq = [r \in Requests |-> IdleRequest]
  /\ renewal = IdleRenewal
  /\ cut = FALSE
  /\ mixed = FALSE

Forget(a) == [a EXCEPT !.acc = NoAccess]
Expired(a) == a \in Access /\ ~a.fresh
Running == renewal.st # "idle"

\* A renewal is over, and the refresh token it failed with is not deleted yet.
Clearing == \E r \in Requests : rq[r].st \in {"clearing", "wiping"}

-----------------------------------------------------------------------------
(* login() and logout() *)

\* LoginScreen and TOTPScreen hand over both tokens; FaceSetupScreen only the
\* temporary access token, so an older refresh token stays where it was.
SignIn(p, both) ==
  /\ shown = NoOne /\ signing.st = "idle"
  /\ MayIssue
  /\ Issue(p)
  /\ signing' = [st |-> "served", user |-> p, tok |-> IF both THEN NextId ELSE NoToken]
  /\ mixed' = \/ mixed
              \/ Running
              \/ \E r \in Requests : rq[r].st # "idle"
              \/ ~both /\ store.ref # NoToken
  /\ UNCHANGED <<swept, late, store, shown, rq, renewal, cut>>

\* Mutant of LoginSavesAccess: a stored access token that is alive is not replaced.
LoginKeepsAccess ==
  /\ signing.st = "served"
  /\ store' = [store EXCEPT !.acc = IF @.fresh THEN @ ELSE [user |-> signing.user, fresh |-> TRUE]]
  /\ signing' = [signing EXCEPT !.st = "saved"]
  /\ UNCHANGED <<tokenVars, shown, rq, renewal, cut, mixed>>

LoginSavesAccess ==
  /\ signing.st = "served"
  /\ store' = [store EXCEPT !.acc = [user |-> signing.user, fresh |-> TRUE]]
  /\ signing' = [signing EXCEPT !.st = "saved"]
  /\ UNCHANGED <<tokenVars, shown, rq, renewal, cut, mixed>>

LoginSavesRefresh ==
  /\ signing.st = "saved"
  /\ store' = [store EXCEPT !.ref = IF signing.tok = NoToken THEN @ ELSE signing.tok]
  /\ signing' = [signing EXCEPT !.st = "stored"]
  /\ UNCHANGED <<tokenVars, shown, rq, renewal, cut, mixed>>

LoginShows ==
  /\ signing.st = "stored"
  /\ shown' = signing.user
  /\ signing' = IdleSigning
  /\ UNCHANGED <<tokenVars, store, rq, renewal, cut, mixed>>

\* The new access token is stored next to an older refresh token.
HalfSignedIn == signing.st = "saved" /\ store.ref # NoToken

\* SecureStore throws at one of the two writes: the login screen shows an error.
LoginFails ==
  /\ signing.st \in {"served", "saved"}
  /\ signing' = IdleSigning
  /\ mixed' = (mixed \/ HalfSignedIn)
  /\ UNCHANGED <<tokenVars, store, shown, rq, renewal, cut>>

\* logout begins: the user asks for it, or a stored token is found dead by the
\* check on return to the foreground or by the request interceptor, which
\* deletes it itself and asks for no new one.  The server is never told.
Leave(r) ==
  /\ rq[r].st = "idle"
  /\ shown # NoOne \/ Expired(store.acc)
  /\ rq' = [rq EXCEPT ![r].st = "leaving"]
  /\ \/ store' = store
     \/ Expired(store.acc) /\ store' = Forget(store)
  /\ UNCHANGED <<tokenVars, shown, signing, renewal, cut, mixed>>

\* Each of these deletes may throw and leave the key as it was.
LogoutDeletes(r) ==
  /\ rq[r].st = "leaving"
  /\ store' \in {store, Forget(store)}
  /\ rq' = [rq EXCEPT ![r].st = "left"]
  /\ UNCHANGED <<tokenVars, shown, signing, renewal, cut, mixed>>

LogoutShows(r) ==
  /\ rq[r].st = "left"
  /\ shown' = NoOne
  /\ rq' = [rq EXCEPT ![r] = IdleRequest]
  /\ UNCHANGED <<tokenVars, store, signing, renewal, cut, mixed>>

-----------------------------------------------------------------------------
(* The calls *)

\* Time passes: every access token issued so far is past its exp.
MobileExpire ==
  /\ store.acc.fresh \/ \E r \in Requests : rq[r].acc.fresh
  /\ store' = [store EXCEPT !.acc.fresh = FALSE]
  /\ rq' = [r \in Requests |-> [rq[r] EXCEPT !.acc.fresh = FALSE]]
  /\ UNCHANGED <<tokenVars, shown, signing, renewal, cut, mixed>>

\* The request interceptor attaches a token that is alive, or none when none
\* is stored.
Send(r) ==
  /\ shown # NoOne
  /\ rq[r].st = "idle"
  /\ ~Expired(store.acc)
  /\ rq' = [rq EXCEPT ![r] = [st |-> "sent", acc |-> store.acc]]
  /\ UNCHANGED <<tokenVars, store, shown, signing, renewal, cut, mixed>>

\* Any answer but 401, or none.
Answered(r) ==
  /\ rq[r].st \in {"sent", "replayed"}
  /\ rq' = [rq EXCEPT ![r] = IdleRequest]
  /\ UNCHANGED <<tokenVars, store, shown, signing, renewal, cut, mixed>>

\* Mutant of Waits: no shared _refreshInFlight, every 401 posts a renewal.
WaitsAlone(r) ==
  /\ rq[r].st = "sent"
  /\ ~rq[r].acc.fresh
  /\ rq' = [rq EXCEPT ![r] = [IdleRequest EXCEPT !.st = "waiting"]]
  /\ renewal' = [st |-> IF store.ref = NoToken THEN "failed" ELSE "asked",
                 tok |-> store.ref, by |-> NoOne]
  /\ cut' = (cut \/ (Clearing /\ store.ref # NoToken))
  /\ UNCHANGED <<tokenVars, store, shown, signing, mixed>>

\* 401: the first waiter starts the renewal, later ones join it.  One that
\* starts before the token of the last is deleted presents that token again.
Waits(r) ==
  /\ rq[r].st = "sent"
  /\ ~rq[r].acc.fresh
  /\ rq' = [rq EXCEPT ![r] = [IdleRequest EXCEPT !.st = "waiting"]]
  /\ renewal' = IF Running THEN renewal
                ELSE [st |-> IF store.ref = NoToken THEN "failed" ELSE "asked",
                      tok |-> store.ref, by |-> NoOne]
  /\ cut' = (cut \/ (~Running /\ Clearing /\ store.ref # NoToken))
  /\ UNCHANGED <<tokenVars, store, shown, signing, mixed>>

\* A replay that is refused again gives up without another renewal.
GivesUp(r) ==
  /\ rq[r].st = "replayed"
  /\ ~rq[r].acc.fresh
  /\ rq' = [rq EXCEPT ![r] = [IdleRequest EXCEPT !.st = "clearing"]]
  /\ UNCHANGED <<tokenVars, store, shown, signing, renewal, cut, mixed>>

\* clearAuthTokens, one key after the other; logout follows.
ClearsAccess(r) ==
  /\ rq[r].st = "clearing"
  /\ store' \in {store, Forget(store)}
  /\ rq' = [rq EXCEPT ![r].st = "wiping"]
  /\ UNCHANGED <<tokenVars, shown, signing, renewal, cut, mixed>>

ClearsRefresh(r) ==
  /\ rq[r].st = "wiping"
  /\ \/ store' = [store EXCEPT !.ref = NoToken] /\ UNCHANGED cut
     \/ store.ref # NoToken /\ cut' = TRUE /\ UNCHANGED store
  /\ rq' = [rq EXCEPT ![r].st = "leaving"]
  /\ UNCHANGED <<tokenVars, shown, signing, renewal, mixed>>

-----------------------------------------------------------------------------
(* The renewal *)

\* POST /auth/refresh on the server: read the row, then commit.
RenewalRead ==
  /\ renewal.st = "asked"
  /\ IF Reused(renewal.tok)
       THEN /\ Sweep(renewal.tok)
            /\ renewal' = [renewal EXCEPT !.st = "failed"]
            /\ UNCHANGED late
       ELSE /\ renewal' = [renewal EXCEPT !.st = "read"]
            /\ UNCHANGED tokenVars
  /\ UNCHANGED <<store, shown, signing, rq, cut, mixed>>

RenewalCommit ==
  /\ renewal.st = "read"
  /\ MayIssue
  /\ Rotate(renewal.tok)
  /\ renewal' = [st |-> "granted", tok |-> NextId, by |-> refresh[renewal.tok].user]
  /\ UNCHANGED <<swept, late, store, shown, signing, rq, cut, mixed>>

\* The call runs into its time limit, or the network fails it, before or after the
\* server worked on it; the server refuses an expired token or an inactive user; or
\* a write of saveAuthTokens throws.
RenewalLost ==
  /\ renewal.st \in {"asked", "read", "granted", "halfsaved"}
  /\ renewal' = [renewal EXCEPT !.st = "failed"]
  /\ GivenUp(renewal)
  /\ UNCHANGED <<refresh, swept, store, shown, signing, rq, cut, mixed>>

\* saveAuthTokens writes the two keys one after the other.
SaveAccess ==
  /\ renewal.st = "granted"
  /\ store' = [store EXCEPT !.acc = [user |-> renewal.by, fresh |-> TRUE]]
  /\ renewal' = [renewal EXCEPT !.st = "halfsaved"]
  /\ UNCHANGED <<tokenVars, shown, signing, rq, cut, mixed>>

\* What a waiter does when the renewal is over: it is replayed with the stored
\* token, with the new one if none is stored, and not at all if the stored one
\* is dead by now.
Replayed(c) ==
  IF c.st # "waiting" THEN c
  ELSE IF Expired(store.acc) THEN [IdleRequest EXCEPT !.st = "leaving"]
  ELSE [st |-> "replayed", acc |-> IF store.acc.fresh THEN store.acc
                                   ELSE [user |-> renewal.by, fresh |-> TRUE]]

\* Mutant of SaveRefresh: the key of the refresh token gets the user's id.
SaveRefreshSwapped ==
  /\ renewal.st = "halfsaved"
  /\ store' = [store EXCEPT !.ref = renewal.by]
  /\ rq' = [r \in Requests |-> Replayed(rq[r])]
  /\ renewal' = IdleRenewal
  /\ UNCHANGED <<tokenVars, shown, signing, cut, mixed>>

SaveRefresh ==
  /\ renewal.st = "halfsaved"
  /\ store' = [store EXCEPT !.ref = renewal.tok]
  /\ rq' = [r \in Requests |-> Replayed(rq[r])]
  /\ renewal' = IdleRenewal
  /\ UNCHANGED <<tokenVars, shown, signing, cut, mixed>>

\* finally: _refreshInFlight is free again before any waiter has cleared a key.
RenewalFails ==
  /\ renewal.st = "failed"
  /\ rq' = [r \in Requests |-> IF rq[r].st = "waiting"
                                 THEN [IdleRequest EXCEPT !.st = "clearing"] ELSE rq[r]]
  /\ renewal' = IdleRenewal
  /\ UNCHANGED <<tokenVars, store, shown, signing, cut, mixed>>

\* The app is killed and launched again: the stored access token is accepted
\* while it is alive and deleted otherwise.
Relaunch ==
  /\ IF store.acc.fresh THEN store' = store ELSE store' \in {store, Forget(store)}
  /\ shown' = IF store.acc.fresh THEN store.acc.user ELSE NoOne
  /\ signing' = IdleSigning
  /\ rq' = [r \in Requests |-> IdleRequest]
  /\ renewal' = IdleRenewal
  /\ cut' = (cut \/ Running \/ Clearing)
  /\ mixed' = (mixed \/ HalfSignedIn)
  /\ GivenUp(renewal)
  /\ UNCHANGED <<refresh, swept>>

MobileNext ==
  \/ \E p \in People, both \in BOOLEAN : SignIn(p, both)
  \/ LoginSavesAccess \/ LoginSavesRefresh \/ LoginShows \/ LoginFails
  \/ MobileExpire \/ Relaunch
  \/ \E r \in Requests :
       \/ Leave(r) \/ LogoutDeletes(r) \/ LogoutShows(r)
       \/ Send(r) \/ Answered(r) \/ Waits(r) \/ GivesUp(r)
       \/ ClearsAccess(r) \/ ClearsRefresh(r)
  \/ RenewalRead \/ RenewalCommit \/ RenewalLost
  \/ SaveAccess \/ SaveRefresh \/ RenewalFails
  \/ (\E t \in Tokens : LateCommit(t)) /\ UNCHANGED mobileVars

-----------------------------------------------------------------------------
\* A phone never trips the server's reuse detection, nor holds two working
\* tokens of one login, unless the token of a renewal stayed stored: the
\* process ended before the renewal's last write or delete, a call of another
\* screen began a renewal before that delete, or the delete failed.  The
\* shared _refreshInFlight and the order of the saves are what keeps it so.
MobileReuseExplained == swept \/ Forked => cut

\* The calls made under a user's name carry that user's token, or none, unless
\* he signed in over an earlier user's running calls or left-over refresh
\* token, or a sign-in stopped between the writes of its two tokens.
CallsAreTheUsers ==
  shown # NoOne /\ ~mixed =>
    /\ store.acc.user \in {shown, NoOne}
    /\ \A r \in Requests :
         rq[r].st \in {"sent", "replayed"} => rq[r].acc.user \in {shown, NoOne}

MobileSpec == TokensInit /\ MobileInit /\ [][MobileNext]_<<tokenVars, mobileVars>>
=============================================================================

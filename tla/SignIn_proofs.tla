---------------------------- MODULE SignIn_proofs ----------------------------
(***************************************************************************)
(* Proofs about MobileSignIn and WebSignIn: whose token a client's calls   *)
(* carry, and which tokens still work, for any people, requests, tabs and  *)
(* number of issued tokens.                                                *)
(***************************************************************************)
EXTENDS MobileSignIn, WebSignIn, SequenceTheorems, TLAPS

-----------------------------------------------------------------------------
(* The token table: each of its four changes keeps the type, every row and *)
(* every row's user.                                                       *)

\* The table only grows, and no row changes its user.
UsersStay ==
  /\ Tokens \subseteq DOMAIN refresh'
  /\ \A s \in Tokens : refresh'[s].user = refresh[s].user

LEMMA TableFacts ==
  ASSUME TokensTypeOK
  PROVE  /\ Tokens = 1..Len(refresh) /\ Len(refresh) \in Nat
         /\ Tokens \subseteq TokenIds /\ NoToken \in TokenIds /\ NoToken \notin Tokens
         /\ MayIssue => NextId \in TokenIds \ {NoToken} /\ NextId \in 1..MaxRefresh
         /\ \A s \in Tokens : refresh[s] \in RefreshRow
  BY MaxRefreshAssumption DEF TokensTypeOK, Tokens, TokenIds, NoToken, MayIssue, NextId

LEMMA AppendFacts ==
  ASSUME NEW f, f \in Seq(RefreshRow), NEW row \in RefreshRow, NEW g, g = Append(f, row)
  PROVE  /\ g \in Seq(RefreshRow) /\ Len(g) = Len(f) + 1
         /\ DOMAIN f \subseteq DOMAIN g /\ \A s \in DOMAIN f : g[s] = f[s]
         /\ Len(f) + 1 \in DOMAIN g /\ g[Len(f) + 1] = row
  BY AppendProperties

LEMMA IssueFacts ==
  ASSUME TokensTypeOK, MayIssue, NEW p \in People, Issue(p), UNCHANGED <<swept, late>>
  PROVE  TokensTypeOK' /\ UsersStay /\ NextId \in DOMAIN refresh' /\ refresh'[NextId].user = p
  <1> DEFINE row == [user |-> p, live |-> TRUE, login |-> NextId]
  <1>1. row \in RefreshRow
    BY TableFacts DEF RefreshRow
  <1>2. refresh' = Append(refresh, row) /\ refresh \in Seq(RefreshRow)
    BY DEF Issue, TokensTypeOK
  <1> HIDE DEF row
  <1>3. /\ refresh' \in Seq(RefreshRow) /\ Len(refresh') = Len(refresh) + 1
        /\ Tokens \subseteq DOMAIN refresh' /\ \A s \in Tokens : refresh'[s] = refresh[s]
        /\ NextId \in DOMAIN refresh' /\ refresh'[NextId] = row
    BY <1>1, <1>2, AppendFacts DEF Tokens, NextId
  <1>4. row.user = p
    BY DEF row
  <1> QED  BY <1>3, <1>4 DEF TokensTypeOK, Tokens, UsersStay, MayIssue, NextId

LEMMA RotateFacts ==
  ASSUME TokensTypeOK, MayIssue, NEW t \in Tokens, Rotate(t), UNCHANGED swept, late' \subseteq late
  PROVE  TokensTypeOK' /\ UsersStay /\ NextId \in DOMAIN refresh' /\ refresh'[NextId].user = refresh[t].user
  <1> DEFINE old == [refresh EXCEPT ![t].live = FALSE]
             row == [refresh[t] EXCEPT !.live = TRUE]
  <1>0. refresh \in Seq(RefreshRow) /\ refresh[t] \in RefreshRow /\ t \in 1..Len(refresh)
    BY TableFacts DEF TokensTypeOK
  <1>1. row \in RefreshRow /\ row.user = refresh[t].user
    BY <1>0 DEF RefreshRow
  <1>2. [refresh[t] EXCEPT !.live = FALSE] \in RefreshRow
    BY <1>0 DEF RefreshRow
  <1>3. /\ old \in Seq(RefreshRow) /\ Len(old) = Len(refresh) /\ DOMAIN old = Tokens
    BY <1>0, <1>2, ExceptSeq DEF Tokens
  <1>4. \A s \in Tokens : old[s].user = refresh[s].user
    <2>1. ASSUME NEW s \in Tokens PROVE old[s].user = refresh[s].user
      <3>1. CASE s = t
        BY <1>0, <3>1 DEF Tokens, RefreshRow
      <3>2. CASE s # t
        BY <3>2 DEF Tokens
      <3> QED  BY <3>1, <3>2
    <2> QED  BY <2>1
  <1>5. refresh' = Append(old, row)
    BY DEF Rotate
  <1> HIDE DEF old, row
  <1>6. /\ refresh' \in Seq(RefreshRow) /\ Len(refresh') = Len(refresh) + 1
        /\ Tokens \subseteq DOMAIN refresh' /\ \A s \in Tokens : refresh'[s] = old[s]
        /\ NextId \in DOMAIN refresh' /\ refresh'[NextId] = row
    BY <1>1, <1>3, <1>5, AppendFacts DEF NextId
  <1> QED  BY <1>1, <1>4, <1>6 DEF TokensTypeOK, Tokens, UsersStay, MayIssue, NextId

LEMMA SweepFacts ==
  ASSUME TokensTypeOK, NEW t \in Tokens, Sweep(t), UNCHANGED late
  PROVE  TokensTypeOK' /\ UsersStay
  <1>1. ASSUME NEW s \in Tokens
        PROVE  /\ refresh'[s] \in RefreshRow
               /\ refresh'[s].user = refresh[s].user
    <2>1. refresh[s] \in RefreshRow
      BY TableFacts
    <2>2. refresh'[s] = [refresh[s] EXCEPT !.live = @ /\ refresh[s].user # refresh[t].user]
      BY DEF Sweep
    <2> QED  BY <2>1, <2>2 DEF RefreshRow
  <1>2. DOMAIN refresh' = 1..Len(refresh) /\ Len(refresh) \in Nat
    BY TableFacts DEF Sweep
  <1>3. refresh' \in [1..Len(refresh) -> RefreshRow]
    BY <1>1, <1>2, TableFacts DEF Sweep
  <1>4. refresh' \in Seq(RefreshRow) /\ Len(refresh') = Len(refresh)
    BY <1>2, <1>3, IsASeq, LenProperties
  <1> QED  BY <1>1, <1>2, <1>4, TableFacts DEF Sweep, TokensTypeOK, Tokens, UsersStay

LEMMA RevokeFacts ==
  ASSUME TokensTypeOK, NEW t, Revoke(t), UNCHANGED <<swept, late>>
  PROVE  TokensTypeOK' /\ UsersStay
  <1>1. ASSUME NEW s \in Tokens
        PROVE  refresh'[s] \in RefreshRow /\ refresh'[s].user = refresh[s].user
    <2>1. refresh[s] \in RefreshRow
      BY TableFacts
    <2>2. refresh'[s] = [refresh[s] EXCEPT !.live = @ /\ s # t]
      BY DEF Revoke
    <2> QED  BY <2>1, <2>2 DEF RefreshRow
  <1>2. DOMAIN refresh' = 1..Len(refresh) /\ Len(refresh) \in Nat
    BY TableFacts DEF Revoke
  <1>3. refresh' \in [1..Len(refresh) -> RefreshRow]
    BY <1>1, <1>2, TableFacts DEF Revoke
  <1>4. refresh' \in Seq(RefreshRow) /\ Len(refresh') = Len(refresh)
    BY <1>2, <1>3, IsASeq, LenProperties
  <1>5. DOMAIN refresh' = Tokens
    BY DEF Revoke
  <1> QED  BY <1>1, <1>2, <1>4, <1>5, TableFacts DEF TokensTypeOK, Tokens, UsersStay

\* The table as it is, whatever the server still works on.
LEMMA SameTable ==
  ASSUME TokensTypeOK, refresh' = refresh, swept' = swept, late' = late \/ late' \subseteq Tokens
  PROVE  TokensTypeOK' /\ UsersStay /\ refresh' = refresh
  BY DEF TokensTypeOK, UsersStay, Tokens

LEMMA GivenUpFacts ==
  ASSUME TokensTypeOK, NEW c, c.st = "read" => c.tok \in Tokens, GivenUp(c)
  PROVE  late' \subseteq Tokens /\ (c.st # "read" => late' = late)
         /\ (late' = late \/ late' = late \union {c.tok})
  BY DEF TokensTypeOK, GivenUp

LEMMA LateFacts ==
  ASSUME TokensTypeOK, NEW t \in Tokens, LateCommit(t)
  PROVE  /\ TokensTypeOK' /\ UsersStay
         /\ t \in late /\ MayIssue /\ Rotate(t) /\ late' = late \ {t} /\ swept' = swept
  BY RotateFacts DEF LateCommit

-----------------------------------------------------------------------------
(* Which rows are live, and in which chain *)

LEMMA IssueRows ==
  ASSUME TokensTypeOK, MayIssue, NEW p \in People, Issue(p)
  PROVE  /\ Tokens' = Tokens \union {NextId} /\ NextId \notin Tokens
         /\ \A s \in Tokens : refresh'[s] = refresh[s]
         /\ refresh'[NextId].live /\ refresh'[NextId].login = NextId
  <1> DEFINE row == [user |-> p, live |-> TRUE, login |-> NextId]
  <1>1. row \in RefreshRow /\ row.live /\ row.login = NextId
    BY TableFacts DEF RefreshRow
  <1>2. refresh' = Append(refresh, row) /\ refresh \in Seq(RefreshRow)
    BY DEF Issue, TokensTypeOK
  <1> HIDE DEF row
  <1>3. /\ refresh' \in Seq(RefreshRow) /\ Len(refresh') = Len(refresh) + 1
        /\ \A s \in Tokens : refresh'[s] = refresh[s] /\ refresh'[NextId] = row
    BY <1>1, <1>2, AppendFacts DEF Tokens, NextId
  <1>4. Tokens' = 1..(Len(refresh) + 1) /\ Tokens = 1..Len(refresh) /\ Len(refresh) \in Nat
    BY <1>3, LenProperties, TableFacts DEF Tokens
  <1>5. Tokens' = Tokens \union {NextId} /\ NextId \notin Tokens
    BY <1>4 DEF NextId
  <1>6. refresh'[NextId] = row
    BY <1>2, AppendFacts, <1>1 DEF NextId
  <1> QED  BY <1>1, <1>3, <1>5, <1>6

LEMMA RotateRows ==
  ASSUME TokensTypeOK, MayIssue, NEW t \in Tokens, Rotate(t)
  PROVE  /\ Tokens' = Tokens \union {NextId} /\ NextId \notin Tokens
         /\ \A s \in Tokens : /\ refresh'[s].login = refresh[s].login
                              /\ refresh'[s].live <=> refresh[s].live /\ s # t
         /\ refresh'[NextId].live /\ refresh'[NextId].login = refresh[t].login
  <1> DEFINE old == [refresh EXCEPT ![t].live = FALSE]
             row == [refresh[t] EXCEPT !.live = TRUE]
  <1>0. refresh \in Seq(RefreshRow) /\ refresh[t] \in RefreshRow /\ t \in 1..Len(refresh)
    BY TableFacts DEF TokensTypeOK
  <1>1. row \in RefreshRow /\ row.live /\ row.login = refresh[t].login
    BY <1>0 DEF RefreshRow
  <1>2. /\ [refresh[t] EXCEPT !.live = FALSE] \in RefreshRow
        /\ [refresh[t] EXCEPT !.live = FALSE].login = refresh[t].login
        /\ ~[refresh[t] EXCEPT !.live = FALSE].live
    BY <1>0 DEF RefreshRow
  <1>3. old \in Seq(RefreshRow) /\ Len(old) = Len(refresh) /\ DOMAIN old = Tokens
    BY <1>0, <1>2, ExceptSeq DEF Tokens
  <1>4. /\ old[t].login = refresh[t].login /\ ~old[t].live
        /\ \A s \in Tokens : s # t => old[s] = refresh[s]
    BY <1>2 DEF Tokens
  <1>5. refresh' = Append(old, row)
    BY DEF Rotate
  <1> HIDE DEF old, row
  <1>6. /\ refresh' \in Seq(RefreshRow) /\ Len(refresh') = Len(refresh) + 1
        /\ \A s \in Tokens : refresh'[s] = old[s]
        /\ refresh'[NextId] = row
    BY <1>1, <1>3, <1>5, AppendFacts DEF NextId
  <1>7. Tokens' = 1..(Len(refresh) + 1) /\ Tokens = 1..Len(refresh) /\ Len(refresh) \in Nat
    BY <1>6, LenProperties, TableFacts DEF Tokens
  <1>8. Tokens' = Tokens \union {NextId} /\ NextId \notin Tokens
    BY <1>7 DEF NextId
  <1>9. ASSUME NEW s \in Tokens
        PROVE  /\ refresh'[s].login = refresh[s].login
               /\ refresh'[s].live <=> refresh[s].live /\ s # t
    BY <1>4, <1>6
  <1> QED  BY <1>1, <1>6, <1>8, <1>9

LEMMA RevokeRows ==
  ASSUME TokensTypeOK, NEW t, Revoke(t)
  PROVE  /\ Tokens' = Tokens
         /\ \A s \in Tokens : /\ refresh'[s].login = refresh[s].login
                              /\ refresh'[s].live <=> refresh[s].live /\ s # t
  <1>1. ASSUME NEW s \in Tokens
        PROVE  /\ refresh'[s].login = refresh[s].login
               /\ refresh'[s].live <=> refresh[s].live /\ s # t
    <2>1. refresh[s] \in RefreshRow
      BY TableFacts
    <2>2. refresh'[s] = [refresh[s] EXCEPT !.live = @ /\ s # t]
      BY DEF Revoke
    <2> QED  BY <2>1, <2>2 DEF RefreshRow
  <1> QED  BY <1>1 DEF Revoke, Tokens

\* A chain is named by the number of its first token, and has one live token.
LoginsBelow == \A s \in Tokens : refresh[s].login \in Nat /\ refresh[s].login <= s

LEMMA LoginsKept ==
  ASSUME TokensTypeOK, LoginsBelow,
         \/ \E p \in People : MayIssue /\ Issue(p)
         \/ \E t \in Tokens : (MayIssue /\ Rotate(t)) \/ Sweep(t)
         \/ \E t : Revoke(t)
         \/ UNCHANGED refresh
  PROVE  LoginsBelow'
  <1>n. NextId \in Nat /\ \A s \in Tokens : s \in Nat /\ s <= NextId
    BY TableFacts DEF NextId
  <1>1. ASSUME NEW p \in People, MayIssue, Issue(p) PROVE LoginsBelow'
    BY <1>1, <1>n, IssueRows DEF LoginsBelow
  <1>2. ASSUME NEW t \in Tokens, MayIssue, Rotate(t) PROVE LoginsBelow'
    <2>1. refresh[t].login \in Nat /\ refresh[t].login <= NextId
      BY <1>n DEF LoginsBelow
    <2> QED  BY <1>2, <2>1, RotateRows DEF LoginsBelow
  <1>3. ASSUME NEW t \in Tokens, Sweep(t) PROVE LoginsBelow'
    <2>1. ASSUME NEW s \in Tokens PROVE refresh'[s].login = refresh[s].login
      <3>1. refresh'[s] = [refresh[s] EXCEPT !.live = @ /\ refresh[s].user # refresh[t].user]
        BY <1>3 DEF Sweep
      <3>2. refresh[s] \in RefreshRow
        BY TableFacts
      <3> QED  BY <3>1, <3>2 DEF RefreshRow
    <2>2. Tokens' = Tokens
      BY <1>3 DEF Sweep, Tokens
    <2> QED  BY <2>1, <2>2 DEF LoginsBelow
  <1>4. ASSUME NEW t, Revoke(t) PROVE LoginsBelow'
    BY <1>4, RevokeRows DEF LoginsBelow
  <1>5. CASE UNCHANGED refresh
    BY <1>5 DEF LoginsBelow, Tokens
  <1> QED  BY <1>1, <1>2, <1>3, <1>4, <1>5

OneLive ==
  \A s, t \in Tokens : Live(s) /\ Live(t) /\ refresh[s].login = refresh[t].login => s = t

LEMMA OneLiveKept ==
  ASSUME TokensTypeOK, LoginsBelow, OneLive,
         \/ \E p \in People : MayIssue /\ Issue(p)
         \/ \E t \in Tokens : MayIssue /\ Rotate(t) /\ Live(t)
         \/ UNCHANGED refresh
  PROVE  OneLive'
  <1>n. NextId \in Nat /\ \A s \in Tokens : s \in Nat /\ s < NextId
    BY TableFacts DEF NextId
  <1>1. ASSUME NEW p \in People, MayIssue, Issue(p) PROVE OneLive'
    <2>1. \A s \in Tokens : refresh[s].login # NextId
      BY <1>n DEF LoginsBelow
    <2> QED  BY <1>1, <2>1, IssueRows DEF OneLive, Live
  <1>2. ASSUME NEW t \in Tokens, MayIssue, Rotate(t), Live(t) PROVE OneLive'
    <2>1. \A s \in Tokens : Live(s) /\ refresh[s].login = refresh[t].login => s = t
      BY <1>2 DEF OneLive
    <2> QED  BY <1>2, <2>1, RotateRows DEF OneLive, Live
  <1>3. CASE UNCHANGED refresh
    BY <1>3 DEF OneLive, Live, Tokens
  <1> QED  BY <1>1, <1>2, <1>3

-----------------------------------------------------------------------------
(* Each change of the table is a step of its chains. *)

LEMMA IssueBegins ==
  ASSUME TokensTypeOK, LoginsBelow, MayIssue, NEW p \in People, Issue(p)
  PROVE  \E l \in 1..MaxRefresh : Chains!Begin(l)
  <1>1. /\ Tokens' = Tokens \union {NextId} /\ NextId \notin Tokens
        /\ \A s \in Tokens : refresh'[s] = refresh[s]
        /\ refresh'[NextId].live /\ refresh'[NextId].login = NextId
    BY IssueRows
  <1>2. \A s \in Tokens : refresh[s].login # NextId
    BY TableFacts DEF LoginsBelow, NextId
  <1>3. NextId \in 1..MaxRefresh
    BY TableFacts
  <1>4. {refresh'[t].login : t \in Tokens'} = {refresh[t].login : t \in Tokens} \union {NextId}
    BY <1>1
  <1>5. ASSUME NEW l \in 1..MaxRefresh
        PROVE  {t \in Tokens' : refresh'[t].live /\ refresh'[t].login = l} =
                 IF l = NextId THEN {NextId} ELSE {t \in Tokens : refresh[t].live /\ refresh[t].login = l}
    BY <1>1, <1>2
  <1>6. Working' = [Working EXCEPT ![NextId] = {NextId}]
    BY <1>3, <1>5 DEF Working
  <1>7. Chains!Begin(NextId)
    BY <1>1, <1>4, <1>6 DEF Chains!Begin
  <1> QED  BY <1>3, <1>7 DEF Chains!Begin

LEMMA RotateRenews ==
  ASSUME TokensTypeOK, OneLive, MayIssue, NEW t \in Tokens, Live(t), Rotate(t)
  PROVE  \E l, old, new \in 1..MaxRefresh : Chains!Renew(l, old, new)
  <1> DEFINE l == refresh[t].login
  <1>1. /\ Tokens' = Tokens \union {NextId} /\ NextId \notin Tokens
        /\ \A s \in Tokens : /\ refresh'[s].login = refresh[s].login
                             /\ refresh'[s].live <=> refresh[s].live /\ s # t
        /\ refresh'[NextId].live /\ refresh'[NextId].login = l
    BY RotateRows
  <1>2. l \in 1..MaxRefresh /\ t \in 1..MaxRefresh /\ NextId \in 1..MaxRefresh
    BY TableFacts, MaxRefreshAssumption DEF RefreshRow, TokenIds, NoToken
  <1>3. \A s \in Tokens : refresh[s].live /\ refresh[s].login = l => s = t
    BY DEF OneLive, Live
  <1>4. {refresh'[s].login : s \in Tokens'} = {refresh[s].login : s \in Tokens}
    BY <1>1
  <1>5. {s \in Tokens : refresh[s].live /\ refresh[s].login = l} = {t}
    BY <1>3 DEF Live
  <1> HIDE DEF l
  <1>6. ASSUME NEW m \in 1..MaxRefresh
        PROVE  {s \in Tokens' : refresh'[s].live /\ refresh'[s].login = m} =
                 IF m = l THEN {NextId} ELSE {s \in Tokens : refresh[s].live /\ refresh[s].login = m}
    <2>1. CASE m = l
      BY <1>1, <1>3, <2>1
    <2>2. CASE m # l
      <3>1. refresh[t].login # m
        BY <2>2 DEF l
      <3> QED  BY <1>1, <2>2, <3>1
    <2> QED  BY <2>1, <2>2
  <1>7. Working[l] = {t} /\ Working' = [Working EXCEPT ![l] = {NextId}]
    BY <1>2, <1>5, <1>6 DEF Working
  <1>8. Chains!Renew(l, t, NextId)
    BY <1>1, <1>4, <1>7 DEF Chains!Renew
  <1> QED  BY <1>2, <1>8

LEMMA RevokeEnds ==
  ASSUME TokensTypeOK, OneLive, NEW t, Revoke(t)
  PROVE  \E logins \in SUBSET (1..MaxRefresh) : Chains!End(logins)
  <1> DEFINE logins == {l \in 1..MaxRefresh : Working[l] = {t}}
  <1>1. /\ Tokens' = Tokens
        /\ \A s \in Tokens : /\ refresh'[s].login = refresh[s].login
                             /\ refresh'[s].live <=> refresh[s].live /\ s # t
    BY RevokeRows
  <1>2. {refresh'[s].login : s \in Tokens'} = {refresh[s].login : s \in Tokens}
    BY <1>1
  <1>3. ASSUME NEW l \in 1..MaxRefresh
        PROVE  {s \in Tokens' : refresh'[s].live /\ refresh'[s].login = l} =
                 IF Working[l] = {t} THEN {} ELSE Working[l]
    <2>1. Working[l] = {s \in Tokens : refresh[s].live /\ refresh[s].login = l}
      BY DEF Working
    <2>2. t \in Working[l] => Working[l] = {t}
      BY <2>1 DEF OneLive, Live
    <2> QED  BY <1>1, <2>1, <2>2
  <1>4. Working' = [l \in 1..MaxRefresh |-> IF l \in logins THEN {} ELSE Working[l]]
    BY <1>3 DEF Working
  <1>5. Chains!End(logins)
    BY <1>1, <1>2, <1>4 DEF Chains!End
  <1> QED  BY <1>5

LEMMA ChainsStay ==
  ASSUME UNCHANGED refresh PROVE UNCHANGED Chains!chainVars
  BY DEF Chains!chainVars, Tokens, Working

LEMMA ChainsStart == TokensInit => Chains!Init
  BY DEF TokensInit, Chains!Init, Tokens, Working

-----------------------------------------------------------------------------
(* The phone *)

RequestState == [st : CallStates, acc : Access \union {NoAccess}]
RenewalState == [st : {"idle", "asked", "read", "granted", "halfsaved", "failed"},
                 tok : TokenIds, by : People \union {NoOne}]
SigningState == [st : {"idle", "served", "saved", "stored"}, user : People \union {NoOne},
                 tok : TokenIds]
StoreState == [acc : Access \union {NoAccess}, ref : TokenIds]

PhoneTypes == TokensTypeOK /\ MobileTypeOK
PhoneVars == <<tokenVars, mobileVars>>

OnItsWay == renewal.st \in {"asked", "read", "granted", "halfsaved"}

\* The tokens the phone holds are rows of the table; the answer of a renewal
\* and a login name the user of their row.
HeldTokens ==
  /\ store.ref \in Tokens \union {NoToken}
  /\ OnItsWay => renewal.tok \in Tokens
  /\ renewal.st \in {"granted", "halfsaved"} => renewal.by = refresh[renewal.tok].user
  /\ signing.tok \in Tokens \union {NoToken}
  /\ signing.st # "idle" => signing.user \in People
  /\ signing.tok # NoToken => refresh[signing.tok].user = signing.user

\* Everything the phone holds or has under way is u's.
OwnedBy(u) ==
  /\ shown \in {u, NoOne}
  /\ store.acc.user \in {u, NoOne}
  /\ store.ref # NoToken => refresh[store.ref].user = u
  /\ \A r \in Requests : rq[r].st \in {"sent", "replayed"} => rq[r].acc.user \in {u, NoOne}
  /\ OnItsWay => refresh[renewal.tok].user = u

\* While a login stores its tokens nobody is shown, no call is under way, and
\* the keys written so far are its own.
Joining ==
  signing.st # "idle" =>
    /\ shown = NoOne /\ ~Running
    /\ \A r \in Requests : rq[r].st \in {"idle", "leaving", "left"}
    /\ signing.tok = NoToken => store.ref = NoToken
    /\ signing.st \in {"saved", "stored"} => store.acc.user \in {signing.user, NoOne}
    /\ signing.st = "stored" => store.ref = signing.tok

PhoneInv ==
  /\ HeldTokens
  /\ ~mixed => /\ Joining
               /\ signing.st \in {"idle", "served"} => \E u \in People \union {NoOne} : OwnedBy(u)

LEMMA PhoneShape ==
  ASSUME MobileTypeOK
  PROVE  /\ store \in StoreState /\ rq \in [Requests -> RequestState] /\ renewal \in RenewalState
         /\ signing \in SigningState
         /\ store.acc \in Access \union {NoAccess}
         /\ \A r \in Requests : rq[r] \in RequestState
         /\ NoAccess \notin Access /\ NoAccess.user = NoOne /\ ~NoAccess.fresh
         /\ \A a \in Access : a.user \in People
         /\ NoOne \notin People
  BY PeopleAssumption
     DEF MobileTypeOK, StoreState, RequestState, RenewalState, SigningState, Access, NoAccess

LEMMA IdleShapes ==
  /\ IdleRequest \in RequestState /\ IdleRenewal \in RenewalState /\ IdleSigning \in SigningState
  /\ IdleRequest.st = "idle" /\ IdleRenewal.st = "idle" /\ IdleSigning.st = "idle"
  /\ IdleSigning.tok = NoToken
  BY MaxRefreshAssumption
     DEF IdleRequest, IdleRenewal, IdleSigning, RequestState, RenewalState, SigningState, CallStates,
         NoAccess, NoToken, TokenIds

LEMMA StoreFacts ==
  ASSUME MobileTypeOK
  PROVE  /\ Forget(store) \in StoreState /\ Forget(store).ref = store.ref
         /\ Forget(store).acc = NoAccess /\ NoAccess.user = NoOne
         /\ \A p \in People : /\ [store EXCEPT !.acc = [user |-> p, fresh |-> TRUE]] \in StoreState
                              /\ [store EXCEPT !.acc = [user |-> p, fresh |-> TRUE]].ref = store.ref
                              /\ [store EXCEPT !.acc = [user |-> p, fresh |-> TRUE]].acc.user = p
         /\ [store EXCEPT !.ref = NoToken] \in StoreState
         /\ [store EXCEPT !.ref = NoToken].ref = NoToken
         /\ [store EXCEPT !.ref = NoToken].acc = store.acc
  <1>1. store \in StoreState
    BY PhoneShape
  <1>2. \A p \in People : [user |-> p, fresh |-> TRUE] \in Access
    BY DEF Access
  <1>3. Forget(store) \in StoreState /\ Forget(store).ref = store.ref
        /\ Forget(store).acc = NoAccess /\ NoAccess.user = NoOne
    BY <1>1, PhoneShape DEF Forget, StoreState
  <1>4. ASSUME NEW p \in People
        PROVE  /\ [store EXCEPT !.acc = [user |-> p, fresh |-> TRUE]] \in StoreState
               /\ [store EXCEPT !.acc = [user |-> p, fresh |-> TRUE]].ref = store.ref
               /\ [store EXCEPT !.acc = [user |-> p, fresh |-> TRUE]].acc.user = p
    BY <1>1, <1>2 DEF StoreState
  <1>5. /\ [store EXCEPT !.ref = NoToken] \in StoreState
        /\ [store EXCEPT !.ref = NoToken].ref = NoToken
        /\ [store EXCEPT !.ref = NoToken].acc = store.acc
    BY <1>1, MaxRefreshAssumption DEF StoreState, TokenIds, NoToken
  <1> QED  BY <1>3, <1>4, <1>5

\* One call changes.
LEMMA CallFacts ==
  ASSUME MobileTypeOK, NEW r \in Requests, NEW c \in RequestState, rq' = [rq EXCEPT ![r] = c]
  PROVE  /\ rq' \in [Requests -> RequestState] /\ rq'[r] = c
         /\ \A q \in Requests : q # r => rq'[q] = rq[q]
  BY PhoneShape

\* ... to another state, as it is or as a new one.
LEMMA CallMoves ==
  ASSUME MobileTypeOK, NEW r \in Requests, NEW st \in CallStates
  PROVE  /\ [rq[r] EXCEPT !.st = st] \in RequestState /\ [rq[r] EXCEPT !.st = st].st = st
         /\ [IdleRequest EXCEPT !.st = st] \in RequestState
         /\ [IdleRequest EXCEPT !.st = st].st = st
  BY PhoneShape, IdleShapes DEF RequestState

\* What a step has to show when the rows and the login stay as they are.
LEMMA PhoneKeepsRows ==
  ASSUME PhoneTypes, PhoneInv, refresh' = refresh, swept' = swept, late' \subseteq Tokens,
         store' \in StoreState, rq' \in [Requests -> RequestState], renewal' \in RenewalState,
         shown' \in People \union {NoOne}, cut' \in BOOLEAN, UNCHANGED <<signing, mixed>>,
         HeldTokens', \A u \in People \union {NoOne} : OwnedBy(u) => OwnedBy(u)',
         ~mixed => Joining'
  PROVE  PhoneTypes' /\ PhoneInv'
  <1>1. TokensTypeOK'
    BY SameTable DEF PhoneTypes
  <1>2. MobileTypeOK'
    BY DEF PhoneTypes, MobileTypeOK, StoreState, RequestState, RenewalState
  <1> QED  BY <1>1, <1>2 DEF PhoneTypes, PhoneInv

LEMMA PhoneKeeps ==
  ASSUME PhoneTypes, PhoneInv, UNCHANGED tokenVars,
         store' \in StoreState, rq' \in [Requests -> RequestState], renewal' \in RenewalState,
         shown' \in People \union {NoOne}, cut' \in BOOLEAN, UNCHANGED <<signing, mixed>>,
         HeldTokens', \A u \in People \union {NoOne} : OwnedBy(u) => OwnedBy(u)',
         ~mixed => Joining'
  PROVE  PhoneTypes' /\ PhoneInv'
  <1>1. refresh' = refresh /\ swept' = swept /\ late' \subseteq Tokens
    BY DEF PhoneTypes, TokensTypeOK, tokenVars
  <1> QED  BY <1>1, PhoneKeepsRows

LEMMA SignInStep ==
  ASSUME PhoneTypes, PhoneInv, NEW p \in People, NEW both \in BOOLEAN, SignIn(p, both)
  PROVE  PhoneTypes' /\ PhoneInv'
  <1>1. TokensTypeOK /\ MayIssue /\ Issue(p) /\ UNCHANGED <<swept, late>>
    BY DEF SignIn, PhoneTypes
  <1>2. TokensTypeOK' /\ UsersStay /\ NextId \in DOMAIN refresh' /\ refresh'[NextId].user = p
    BY <1>1, IssueFacts
  <1>3. NextId \in TokenIds /\ NoToken \in TokenIds
    BY <1>1, TableFacts
  <1>4. /\ signing'.st = "served" /\ signing'.user = p
        /\ signing'.tok = IF both THEN NextId ELSE NoToken
        /\ UNCHANGED <<store, shown, rq, renewal, cut>> /\ shown = NoOne
    BY DEF SignIn
  <1>5. signing' \in SigningState
    BY <1>3 DEF SignIn, SigningState
  <1>6. MobileTypeOK'
    BY <1>4, <1>5 DEF PhoneTypes, MobileTypeOK, SignIn, SigningState
  <1>7. HeldTokens'
    BY <1>2, <1>4 DEF PhoneInv, HeldTokens, OnItsWay, UsersStay, Tokens
  <1>8. ASSUME ~mixed' PROVE Joining' /\ \E u \in People \union {NoOne} : OwnedBy(u)'
    <2>1. /\ ~mixed /\ ~Running /\ \A r \in Requests : rq[r].st = "idle"
          /\ both \/ store.ref = NoToken
      BY <1>8 DEF SignIn
    <2>2. signing'.tok = NoToken => store.ref = NoToken
      BY <1>1, <1>4, <2>1, TableFacts
    <2>3. Joining'
      BY <1>4, <2>1, <2>2 DEF Joining, Running
    <2>4. signing.st = "idle"
      BY DEF SignIn
    <2>5. PICK u \in People \union {NoOne} : OwnedBy(u)
      BY <2>1, <2>4 DEF PhoneInv
    <2>6. OwnedBy(u)'
      BY <1>2, <1>4, <2>5 DEF PhoneInv, HeldTokens, OwnedBy, OnItsWay, UsersStay
    <2> QED  BY <2>3, <2>6
  <1> QED  BY <1>2, <1>6, <1>7, <1>8 DEF PhoneTypes, PhoneInv

\* The rest of a login: its two writes, the user it shows, the error.
LEMMA LoginStep ==
  ASSUME PhoneTypes, PhoneInv, LoginSavesAccess \/ LoginSavesRefresh \/ LoginShows \/ LoginFails
  PROVE  PhoneTypes' /\ PhoneInv'
  <1>s. /\ store \in StoreState /\ signing \in SigningState /\ MobileTypeOK /\ TokensTypeOK
        /\ HeldTokens /\ mixed \in BOOLEAN /\ shown \in People \union {NoOne}
    BY PhoneShape DEF PhoneTypes, PhoneInv, MobileTypeOK
  <1>t. UNCHANGED <<tokenVars, rq, renewal, cut>>
    BY DEF LoginSavesAccess, LoginSavesRefresh, LoginShows, LoginFails
  <1>u. TokensTypeOK' /\ UNCHANGED <<refresh, Tokens>>
    BY <1>s, <1>t, SameTable DEF tokenVars, Tokens
  <1>m. ASSUME store' \in StoreState, signing' \in SigningState, mixed' \in BOOLEAN,
               shown' \in People \union {NoOne}
        PROVE  PhoneTypes'
    BY <1>m, <1>s, <1>t, <1>u DEF PhoneTypes, MobileTypeOK, StoreState, SigningState
  <1>1. CASE LoginSavesAccess
    <2>1. /\ signing.st = "served" /\ signing.user \in People /\ UNCHANGED <<shown, mixed>>
          /\ signing' = [signing EXCEPT !.st = "saved"]
          /\ store' = [store EXCEPT !.acc = [user |-> signing.user, fresh |-> TRUE]]
      BY <1>1, <1>s DEF LoginSavesAccess, HeldTokens
    <2>2. store' \in StoreState /\ store'.ref = store.ref /\ store'.acc.user = signing.user
      BY <1>s, <2>1, StoreFacts
    <2>3. /\ signing' \in SigningState /\ signing'.st = "saved"
          /\ signing'.user = signing.user /\ signing'.tok = signing.tok
      BY <1>s, <2>1 DEF SigningState
    <2>4. HeldTokens'
      BY <1>s, <1>t, <1>u, <2>1, <2>2, <2>3 DEF HeldTokens, OnItsWay
    <2>5. ~mixed => Joining'
      BY <1>t, <2>1, <2>2, <2>3 DEF PhoneInv, Joining, Running
    <2> QED  BY <1>m, <1>s, <2>1, <2>2, <2>3, <2>4, <2>5 DEF PhoneInv
  <1>2. CASE LoginSavesRefresh
    <2>1. /\ signing.st = "saved" /\ UNCHANGED <<shown, mixed>>
          /\ signing' = [signing EXCEPT !.st = "stored"]
          /\ store' = [store EXCEPT !.ref = IF signing.tok = NoToken THEN store.ref ELSE signing.tok]
      BY <1>2 DEF LoginSavesRefresh
    <2>2. /\ store' \in StoreState /\ store'.acc = store.acc
          /\ store'.ref = IF signing.tok = NoToken THEN store.ref ELSE signing.tok
      BY <1>s, <2>1 DEF StoreState, SigningState
    <2>3. /\ signing' \in SigningState /\ signing'.st = "stored"
          /\ signing'.user = signing.user /\ signing'.tok = signing.tok
      BY <1>s, <2>1 DEF SigningState
    <2>4. HeldTokens'
      BY <1>s, <1>t, <1>u, <2>1, <2>2, <2>3 DEF HeldTokens, OnItsWay
    <2>5. ~mixed => Joining'
      BY <1>t, <2>1, <2>2, <2>3 DEF PhoneInv, Joining, Running
    <2> QED  BY <1>m, <1>s, <2>1, <2>2, <2>3, <2>4, <2>5 DEF PhoneInv
  <1>3. CASE LoginShows
    <2>1. /\ signing.st = "stored" /\ shown' = signing.user /\ signing' = IdleSigning
          /\ UNCHANGED <<store, mixed>>
      BY <1>3 DEF LoginShows
    <2>2. HeldTokens'
      BY <1>s, <1>t, <1>u, <2>1, IdleShapes DEF HeldTokens, OnItsWay
    <2>3. ASSUME ~mixed, NEW p, p = signing.user PROVE OwnedBy(p)'
      <3>1. /\ Joining /\ ~Running /\ store.acc.user \in {signing.user, NoOne}
            /\ store.ref = signing.tok /\ \A r \in Requests : rq[r].st \in {"idle", "leaving", "left"}
        BY <2>1, <2>3 DEF PhoneInv, Joining
      <3> QED  BY <1>s, <1>t, <1>u, <2>1, <2>3, <3>1 DEF HeldTokens, OwnedBy, OnItsWay, Running
    <2>4. signing.user \in People /\ Joining'
      BY <1>s, <2>1, IdleShapes DEF HeldTokens, Joining
    <2>5. ASSUME ~mixed PROVE \E u \in People \union {NoOne} : OwnedBy(u)'
      BY <2>3, <2>4, <2>5
    <2> QED  BY <1>m, <1>s, <2>1, <2>2, <2>4, <2>5, IdleShapes DEF PhoneInv
  <1>4. CASE LoginFails
    <2>1. /\ signing.st \in {"served", "saved"} /\ signing' = IdleSigning
          /\ UNCHANGED <<store, shown>> /\ mixed' = (mixed \/ HalfSignedIn)
      BY <1>4 DEF LoginFails
    <2>2. HeldTokens'
      BY <1>s, <1>t, <1>u, <2>1, IdleShapes DEF HeldTokens, OnItsWay
    <2>3. ASSUME ~mixed' PROVE \E u \in People \union {NoOne} : OwnedBy(u)'
      <3>1. ~mixed /\ ~HalfSignedIn
        BY <2>1, <2>3
      <3>2. CASE signing.st = "served"
        <4>1. PICK u \in People \union {NoOne} : OwnedBy(u)
          BY <3>1, <3>2 DEF PhoneInv
        <4>2. OwnedBy(u)'
          BY <1>t, <1>u, <2>1, <4>1 DEF OwnedBy, OnItsWay
        <4> QED  BY <4>2
      <3>3. CASE signing.st = "saved"
        <4>1. /\ store.ref = NoToken /\ ~Running /\ store.acc.user \in {signing.user, NoOne}
              /\ shown = NoOne /\ \A r \in Requests : rq[r].st \in {"idle", "leaving", "left"}
          BY <3>1, <3>3 DEF PhoneInv, Joining, HalfSignedIn
        <4>2. ASSUME NEW p, p = signing.user PROVE OwnedBy(p)'
          BY <1>t, <2>1, <4>1, <4>2 DEF OwnedBy, OnItsWay, Running
        <4> QED  BY <1>s, <3>3, <4>2 DEF HeldTokens
      <3> QED  BY <2>1, <3>2, <3>3
    <2>4. Joining' /\ mixed' \in BOOLEAN
      BY <1>s, <2>1, IdleShapes DEF Joining
    <2> QED  BY <1>m, <1>s, <2>1, <2>2, <2>3, <2>4, IdleShapes DEF PhoneInv
  <1> QED  BY <1>1, <1>2, <1>3, <1>4

\* A call on its way, its 401 and what follows a renewal that failed.
LEMMA RequestStep ==
  ASSUME PhoneTypes, PhoneInv, NEW r \in Requests,
         \/ Send(r) \/ Answered(r) \/ Waits(r) \/ GivesUp(r)
         \/ ClearsAccess(r) \/ ClearsRefresh(r)
  PROVE  PhoneTypes' /\ PhoneInv'
  <1>s. /\ store \in StoreState /\ rq \in [Requests -> RequestState] /\ renewal \in RenewalState
        /\ shown \in People \union {NoOne} /\ cut \in BOOLEAN /\ MobileTypeOK
    BY PhoneShape DEF PhoneTypes, MobileTypeOK
  <1>q. ~mixed => signing.st = "idle"
    BY DEF PhoneInv, Joining, Send, Answered, Waits, GivesUp, ClearsAccess, ClearsRefresh
  <1>j. UNCHANGED signing => (~mixed => Joining')
    BY <1>q DEF Joining
  <1>1. CASE Send(r)
    <2>1. [st |-> "sent", acc |-> store.acc] \in RequestState
      BY <1>s DEF RequestState, StoreState, CallStates
    <2>2. rq' = [rq EXCEPT ![r] = [st |-> "sent", acc |-> store.acc]]
          /\ UNCHANGED <<tokenVars, store, shown, signing, renewal, cut, mixed>>
      BY <1>1 DEF Send
    <2>3. /\ rq' \in [Requests -> RequestState] /\ rq'[r].acc = store.acc
          /\ \A q \in Requests : q # r => rq'[q] = rq[q]
      BY <1>s, <2>1, <2>2, CallFacts
    <2>4. HeldTokens'
      BY <2>2 DEF PhoneInv, HeldTokens, OnItsWay, Tokens, tokenVars
    <2>5. ASSUME NEW u \in People \union {NoOne}, OwnedBy(u) PROVE OwnedBy(u)'
      BY <2>2, <2>3, <2>5 DEF OwnedBy, OnItsWay, tokenVars
    <2> QED  BY <1>j, <1>s, <2>2, <2>3, <2>4, <2>5, PhoneKeeps
  <1>2. CASE Answered(r)
    <2>1. rq' = [rq EXCEPT ![r] = IdleRequest]
          /\ UNCHANGED <<tokenVars, store, shown, signing, renewal, cut, mixed>>
      BY <1>2 DEF Answered
    <2>2. /\ rq' \in [Requests -> RequestState] /\ rq'[r].st = "idle"
          /\ \A q \in Requests : q # r => rq'[q] = rq[q]
      BY <1>s, <2>1, CallFacts, IdleShapes
    <2>3. HeldTokens'
      BY <2>1 DEF PhoneInv, HeldTokens, OnItsWay, Tokens, tokenVars
    <2>4. ASSUME NEW u \in People \union {NoOne}, OwnedBy(u) PROVE OwnedBy(u)'
      BY <2>1, <2>2, <2>4 DEF OwnedBy, OnItsWay, tokenVars
    <2> QED  BY <1>j, <1>s, <2>1, <2>2, <2>3, <2>4, PhoneKeeps
  <1>3. CASE Waits(r)
    <2> DEFINE asked == [st |-> IF store.ref = NoToken THEN "failed" ELSE "asked",
                         tok |-> store.ref, by |-> NoOne]
    <2>1. asked \in RenewalState /\ asked.st \in {"asked", "failed"} /\ asked.tok = store.ref
          /\ (asked.st = "asked" => store.ref # NoToken)
      BY <1>s DEF RenewalState, StoreState
    <2>2. renewal' = renewal \/ renewal' = asked
      BY <1>3 DEF Waits
    <2> HIDE DEF asked
    <2>3. rq' = [rq EXCEPT ![r] = [IdleRequest EXCEPT !.st = "waiting"]]
          /\ UNCHANGED <<tokenVars, store, shown, signing, mixed>> /\ cut' \in BOOLEAN
      BY <1>3, <1>s DEF Waits
    <2>4. /\ rq' \in [Requests -> RequestState] /\ rq'[r].st = "waiting"
          /\ \A q \in Requests : q # r => rq'[q] = rq[q]
      <3>1. /\ [IdleRequest EXCEPT !.st = "waiting"] \in RequestState
            /\ [IdleRequest EXCEPT !.st = "waiting"].st = "waiting"
        BY <1>s, CallMoves DEF CallStates
      <3> QED  BY <1>s, <2>3, <3>1, CallFacts
    <2>5. HeldTokens'
      BY <2>1, <2>2, <2>3 DEF PhoneInv, HeldTokens, OnItsWay, Tokens, tokenVars
    <2>6. ASSUME NEW u \in People \union {NoOne}, OwnedBy(u) PROVE OwnedBy(u)'
      <3>1. \A q \in Requests : rq'[q].st \in {"sent", "replayed"} => rq'[q].acc.user \in {u, NoOne}
        BY <2>4, <2>6 DEF OwnedBy
      <3>2. OnItsWay' => refresh[renewal'.tok].user = u
        BY <2>1, <2>2, <2>6 DEF OwnedBy, OnItsWay
      <3> QED  BY <2>3, <2>6, <3>1, <3>2 DEF OwnedBy, tokenVars
    <2> QED  BY <1>j, <1>s, <2>1, <2>2, <2>3, <2>4, <2>5, <2>6, PhoneKeeps
  <1>4. CASE GivesUp(r) \/ ClearsAccess(r) \/ ClearsRefresh(r)
    <2>1. PICK c \in RequestState : rq' = [rq EXCEPT ![r] = c] /\ c.st \in {"clearing", "wiping", "leaving"}
      <3>1. \A st \in CallStates :
              /\ [rq[r] EXCEPT !.st = st] \in RequestState /\ [rq[r] EXCEPT !.st = st].st = st
              /\ [IdleRequest EXCEPT !.st = st] \in RequestState /\ [IdleRequest EXCEPT !.st = st].st = st
        BY <1>s, CallMoves
      <3> QED  BY <1>4, <3>1 DEF GivesUp, ClearsAccess, ClearsRefresh, CallStates
    <2>2. /\ rq' \in [Requests -> RequestState] /\ rq'[r].st \in {"clearing", "wiping", "leaving"}
          /\ \A q \in Requests : q # r => rq'[q] = rq[q]
      BY <1>s, <2>1, CallFacts
    <2>3. /\ UNCHANGED <<tokenVars, shown, signing, renewal, mixed>> /\ cut' \in BOOLEAN
          /\ store' = store \/ store' = Forget(store) \/ store' = [store EXCEPT !.ref = NoToken]
      BY <1>4, <1>s DEF GivesUp, ClearsAccess, ClearsRefresh
    <2>4. /\ store' \in StoreState /\ store'.ref \in {store.ref, NoToken}
          /\ store'.acc.user \in {store.acc.user, NoOne}
      BY <1>s, <2>3, StoreFacts
    <2>5. HeldTokens'
      BY <2>3, <2>4 DEF PhoneInv, HeldTokens, OnItsWay, Tokens, tokenVars
    <2>6. ASSUME NEW u \in People \union {NoOne}, OwnedBy(u) PROVE OwnedBy(u)'
      BY <2>2, <2>3, <2>4, <2>6 DEF OwnedBy, OnItsWay, tokenVars
    <2> QED  BY <1>j, <1>s, <2>2, <2>3, <2>4, <2>5, <2>6, PhoneKeeps
  <1> QED  BY <1>1, <1>2, <1>3, <1>4

\* logout, time, and a renewal that fails.
LEMMA LeavingStep ==
  ASSUME PhoneTypes, PhoneInv,
         \/ MobileExpire \/ RenewalLost \/ RenewalFails
         \/ \E r \in Requests : Leave(r) \/ LogoutDeletes(r) \/ LogoutShows(r)
  PROVE  PhoneTypes' /\ PhoneInv'
  <1>s. /\ store \in StoreState /\ rq \in [Requests -> RequestState] /\ renewal \in RenewalState
        /\ shown \in People \union {NoOne} /\ cut \in BOOLEAN /\ MobileTypeOK
    BY PhoneShape DEF PhoneTypes, MobileTypeOK
  <1>g. GivenUp(renewal) => late' \subseteq Tokens
    BY GivenUpFacts DEF PhoneTypes, PhoneInv, HeldTokens, OnItsWay
  <1>1. ASSUME NEW r \in Requests, Leave(r) \/ LogoutDeletes(r) \/ LogoutShows(r)
        PROVE  PhoneTypes' /\ PhoneInv'
    <2>1. PICK c \in RequestState : rq' = [rq EXCEPT ![r] = c] /\ c.st \in {"idle", "leaving", "left"}
      <3>1. \A st \in CallStates :
              [rq[r] EXCEPT !.st = st] \in RequestState /\ [rq[r] EXCEPT !.st = st].st = st
        BY <1>s, CallMoves
      <3> QED  BY <1>1, <3>1, IdleShapes DEF Leave, LogoutDeletes, LogoutShows, CallStates
    <2>2. /\ rq' \in [Requests -> RequestState] /\ rq'[r].st \in {"idle", "leaving", "left"}
          /\ \A q \in Requests : q # r => rq'[q] = rq[q]
      BY <1>s, <2>1, CallFacts
    <2>3. /\ UNCHANGED <<tokenVars, signing, renewal, cut, mixed>> /\ shown' \in {shown, NoOne}
          /\ store' = store \/ store' = Forget(store)
      BY <1>1 DEF Leave, LogoutDeletes, LogoutShows
    <2>4. /\ store' \in StoreState /\ store'.ref = store.ref
          /\ store'.acc.user \in {store.acc.user, NoOne}
      BY <1>s, <2>3, StoreFacts
    <2>5. HeldTokens'
      BY <2>3, <2>4 DEF PhoneInv, HeldTokens, OnItsWay, Tokens, tokenVars
    <2>6. ASSUME NEW u \in People \union {NoOne}, OwnedBy(u) PROVE OwnedBy(u)'
      BY <2>2, <2>3, <2>4, <2>6 DEF OwnedBy, OnItsWay, tokenVars
    <2>7. ~mixed => Joining'
      BY <2>2, <2>3, <2>4 DEF PhoneInv, Joining, Running
    <2> QED  BY <1>s, <2>2, <2>3, <2>4, <2>5, <2>6, <2>7, PhoneKeeps
  <1>2. CASE MobileExpire
    <2> DEFINE older(a) == [a EXCEPT !.fresh = FALSE]
    <2>1. \A a \in Access \union {NoAccess} : older(a) \in Access \union {NoAccess} /\ older(a).user = a.user
      <3>1. ASSUME NEW a \in Access PROVE older(a) \in Access /\ older(a).user = a.user
        BY DEF Access
      <3>2. older(NoAccess) = NoAccess
        <4>1. NoAccess \in [user : {NoOne}, fresh : {FALSE}]
          BY DEF NoAccess
        <4> QED  BY <4>1, Zenon
      <3> HIDE DEF older
      <3> QED  BY <3>1, <3>2
    <2>2. /\ store' = [store EXCEPT !.acc = older(store.acc)]
          /\ \A r \in Requests : rq'[r] = [rq[r] EXCEPT !.acc = older(rq[r].acc)]
          /\ DOMAIN rq' = Requests
          /\ UNCHANGED <<tokenVars, shown, signing, renewal, cut, mixed>>
      BY <1>2, <1>s DEF MobileExpire, tokenVars
    <2>3. store.acc \in Access \union {NoAccess} /\ \A r \in Requests : rq[r].acc \in Access \union {NoAccess}
      BY <1>s DEF StoreState, RequestState
    <2> HIDE DEF older
    <2>4. store' \in StoreState /\ store'.acc.user = store.acc.user /\ store'.ref = store.ref
      BY <1>s, <2>1, <2>2, <2>3 DEF StoreState
    <2>5. \A r \in Requests : /\ rq'[r] \in RequestState /\ rq'[r].st = rq[r].st
                              /\ rq'[r].acc.user = rq[r].acc.user
      BY <1>s, <2>1, <2>2, <2>3 DEF RequestState
    <2>6. rq' \in [Requests -> RequestState]
      <3>1. rq' = [r \in Requests |-> rq'[r]]
        BY <1>2 DEF MobileExpire
      <3> QED  BY <2>5, <3>1
    <2>7. HeldTokens'
      BY <2>2, <2>4 DEF PhoneInv, HeldTokens, OnItsWay, Tokens, tokenVars
    <2>8. ASSUME NEW u \in People \union {NoOne}, OwnedBy(u) PROVE OwnedBy(u)'
      BY <2>2, <2>4, <2>5, <2>8 DEF OwnedBy, OnItsWay, tokenVars
    <2>9. ~mixed => Joining'
      BY <2>2, <2>4, <2>5 DEF PhoneInv, Joining, Running
    <2> QED  BY <1>s, <2>2, <2>4, <2>6, <2>7, <2>8, <2>9, PhoneKeeps
  <1>3. CASE RenewalLost
    <2>1. /\ renewal' \in RenewalState /\ renewal'.st = "failed" /\ Running
          /\ UNCHANGED <<refresh, swept, store, shown, signing, rq, cut, mixed>> /\ GivenUp(renewal)
      BY <1>3, <1>s DEF RenewalLost, RenewalState, Running
    <2>2. HeldTokens'
      BY <2>1 DEF PhoneInv, HeldTokens, OnItsWay, Tokens
    <2>3. ASSUME NEW u \in People \union {NoOne}, OwnedBy(u) PROVE OwnedBy(u)'
      BY <2>1, <2>3 DEF OwnedBy, OnItsWay
    <2>4. ~mixed => Joining'
      BY <2>1 DEF PhoneInv, Joining
    <2> QED  BY <1>g, <1>s, <2>1, <2>2, <2>3, <2>4, PhoneKeepsRows
  <1>4. CASE RenewalFails
    <2> DEFINE failed == [IdleRequest EXCEPT !.st = "clearing"]
    <2>1. /\ renewal' = IdleRenewal /\ Running
          /\ rq' = [r \in Requests |-> IF rq[r].st = "waiting" THEN failed ELSE rq[r]]
          /\ UNCHANGED <<tokenVars, store, shown, signing, cut, mixed>>
      BY <1>4 DEF RenewalFails, Running
    <2>2. failed \in RequestState /\ failed.st = "clearing"
      BY IdleShapes DEF RequestState, CallStates
    <2> HIDE DEF failed
    <2>3. /\ rq' \in [Requests -> RequestState]
          /\ \A r \in Requests : rq'[r].st \in {"sent", "replayed"} => rq'[r] = rq[r]
      BY <1>s, <2>1, <2>2
    <2>4. HeldTokens'
      BY <2>1, IdleShapes DEF PhoneInv, HeldTokens, OnItsWay, Tokens, tokenVars
    <2>5. ASSUME NEW u \in People \union {NoOne}, OwnedBy(u) PROVE OwnedBy(u)'
      BY <2>1, <2>3, <2>5, IdleShapes DEF OwnedBy, OnItsWay, tokenVars
    <2>6. ~mixed => Joining'
      BY <2>1 DEF PhoneInv, Joining
    <2> QED  BY <1>s, <2>1, <2>3, <2>4, <2>5, <2>6, IdleShapes, PhoneKeeps
  <1> QED  BY <1>1, <1>2, <1>3, <1>4

\* The process ends and begins anew, in the middle of a login or not.
LEMMA RelaunchStep ==
  ASSUME PhoneTypes, PhoneInv, Relaunch
  PROVE  PhoneTypes' /\ PhoneInv'
  <1>s. /\ store \in StoreState /\ MobileTypeOK /\ TokensTypeOK /\ HeldTokens
        /\ cut \in BOOLEAN /\ mixed \in BOOLEAN
    BY PhoneShape DEF PhoneTypes, MobileTypeOK, PhoneInv
  <1>1. /\ rq' = [r \in Requests |-> IdleRequest] /\ renewal' = IdleRenewal /\ signing' = IdleSigning
        /\ UNCHANGED <<refresh, swept>> /\ cut' \in BOOLEAN /\ GivenUp(renewal)
        /\ mixed' = (mixed \/ HalfSignedIn)
    BY <1>s DEF Relaunch
  <1>2. late' \subseteq Tokens
    BY <1>1, GivenUpFacts DEF PhoneTypes, PhoneInv, HeldTokens, OnItsWay
  <1>3. TokensTypeOK' /\ UNCHANGED Tokens
    BY <1>1, <1>2, <1>s, SameTable DEF Tokens
  <1>4. rq' \in [Requests -> RequestState] /\ \A r \in Requests : rq'[r].st = "idle"
    BY <1>1, IdleShapes
  <1>5. /\ store' \in StoreState /\ store'.ref = store.ref /\ store'.acc.user \in {store.acc.user, NoOne}
        /\ shown' \in {store.acc.user, NoOne} /\ shown' \in People \union {NoOne}
    <2>1. store.acc.user \in People \union {NoOne}
      BY PhoneShape DEF PhoneTypes
    <2>2. store' = store \/ store' = Forget(store)
      BY DEF Relaunch
    <2>3. shown' \in {store.acc.user, NoOne}
      BY DEF Relaunch
    <2> QED  BY <1>s, <2>1, <2>2, <2>3, StoreFacts
  <1>6. MobileTypeOK'
    BY <1>1, <1>4, <1>5, <1>s, IdleShapes
       DEF MobileTypeOK, StoreState, RequestState, RenewalState, SigningState
  <1>7. HeldTokens' /\ Joining'
    BY <1>1, <1>3, <1>5, <1>s, IdleShapes DEF HeldTokens, OnItsWay, Joining
  <1>8. ASSUME ~mixed' PROVE \E u \in People \union {NoOne} : OwnedBy(u)'
    <2>1. ~mixed /\ ~HalfSignedIn /\ Joining
      BY <1>1, <1>8 DEF PhoneInv
    <2>2. ASSUME NEW u, store.acc.user \in {u, NoOne}, store.ref # NoToken => refresh[store.ref].user = u
          PROVE  OwnedBy(u)'
      BY <1>1, <1>4, <1>5, <2>2, IdleShapes DEF OwnedBy, OnItsWay
    <2>3. CASE signing.st \in {"idle", "served"}
      <3>1. PICK u \in People \union {NoOne} : OwnedBy(u)
        BY <2>1, <2>3 DEF PhoneInv
      <3> QED  BY <2>2, <3>1 DEF OwnedBy
    <2>4. CASE signing.st \in {"saved", "stored"}
      <3>1. /\ signing.user \in People /\ store.acc.user \in {signing.user, NoOne}
            /\ store.ref # NoToken => refresh[store.ref].user = signing.user
        BY <1>s, <2>1, <2>4 DEF HeldTokens, Joining, HalfSignedIn
      <3> QED  BY <2>2, <3>1
    <2> QED  BY <1>s, <2>3, <2>4, PhoneShape DEF SigningState
  <1> QED  BY <1>1, <1>3, <1>6, <1>7, <1>8, IdleShapes DEF PhoneTypes, PhoneInv

\* The renewal, on the server and back.
LEMMA RenewalStep ==
  ASSUME PhoneTypes, PhoneInv, RenewalRead \/ RenewalCommit \/ SaveAccess \/ SaveRefresh
  PROVE  PhoneTypes' /\ PhoneInv'
  <1>s. /\ store \in StoreState /\ rq \in [Requests -> RequestState] /\ renewal \in RenewalState
        /\ shown \in People \union {NoOne} /\ cut \in BOOLEAN /\ TokensTypeOK /\ MobileTypeOK
    BY PhoneShape DEF PhoneTypes, MobileTypeOK
  <1>j. UNCHANGED signing => (~mixed => Joining')
    BY DEF PhoneInv, Joining, Running, RenewalRead, RenewalCommit, SaveAccess, SaveRefresh
  <1>1. CASE RenewalRead
    <2>1. UNCHANGED <<store, shown, signing, rq, cut, mixed>> /\ renewal.st = "asked"
      BY <1>1 DEF RenewalRead
    <2>2. CASE Reused(renewal.tok)
      <3>1. /\ Sweep(renewal.tok) /\ renewal.tok \in Tokens /\ UNCHANGED late
            /\ renewal' = [renewal EXCEPT !.st = "failed"]
        BY <1>1, <2>2 DEF RenewalRead, Reused
      <3>2. TokensTypeOK' /\ UsersStay
        BY <1>s, <3>1, SweepFacts
      <3>3. renewal' \in RenewalState /\ renewal'.st = "failed"
        BY <1>s, <3>1 DEF RenewalState
      <3>4. MobileTypeOK'
        BY <2>1, <3>3 DEF PhoneTypes, MobileTypeOK, RenewalState
      <3>5. HeldTokens'
        BY <2>1, <3>2, <3>3 DEF PhoneInv, HeldTokens, OnItsWay, UsersStay, Tokens
      <3>6. ASSUME NEW u \in People \union {NoOne}, OwnedBy(u) PROVE OwnedBy(u)'
        BY <2>1, <3>2, <3>3, <3>6 DEF PhoneInv, HeldTokens, OwnedBy, OnItsWay, UsersStay
      <3> QED  BY <1>j, <2>1, <3>2, <3>4, <3>5, <3>6 DEF PhoneTypes, PhoneInv
    <2>3. CASE ~Reused(renewal.tok)
      <3>1. renewal' = [renewal EXCEPT !.st = "read"] /\ UNCHANGED tokenVars
        BY <1>1, <2>3 DEF RenewalRead
      <3>2. renewal' \in RenewalState /\ renewal'.st = "read" /\ renewal'.tok = renewal.tok
        BY <1>s, <3>1 DEF RenewalState
      <3>3. HeldTokens'
        BY <2>1, <3>1, <3>2 DEF PhoneInv, HeldTokens, OnItsWay, Tokens, tokenVars
      <3>4. ASSUME NEW u \in People \union {NoOne}, OwnedBy(u) PROVE OwnedBy(u)'
        BY <2>1, <3>1, <3>2, <3>4 DEF OwnedBy, OnItsWay, tokenVars
      <3> QED  BY <1>j, <1>s, <2>1, <3>1, <3>2, <3>3, <3>4, PhoneKeeps
    <2> QED  BY <2>2, <2>3
  <1>2. CASE RenewalCommit
    <2>1. /\ MayIssue /\ Rotate(renewal.tok) /\ UNCHANGED <<swept, late, store, shown, signing, rq, cut, mixed>>
          /\ renewal.st = "read" /\ renewal.tok \in Tokens
          /\ renewal' = [st |-> "granted", tok |-> NextId, by |-> refresh[renewal.tok].user]
      BY <1>2 DEF RenewalCommit, PhoneInv, HeldTokens, OnItsWay
    <2>2. /\ TokensTypeOK' /\ UsersStay /\ NextId \in DOMAIN refresh'
          /\ refresh'[NextId].user = refresh[renewal.tok].user
      BY <1>s, <2>1, RotateFacts
    <2>3. refresh[renewal.tok].user \in People /\ NextId \in TokenIds
      BY <1>s, <2>1, TableFacts DEF RefreshRow
    <2>4. MobileTypeOK'
      BY <2>1, <2>3 DEF PhoneTypes, MobileTypeOK
    <2>5. HeldTokens'
      BY <2>1, <2>2 DEF PhoneInv, HeldTokens, OnItsWay, UsersStay, Tokens
    <2>6. ASSUME NEW u \in People \union {NoOne}, OwnedBy(u) PROVE OwnedBy(u)'
      <3>1. refresh'[renewal'.tok].user = u
        BY <2>1, <2>2, <2>6 DEF OwnedBy, OnItsWay
      <3> QED  BY <2>1, <2>2, <2>6, <3>1 DEF PhoneInv, HeldTokens, OwnedBy, UsersStay
    <2> QED  BY <1>j, <2>1, <2>2, <2>4, <2>5, <2>6 DEF PhoneTypes, PhoneInv
  <1>3. CASE SaveAccess
    <2>1. /\ renewal.st = "granted" /\ renewal.by \in People /\ renewal.by = refresh[renewal.tok].user
          /\ UNCHANGED <<tokenVars, shown, signing, rq, cut, mixed>>
      BY <1>3, <1>s, TableFacts DEF SaveAccess, PhoneInv, HeldTokens, OnItsWay, RefreshRow, tokenVars
    <2>2. /\ store' \in StoreState /\ store'.ref = store.ref /\ store'.acc.user = renewal.by
      BY <1>3, <1>s, <2>1, StoreFacts DEF SaveAccess
    <2>3. /\ renewal' \in RenewalState /\ renewal'.st = "halfsaved"
          /\ renewal'.tok = renewal.tok /\ renewal'.by = renewal.by
      BY <1>3, <1>s DEF SaveAccess, RenewalState
    <2>4. HeldTokens'
      BY <2>1, <2>2, <2>3 DEF PhoneInv, HeldTokens, OnItsWay, Tokens, tokenVars
    <2>5. ASSUME NEW u \in People \union {NoOne}, OwnedBy(u) PROVE OwnedBy(u)'
      BY <2>1, <2>2, <2>3, <2>5 DEF OwnedBy, OnItsWay, tokenVars
    <2> QED  BY <1>j, <1>s, <2>1, <2>2, <2>3, <2>4, <2>5, PhoneKeeps
  <1>4. CASE SaveRefresh
    <2>1. /\ renewal.st = "halfsaved" /\ renewal.by \in People /\ renewal.by = refresh[renewal.tok].user
          /\ renewal.tok \in Tokens
          /\ UNCHANGED <<tokenVars, shown, signing, cut, mixed>> /\ renewal' = IdleRenewal
      BY <1>4, <1>s, TableFacts DEF SaveRefresh, PhoneInv, HeldTokens, OnItsWay, RefreshRow, tokenVars
    <2>2. store' \in StoreState /\ store'.ref = renewal.tok /\ store'.acc = store.acc
      BY <1>4, <1>s DEF SaveRefresh, StoreState, RenewalState
    <2>3. rq' = [r \in Requests |-> Replayed(rq[r])]
      BY <1>4 DEF SaveRefresh
    <2>4. ASSUME NEW r \in Requests
          PROVE  /\ Replayed(rq[r]) \in RequestState
                 /\ \/ Replayed(rq[r]) = rq[r]
                    \/ Replayed(rq[r]).st = "leaving"
                    \/ Replayed(rq[r]).acc.user \in {store.acc.user, renewal.by}
      <3>1. CASE rq[r].st # "waiting"
        BY <1>s, <3>1 DEF Replayed
      <3>2. CASE rq[r].st = "waiting" /\ Expired(store.acc)
        <4>1. /\ [IdleRequest EXCEPT !.st = "leaving"] \in RequestState
              /\ [IdleRequest EXCEPT !.st = "leaving"].st = "leaving"
          BY <1>s, CallMoves DEF CallStates
        <4> QED  BY <3>2, <4>1 DEF Replayed
      <3>3. CASE rq[r].st = "waiting" /\ ~Expired(store.acc)
        <4> DEFINE new == [user |-> renewal.by, fresh |-> TRUE]
                   now == IF store.acc.fresh THEN store.acc ELSE new
        <4>1. new \in Access /\ new.user = renewal.by
          BY <2>1 DEF Access
        <4>2. now \in Access \union {NoAccess} /\ now.user \in {store.acc.user, renewal.by}
          BY <1>s, <4>1 DEF StoreState
        <4>3. Replayed(rq[r]) = [st |-> "replayed", acc |-> now]
          BY <3>3 DEF Replayed
        <4> HIDE DEF now, new
        <4>4. [st |-> "replayed", acc |-> now] \in RequestState
          BY <4>2 DEF RequestState, CallStates
        <4> QED  BY <4>2, <4>3, <4>4
      <3> QED  BY <3>1, <3>2, <3>3
    <2>5. rq' \in [Requests -> RequestState] /\ \A r \in Requests : rq'[r] = Replayed(rq[r])
      BY <2>3, <2>4
    <2>6. HeldTokens'
      BY <2>1, <2>2, IdleShapes DEF PhoneInv, HeldTokens, OnItsWay, Tokens, tokenVars
    <2>7. ASSUME NEW u \in People \union {NoOne}, OwnedBy(u) PROVE OwnedBy(u)'
      <3>1. renewal.by = u
        BY <2>1, <2>7 DEF OwnedBy, OnItsWay
      <3>2. \A r \in Requests : rq'[r].st \in {"sent", "replayed"} => rq'[r].acc.user \in {u, NoOne}
        BY <2>4, <2>5, <2>7, <3>1 DEF OwnedBy
      <3> QED  BY <2>1, <2>2, <2>7, <3>1, <3>2, IdleShapes DEF OwnedBy, OnItsWay, tokenVars
    <2> QED  BY <1>j, <1>s, <2>1, <2>2, <2>5, <2>6, <2>7, IdleShapes, PhoneKeeps
  <1> QED  BY <1>1, <1>2, <1>3, <1>4

\* The server goes on without the phone.
LEMMA PhoneLateStep ==
  ASSUME PhoneTypes, PhoneInv, NEW t \in Tokens, LateCommit(t), UNCHANGED mobileVars
  PROVE  PhoneTypes' /\ PhoneInv'
  <1>1. TokensTypeOK' /\ UsersStay
    BY LateFacts DEF PhoneTypes
  <1>2. UNCHANGED <<store, shown, signing, rq, renewal, cut, mixed>>
    BY DEF mobileVars
  <1>3. MobileTypeOK'
    BY <1>2 DEF PhoneTypes, MobileTypeOK
  <1>4. HeldTokens'
    BY <1>1, <1>2 DEF PhoneInv, HeldTokens, OnItsWay, UsersStay, Tokens
  <1>5. ASSUME NEW u \in People \union {NoOne}, OwnedBy(u) PROVE OwnedBy(u)'
    BY <1>1, <1>2, <1>5 DEF PhoneInv, HeldTokens, OwnedBy, OnItsWay, UsersStay
  <1>6. Joining => Joining'
    BY <1>2 DEF Joining, Running
  <1> QED  BY <1>1, <1>2, <1>3, <1>4, <1>5, <1>6 DEF PhoneTypes, PhoneInv

LEMMA PhoneStep == PhoneTypes /\ PhoneInv /\ [MobileNext]_PhoneVars => PhoneTypes' /\ PhoneInv'
  <1> SUFFICES ASSUME PhoneTypes, PhoneInv, [MobileNext]_PhoneVars PROVE PhoneTypes' /\ PhoneInv'
    OBVIOUS
  <1>1. CASE UNCHANGED PhoneVars
    <2>1. PhoneTypes'
      BY <1>1 DEF PhoneVars, tokenVars, mobileVars, PhoneTypes, TokensTypeOK, Tokens, MobileTypeOK
    <2>2. HeldTokens' /\ (mixed' <=> mixed) /\ (Joining => Joining') /\ UNCHANGED signing
      BY <1>1 DEF PhoneVars, tokenVars, mobileVars, PhoneInv, HeldTokens, OnItsWay, Tokens, Joining, Running
    <2>3. \A u \in People \union {NoOne} : OwnedBy(u) => OwnedBy(u)'
      BY <1>1 DEF PhoneVars, tokenVars, mobileVars, OwnedBy, OnItsWay
    <2> QED  BY <2>1, <2>2, <2>3 DEF PhoneInv
  <1> QED  BY <1>1, SignInStep, LoginStep, RequestStep, LeavingStep, RelaunchStep, RenewalStep, PhoneLateStep
           DEF MobileNext

LEMMA PhoneStart == TokensInit /\ MobileInit => PhoneTypes /\ PhoneInv
  <1> SUFFICES ASSUME TokensInit, MobileInit PROVE PhoneTypes /\ PhoneInv
    OBVIOUS
  <1>1. TokensTypeOK
    <2>1. << >> \in Seq(RefreshRow) /\ Len(<< >>) = 0
      BY EmptySeq
    <2>2. refresh \in Seq(RefreshRow) /\ Len(refresh) = 0
      BY <2>1 DEF TokensInit
    <2>3. swept \in BOOLEAN /\ late = {}
      BY DEF TokensInit
    <2> QED  BY <2>2, <2>3, MaxRefreshAssumption DEF TokensTypeOK
  <1>2. /\ store \in StoreState /\ store.ref = NoToken /\ store.acc = NoAccess
        /\ shown = NoOne /\ signing = IdleSigning
        /\ renewal = IdleRenewal /\ rq = [r \in Requests |-> IdleRequest]
    BY MaxRefreshAssumption DEF MobileInit, StoreState, TokenIds, NoToken
  <1>3. MobileTypeOK
    <2>1. rq \in [Requests -> RequestState] /\ renewal \in RenewalState /\ signing \in SigningState
      BY <1>2, IdleShapes
    <2>2. cut \in BOOLEAN /\ mixed \in BOOLEAN
      BY DEF MobileInit
    <2> QED  BY <1>2, <2>1, <2>2 DEF MobileTypeOK, StoreState, RequestState, RenewalState, SigningState
  <1>4. HeldTokens
    BY <1>2, IdleShapes DEF HeldTokens, OnItsWay
  <1>5. OwnedBy(NoOne)
    BY <1>2, IdleShapes DEF OwnedBy, OnItsWay, NoAccess
  <1>6. Joining
    BY <1>2, IdleShapes DEF Joining
  <1> QED  BY <1>1, <1>3, <1>4, <1>5, <1>6 DEF PhoneTypes, PhoneInv

\* The phone and the table keep their types.
THEOREM PhoneTypesHold == MobileSpec => []PhoneTypes
  BY PhoneStart, PhoneStep, PTL DEF MobileSpec, PhoneVars

\* A user's calls carry his token or none, unless he signed in over what an
\* earlier user left behind or a sign-in stopped halfway.
THEOREM PhoneCalls == MobileSpec => []CallsAreTheUsers
  <1>1. PhoneTypes /\ PhoneInv => CallsAreTheUsers
    <2>2. ASSUME PhoneInv, shown # NoOne, ~mixed PROVE signing.st \in {"idle", "served"}
      BY <2>2 DEF PhoneInv, Joining
    <2> QED  BY <2>2 DEF PhoneInv, OwnedBy, CallsAreTheUsers
  <1> QED  BY <1>1, PhoneStart, PhoneStep, PTL DEF MobileSpec, PhoneVars

\* The token the phone presents next is live; so is the stored one, unless a
\* renewal has already replaced it or a call is about to delete it, and so is
\* the one a login is about to store.  What the server goes on to rotate is
\* none of the three.
StillHeld == renewal.st \in {"idle", "asked", "read"} /\ ~Clearing
Unsaved == signing.st \in {"served", "saved"} /\ signing.tok # NoToken

HeldLive ==
  /\ OnItsWay => Live(renewal.tok)
  /\ StillHeld /\ store.ref # NoToken => Live(store.ref)
  /\ Unsaved => /\ Live(signing.tok) /\ signing.tok # store.ref
                /\ OnItsWay => signing.tok # renewal.tok
  /\ \A t \in late : /\ Live(t)
                     /\ OnItsWay => t # renewal.tok
                     /\ Unsaved => t # signing.tok
                     /\ StillHeld => t # store.ref

\* Somebody waits for every renewal, and clears its token when it fails.
Awaited == Running => \E r \in Requests : rq[r].st = "waiting"

ReuseInv == LoginsBelow /\ Awaited /\ (~cut => ~swept /\ OneLive /\ HeldLive)

\* A step of one call or of the login that leaves the table alone, and deletes
\* the stored token if at all.
LEMMA HeldStep ==
  ASSUME UNCHANGED <<tokenVars, renewal>>, store'.ref \in {store.ref, NoToken},
         Unsaved' => Unsaved /\ signing'.tok = signing.tok,
         Clearing => Clearing' \/ store'.ref = NoToken,
         NoToken \notin Tokens, late \subseteq Tokens, HeldLive
  PROVE  HeldLive'
  <1>1. UNCHANGED <<refresh, late, Tokens, OnItsWay>> /\ (StillHeld' => StillHeld \/ store'.ref = NoToken)
    BY DEF tokenVars, Tokens, OnItsWay, StillHeld
  <1>2. \A t : Live(t)' <=> Live(t)
    BY <1>1 DEF Live
  <1>3. StillHeld' /\ store'.ref # NoToken => Live(store'.ref)
    BY <1>1 DEF HeldLive
  <1>4. Unsaved' => /\ Live(signing'.tok) /\ signing'.tok # store'.ref
                    /\ OnItsWay => signing'.tok # renewal'.tok
    BY DEF HeldLive, Unsaved
  <1>5. ASSUME NEW t \in late
        PROVE  /\ Live(t) /\ OnItsWay => t # renewal'.tok
               /\ Unsaved' => t # signing'.tok
               /\ StillHeld' => t # store'.ref
    BY <1>1, <1>5 DEF HeldLive
  <1> QED  BY <1>1, <1>2, <1>3, <1>4, <1>5 DEF HeldLive

\* The steps that change no row.
LEMMA ReuseKeeps ==
  ASSUME ReuseInv, refresh' = refresh, swept' = swept, cut => cut', Awaited',
         ~cut' => (HeldLive => HeldLive')
  PROVE  ReuseInv'
  <1>1. LoginsBelow'
    BY DEF ReuseInv, LoginsBelow, Tokens
  <1>2. ASSUME ~cut' PROVE ~swept' /\ OneLive' /\ HeldLive'
    BY <1>2 DEF ReuseInv, OneLive, Live, Tokens
  <1> QED  BY <1>1, <1>2 DEF ReuseInv

LEMMA CallReuse ==
  ASSUME PhoneTypes, PhoneInv, ReuseInv, NEW r \in Requests,
         \/ Leave(r) \/ LogoutDeletes(r) \/ LogoutShows(r) \/ Send(r) \/ Answered(r)
         \/ GivesUp(r) \/ ClearsAccess(r) \/ ClearsRefresh(r)
  PROVE  ReuseInv'
  <1>s. /\ MobileTypeOK /\ store \in StoreState /\ rq \in [Requests -> RequestState]
        /\ NoToken \notin Tokens /\ late \subseteq Tokens
    BY PhoneShape, TableFacts DEF PhoneTypes, TokensTypeOK
  <1>1. PICK c \in RequestState :
          /\ rq' = [rq EXCEPT ![r] = c] /\ c.st # "waiting" /\ rq[r].st # "waiting"
          /\ rq[r].st = "clearing" => c.st = "wiping"
          /\ rq[r].st = "wiping" => ClearsRefresh(r)
    <2>1. \A st \in CallStates :
            /\ [rq[r] EXCEPT !.st = st] \in RequestState /\ [rq[r] EXCEPT !.st = st].st = st
            /\ [IdleRequest EXCEPT !.st = st] \in RequestState /\ [IdleRequest EXCEPT !.st = st].st = st
      BY <1>s, CallMoves
    <2>2. CASE Leave(r) \/ LogoutDeletes(r) \/ LogoutShows(r)
      BY <2>1, <2>2, IdleShapes DEF Leave, LogoutDeletes, LogoutShows, CallStates
    <2>3. CASE Send(r)
      <3>1. [st |-> "sent", acc |-> store.acc] \in RequestState
        BY <1>s DEF RequestState, StoreState, CallStates
      <3> QED  BY <2>3, <3>1 DEF Send
    <2>4. CASE Answered(r) \/ GivesUp(r) \/ ClearsAccess(r) \/ ClearsRefresh(r)
      BY <2>1, <2>4, IdleShapes DEF Answered, GivesUp, ClearsAccess, ClearsRefresh, CallStates
    <2> QED  BY <2>2, <2>3, <2>4
  <1>2. rq'[r] = c /\ \A q \in Requests : q # r => rq'[q] = rq[q]
    BY <1>1, <1>s, CallFacts
  <1>3. /\ UNCHANGED <<tokenVars, signing, renewal>> /\ (cut => cut')
        /\ store' = store \/ store' = Forget(store) \/ store' = [store EXCEPT !.ref = NoToken]
        /\ ~cut' /\ ClearsRefresh(r) => store'.ref = NoToken
    <2>1. CASE Leave(r) \/ LogoutDeletes(r) \/ LogoutShows(r)
      <3>1. rq[r].st # "wiping"
        BY <2>1 DEF Leave, LogoutDeletes, LogoutShows
      <3> QED  BY <2>1, <3>1 DEF Leave, LogoutDeletes, LogoutShows, ClearsRefresh
    <2>2. CASE Send(r) \/ Answered(r) \/ GivesUp(r) \/ ClearsAccess(r)
      <3>1. rq[r].st # "wiping"
        BY <2>2 DEF Send, Answered, GivesUp, ClearsAccess
      <3> QED  BY <2>2, <3>1 DEF Send, Answered, GivesUp, ClearsAccess, ClearsRefresh
    <2>3. CASE ClearsRefresh(r)
      <3>1. CASE store' = [store EXCEPT !.ref = NoToken] /\ UNCHANGED cut
        BY <1>s, <2>3, <3>1, StoreFacts DEF ClearsRefresh
      <3>2. CASE cut' = TRUE /\ UNCHANGED store
        BY <2>3, <3>2 DEF ClearsRefresh
      <3> QED  BY <2>3, <3>1, <3>2 DEF ClearsRefresh
    <2> QED  BY <2>1, <2>2, <2>3
  <1>4. store'.ref \in {store.ref, NoToken}
    BY <1>3, <1>s, StoreFacts
  <1>5. Awaited'
    BY <1>1, <1>2, <1>3 DEF ReuseInv, Awaited, Running
  <1>6. ~cut' => (Clearing => Clearing' \/ store'.ref = NoToken)
    BY <1>1, <1>2, <1>3 DEF Clearing
  <1>7. ~cut' => (HeldLive => HeldLive')
    BY <1>3, <1>4, <1>6, <1>s, HeldStep DEF Unsaved
  <1> QED  BY <1>3, <1>5, <1>7, ReuseKeeps DEF tokenVars

LEMMA LoginReuse ==
  ASSUME PhoneTypes, PhoneInv, ReuseInv,
         LoginSavesAccess \/ LoginSavesRefresh \/ LoginShows \/ LoginFails
  PROVE  ReuseInv'
  <1>s. /\ MobileTypeOK /\ store \in StoreState /\ signing \in SigningState
        /\ NoToken \notin Tokens /\ late \subseteq Tokens /\ HeldTokens
    BY PhoneShape, TableFacts DEF PhoneTypes, TokensTypeOK, PhoneInv
  <1>1. UNCHANGED <<tokenVars, rq, renewal, cut>>
    BY DEF LoginSavesAccess, LoginSavesRefresh, LoginShows, LoginFails
  <1>2. Awaited' /\ (Clearing' <=> Clearing) /\ (StillHeld' <=> StillHeld)
    BY <1>1 DEF ReuseInv, Awaited, Running, Clearing, StillHeld
  <1>3. CASE LoginSavesAccess \/ LoginShows \/ LoginFails
    <2>1. LoginSavesAccess => signing.user \in People
      BY <1>s DEF LoginSavesAccess, HeldTokens
    <2>2. store'.ref = store.ref
      BY <1>3, <1>s, <2>1, StoreFacts DEF LoginSavesAccess, LoginShows, LoginFails
    <2>3. Unsaved' => Unsaved /\ signing'.tok = signing.tok
      BY <1>3, <1>s, IdleShapes DEF Unsaved, LoginSavesAccess, LoginShows, LoginFails, SigningState
    <2>4. HeldLive => HeldLive'
      BY <1>1, <1>2, <1>s, <2>2, <2>3, HeldStep
    <2> QED  BY <1>1, <1>2, <2>4, ReuseKeeps DEF tokenVars
  <1>4. CASE LoginSavesRefresh
    <2>1. /\ store'.ref = IF signing.tok = NoToken THEN store.ref ELSE signing.tok
          /\ signing.st = "saved" /\ ~Unsaved'
      BY <1>4, <1>s DEF LoginSavesRefresh, StoreState, SigningState, Unsaved
    <2>2. HeldLive => HeldLive'
      BY <1>1, <1>2, <2>1 DEF HeldLive, Unsaved, OnItsWay, Live, Tokens, tokenVars
    <2> QED  BY <1>1, <1>2, <2>2, ReuseKeeps DEF tokenVars
  <1> QED  BY <1>3, <1>4

LEMMA ReuseStep ==
  PhoneTypes /\ PhoneInv /\ ReuseInv /\ [MobileNext]_PhoneVars => ReuseInv'
  <1> SUFFICES ASSUME PhoneTypes, PhoneInv, ReuseInv, [MobileNext]_PhoneVars PROVE ReuseInv'
    OBVIOUS
  <1>s. /\ store \in StoreState /\ rq \in [Requests -> RequestState] /\ renewal \in RenewalState
        /\ cut \in BOOLEAN /\ TokensTypeOK /\ MobileTypeOK /\ HeldTokens /\ Awaited
    BY PhoneShape DEF PhoneTypes, MobileTypeOK, PhoneInv, ReuseInv
  <1>i. /\ IdleRenewal.st = "idle" /\ Forget(store).ref = store.ref
        /\ late \subseteq Tokens /\ NoToken \notin Tokens
    BY <1>s, IdleShapes, TableFacts, StoreFacts DEF TokensTypeOK
  <1>1. CASE UNCHANGED PhoneVars
    <2>1. UNCHANGED <<tokenVars, store, signing, rq, renewal, cut>>
      BY <1>1 DEF PhoneVars, mobileVars
    <2>2. Awaited' /\ (Clearing' <=> Clearing) /\ (Unsaved' <=> Unsaved)
      BY <1>s, <2>1 DEF Awaited, Running, Clearing, Unsaved
    <2>3. HeldLive => HeldLive'
      BY <1>i, <2>1, <2>2, HeldStep
    <2> QED  BY <2>1, <2>2, <2>3, ReuseKeeps DEF tokenVars
  <1>2. ASSUME NEW p \in People, NEW both \in BOOLEAN, SignIn(p, both) PROVE ReuseInv'
    <2>1. /\ MayIssue /\ Issue(p) /\ UNCHANGED <<swept, late, cut, renewal, store, rq>>
          /\ signing'.st = "served" /\ signing'.tok = IF both THEN NextId ELSE NoToken
      BY <1>2 DEF SignIn
    <2>2. LoginsBelow' /\ Awaited'
      BY <1>s, <2>1, LoginsKept DEF ReuseInv, Awaited, Running
    <2>3. ASSUME ~cut PROVE OneLive' /\ HeldLive'
      <3>1. OneLive' /\ HeldLive
        BY <1>s, <2>1, <2>3, OneLiveKept DEF ReuseInv
      <3>2. /\ Tokens' = Tokens \union {NextId} /\ refresh'[NextId].live /\ NextId \notin Tokens
            /\ \A s \in Tokens : refresh'[s] = refresh[s]
        BY <1>s, <2>1, IssueRows
      <3>3. \A s \in Tokens : s # NextId /\ (Live(s)' <=> Live(s))
        BY <3>2 DEF Live
      <3>4. NextId \in Tokens' /\ NextId # NoToken
        BY <1>s, <2>1, <3>2, TableFacts
      <3>5. /\ OnItsWay' <=> OnItsWay
            /\ StillHeld' <=> StillHeld
            /\ Unsaved' => signing'.tok = NextId
        BY <2>1 DEF OnItsWay, StillHeld, Clearing, Unsaved
      <3>6. OnItsWay => renewal.tok \in Tokens /\ Live(renewal.tok)'
        BY <1>s, <2>1, <3>1, <3>3 DEF HeldTokens, HeldLive
      <3>7. StillHeld /\ store.ref # NoToken => Live(store.ref)'
        BY <1>s, <2>1, <3>1, <3>3 DEF HeldTokens, HeldLive
      <3>8. NextId # store.ref
        BY <1>s, <3>2, <3>4 DEF HeldTokens
      <3>9. \A t \in late : t \in Tokens /\ Live(t)' /\ t # NextId
        BY <1>i, <3>1, <3>3 DEF HeldLive
      <3>10. HeldLive'
        BY <2>1, <3>1, <3>2, <3>4, <3>5, <3>6, <3>7, <3>8, <3>9 DEF HeldLive, Live
      <3> QED  BY <3>1, <3>10
    <2> QED  BY <2>1, <2>2, <2>3 DEF ReuseInv
  <1>3. CASE MobileExpire
    <2>1. UNCHANGED <<tokenVars, signing, renewal, cut>> /\ store'.ref = store.ref
      BY <1>3, <1>s DEF MobileExpire, StoreState, tokenVars
    <2>2. \A r \in Requests : rq'[r].st = rq[r].st
      BY <1>3, <1>s DEF MobileExpire, RequestState
    <2>3. Awaited' /\ (Clearing => Clearing') /\ (Unsaved' <=> Unsaved)
      BY <1>s, <2>1, <2>2 DEF Awaited, Running, Clearing, Unsaved
    <2>4. HeldLive => HeldLive'
      BY <1>i, <2>1, <2>3, HeldStep
    <2> QED  BY <2>1, <2>3, <2>4, ReuseKeeps DEF tokenVars
  <1>4. CASE Relaunch
    <2>1. /\ refresh' = refresh /\ swept' = swept /\ renewal' = IdleRenewal /\ store'.ref = store.ref
          /\ cut' = (cut \/ Running \/ Clearing) /\ GivenUp(renewal)
          /\ signing' = IdleSigning
      BY <1>4, <1>i DEF Relaunch
    <2>2. ~cut' => renewal.st = "idle" /\ ~Clearing /\ late' = late
      BY <2>1 DEF Running, GivenUp
    <2>3. Awaited' /\ ~Unsaved'
      BY <2>1, IdleShapes DEF Awaited, Running, Unsaved
    <2>4. ~cut' => (HeldLive => HeldLive')
      BY <1>i, <2>1, <2>2, <2>3 DEF HeldLive, OnItsWay, StillHeld, Live, Tokens
    <2> QED  BY <2>1, <2>3, <2>4, ReuseKeeps
  <1>5. ASSUME NEW r \in Requests, Waits(r) PROVE ReuseInv'
    <2> DEFINE asked == [st |-> IF store.ref = NoToken THEN "failed" ELSE "asked",
                         tok |-> store.ref, by |-> NoOne]
    <2>1. /\ UNCHANGED <<tokenVars, store, signing>> /\ renewal' = IF Running THEN renewal ELSE asked
          /\ asked.tok = store.ref /\ asked.st = IF store.ref = NoToken THEN "failed" ELSE "asked"
          /\ cut' = (cut \/ (~Running /\ Clearing /\ store.ref # NoToken))
          /\ rq' = [rq EXCEPT ![r] = [IdleRequest EXCEPT !.st = "waiting"]] /\ rq[r].st = "sent"
      BY <1>5 DEF Waits, tokenVars
    <2> HIDE DEF asked
    <2>2. rq'[r].st = "waiting" /\ \A q \in Requests : q # r => rq'[q] = rq[q]
      <3>1. /\ [IdleRequest EXCEPT !.st = "waiting"] \in RequestState
            /\ [IdleRequest EXCEPT !.st = "waiting"].st = "waiting"
        BY <1>s, CallMoves DEF CallStates
      <3> QED  BY <1>s, <2>1, <3>1, CallFacts
    <2>3. Awaited' /\ (Clearing' <=> Clearing) /\ (Unsaved' <=> Unsaved)
      BY <2>1, <2>2 DEF Awaited, Clearing, Unsaved
    <2>4. CASE Running
      <3>1. HeldLive => HeldLive'
        BY <1>i, <2>1, <2>3, <2>4, HeldStep
      <3> QED  BY <2>1, <2>3, <3>1, ReuseKeeps DEF tokenVars
    <2>5. CASE ~Running
      <3>1. ~cut' => (HeldLive => HeldLive')
        BY <2>1, <2>3, <2>5 DEF HeldLive, OnItsWay, StillHeld, Live, Tokens, tokenVars, Running, Unsaved
      <3> QED  BY <2>1, <2>3, <3>1, ReuseKeeps DEF tokenVars
    <2> QED  BY <2>4, <2>5
  <1>6. CASE RenewalRead
    <2>1. renewal.st = "asked" /\ UNCHANGED <<store, signing, rq, cut>> /\ renewal.tok \in Tokens
      BY <1>6, <1>s DEF RenewalRead, HeldTokens, OnItsWay
    <2>2. Awaited' /\ (Clearing' <=> Clearing) /\ (Unsaved' <=> Unsaved)
      BY <1>s, <2>1 DEF Awaited, Running, Clearing, Unsaved
    <2>3. CASE Reused(renewal.tok)
      <3>1. Sweep(renewal.tok)
        BY <1>6, <2>3 DEF RenewalRead
      <3>2. LoginsBelow'
        BY <1>s, <2>1, <3>1, LoginsKept DEF ReuseInv
      <3>3. cut
        BY <2>1, <2>3 DEF ReuseInv, HeldLive, OnItsWay, Live, Reused
      <3> QED  BY <2>1, <2>2, <3>2, <3>3 DEF ReuseInv
    <2>4. CASE ~Reused(renewal.tok)
      <3>1. UNCHANGED tokenVars /\ renewal' = [renewal EXCEPT !.st = "read"]
        BY <1>6, <2>4 DEF RenewalRead
      <3>2. renewal'.st = "read" /\ renewal'.tok = renewal.tok
        BY <1>s, <3>1 DEF RenewalState
      <3>3. /\ OnItsWay /\ OnItsWay' /\ UNCHANGED <<refresh, late>>
            /\ (StillHeld' <=> StillHeld)
        BY <2>1, <2>2, <3>1, <3>2 DEF OnItsWay, StillHeld, tokenVars
      <3>4. HeldLive => HeldLive'
        BY <2>1, <2>2, <3>2, <3>3 DEF HeldLive, Live, Tokens
      <3> QED  BY <2>1, <2>2, <3>1, <3>4, ReuseKeeps DEF tokenVars
    <2> QED  BY <2>3, <2>4
  <1>7. CASE RenewalCommit
    <2>1. /\ renewal.st = "read" /\ MayIssue /\ Rotate(renewal.tok) /\ renewal.tok \in Tokens
          /\ renewal'.st = "granted" /\ renewal'.tok = NextId
          /\ UNCHANGED <<swept, late, store, signing, rq, cut>>
      BY <1>7, <1>s DEF RenewalCommit, HeldTokens, OnItsWay
    <2>2. LoginsBelow' /\ Awaited'
      BY <1>s, <2>1, LoginsKept DEF ReuseInv, Awaited, Running
    <2>3. ASSUME ~cut PROVE OneLive' /\ HeldLive'
      <3>1. Live(renewal.tok) /\ OneLive /\ HeldLive /\ OnItsWay
        BY <2>1, <2>3 DEF ReuseInv, HeldLive, OnItsWay
      <3>2. OneLive'
        BY <1>s, <2>1, <2>2, <3>1, OneLiveKept DEF ReuseInv
      <3>3. /\ NextId \in Tokens' /\ refresh'[NextId].live /\ NextId \notin Tokens
            /\ \A s : Live(s) /\ s # renewal.tok => Live(s)'
        BY <1>s, <2>1, RotateRows DEF Live
      <3>4. \A t \in late : Live(t)' /\ t # NextId
        BY <1>i, <3>1, <3>3 DEF HeldLive
      <3>5. Unsaved => Live(signing.tok)' /\ signing.tok # NextId
        BY <2>1, <3>1, <3>3 DEF HeldLive, Live
      <3>6. ~StillHeld' /\ (Unsaved' <=> Unsaved)
        BY <2>1 DEF StillHeld, Unsaved
      <3>7. HeldLive'
        BY <2>1, <3>1, <3>3, <3>4, <3>5, <3>6 DEF HeldLive, Live
      <3> QED  BY <3>2, <3>7
    <2> QED  BY <2>1, <2>2, <2>3 DEF ReuseInv
  <1>8. CASE RenewalLost
    <2>1. /\ UNCHANGED <<refresh, swept, cut, store, signing, rq>> /\ renewal'.st = "failed" /\ OnItsWay
          /\ (late' = late \/ late' = late \union {renewal.tok})
      BY <1>8, <1>s DEF RenewalLost, RenewalState, GivenUp, OnItsWay
    <2>2. Awaited' /\ ~OnItsWay' /\ ~StillHeld' /\ (Unsaved' <=> Unsaved)
      BY <1>s, <2>1 DEF Awaited, Running, OnItsWay, StillHeld, Unsaved
    <2>3. HeldLive => HeldLive'
      BY <2>1, <2>2 DEF HeldLive, Live, Tokens
    <2> QED  BY <2>1, <2>2, <2>3, ReuseKeeps
  <1>9. CASE SaveAccess
    <2>0. renewal.st = "granted" /\ renewal.by \in People
      BY <1>9, <1>s, TableFacts DEF SaveAccess, HeldTokens, OnItsWay, RefreshRow
    <2>1. /\ UNCHANGED <<tokenVars, cut, signing, rq>> /\ store'.ref = store.ref
          /\ renewal.st = "granted" /\ renewal'.st = "halfsaved" /\ renewal'.tok = renewal.tok
      BY <1>9, <1>s, <2>0, StoreFacts DEF SaveAccess, RenewalState
    <2>2. Awaited' /\ OnItsWay /\ OnItsWay' /\ ~StillHeld' /\ (Unsaved' <=> Unsaved)
      BY <1>s, <2>1 DEF Awaited, Running, OnItsWay, StillHeld, Unsaved
    <2>3. HeldLive => HeldLive'
      BY <2>1, <2>2 DEF HeldLive, Live, Tokens, tokenVars
    <2> QED  BY <2>1, <2>2, <2>3, ReuseKeeps DEF tokenVars
  <1>10. CASE SaveRefresh
    <2>1. /\ UNCHANGED <<tokenVars, cut, signing>> /\ store'.ref = renewal.tok
          /\ renewal.st = "halfsaved" /\ renewal'.st = "idle"
      BY <1>10, <1>s, <1>i DEF SaveRefresh, StoreState, RenewalState, tokenVars
    <2>2. Awaited' /\ OnItsWay /\ ~OnItsWay' /\ (Unsaved' <=> Unsaved)
      BY <1>s, <2>1 DEF Awaited, Running, OnItsWay, Unsaved
    <2>3. HeldLive => HeldLive'
      BY <2>1, <2>2 DEF HeldLive, Live, Tokens, tokenVars
    <2> QED  BY <2>1, <2>2, <2>3, ReuseKeeps DEF tokenVars
  <1>11. CASE RenewalFails
    <2>1. /\ UNCHANGED <<tokenVars, cut, store, signing>> /\ renewal.st = "failed"
          /\ renewal'.st = "idle"
          /\ \A r \in Requests : rq[r].st = "waiting" => rq'[r] = [IdleRequest EXCEPT !.st = "clearing"]
      BY <1>11, <1>i DEF RenewalFails, tokenVars
    <2>2. [IdleRequest EXCEPT !.st = "clearing"].st = "clearing"
      BY IdleShapes DEF RequestState
    <2>3. Clearing'
      BY <1>s, <2>1, <2>2 DEF Awaited, Running, Clearing
    <2>4. Awaited' /\ ~OnItsWay' /\ ~StillHeld' /\ (Unsaved' <=> Unsaved)
      BY <2>1, <2>3 DEF Awaited, Running, OnItsWay, StillHeld, Unsaved
    <2>5. HeldLive => HeldLive'
      BY <2>1, <2>4 DEF HeldLive, Live, Tokens, tokenVars
    <2> QED  BY <2>1, <2>4, <2>5, ReuseKeeps DEF tokenVars
  <1>12. ASSUME NEW l \in Tokens, LateCommit(l), UNCHANGED mobileVars PROVE ReuseInv'
    <2>1. /\ l \in late /\ MayIssue /\ Rotate(l) /\ late' = late \ {l}
          /\ UNCHANGED <<swept, store, signing, rq, renewal, cut>>
      BY <1>12 DEF LateCommit, mobileVars
    <2>2. LoginsBelow' /\ Awaited'
      BY <1>s, <2>1, LoginsKept DEF ReuseInv, Awaited, Running
    <2>3. ASSUME ~cut PROVE OneLive' /\ HeldLive'
      <3>1. Live(l) /\ OneLive /\ HeldLive
        BY <2>1, <2>3 DEF ReuseInv, HeldLive
      <3>2. OneLive'
        BY <1>s, <2>1, <2>2, <3>1, OneLiveKept DEF ReuseInv
      <3>3. \A s : Live(s) /\ s # l => Live(s)'
        BY <1>s, <2>1, RotateRows DEF Live
      <3>4. (StillHeld' <=> StillHeld) /\ (OnItsWay' <=> OnItsWay) /\ (Unsaved' <=> Unsaved)
        BY <2>1 DEF StillHeld, Clearing, OnItsWay, Unsaved
      <3>5. HeldLive'
        BY <2>1, <3>1, <3>3, <3>4 DEF HeldLive
      <3> QED  BY <3>2, <3>5
    <2> QED  BY <2>1, <2>2, <2>3 DEF ReuseInv
  <1> QED  BY <1>1, <1>2, <1>3, <1>4, <1>5, <1>6, <1>7, <1>8, <1>9, <1>10, <1>11, <1>12,
              CallReuse, LoginReuse DEF MobileNext

LEMMA ReuseStart == TokensInit /\ MobileInit => ReuseInv
  <1> SUFFICES ASSUME TokensInit, MobileInit PROVE ReuseInv
    OBVIOUS
  <1>1. Tokens = {} /\ ~swept /\ late = {}
    BY DEF TokensInit, Tokens
  <1>2. store.ref = NoToken /\ renewal.st = "idle" /\ signing.st = "idle"
    BY IdleShapes DEF MobileInit
  <1> QED  BY <1>1, <1>2
           DEF ReuseInv, LoginsBelow, OneLive, HeldLive, OnItsWay, StillHeld, Unsaved, Awaited, Running

LEMMA ReuseMeans == ReuseInv => MobileReuseExplained
  BY DEF ReuseInv, OneLive, MobileReuseExplained, Forked

\* A phone presents no revoked token and holds no two live ones of one login,
\* unless the token of a renewal stayed stored.
THEOREM PhoneReuse == MobileSpec => []MobileReuseExplained
  BY ReuseStart, ReuseMeans, PhoneStart, PhoneStep, ReuseStep, PTL DEF MobileSpec, PhoneVars

LEMMA PhoneChainStep ==
  PhoneTypes /\ PhoneInv /\ ReuseInv /\ ReuseInv' /\ ~cut /\ ~cut' /\ [MobileNext]_PhoneVars
    => [Chains!Next]_(Chains!chainVars)
  <1> SUFFICES ASSUME PhoneTypes, PhoneInv, ReuseInv, ReuseInv', ~cut, ~cut', [MobileNext]_PhoneVars,
                      refresh' # refresh
               PROVE  Chains!Next
    BY ChainsStay
  <1>1. TokensTypeOK /\ LoginsBelow /\ OneLive /\ HeldLive /\ ~swept'
    BY DEF PhoneTypes, ReuseInv
  <1>2. ASSUME NEW p \in People, NEW both \in BOOLEAN, SignIn(p, both) PROVE Chains!Next
    BY <1>1, <1>2, IssueBegins DEF SignIn, Chains!Next
  <1>3. CASE RenewalCommit
    <2>1. MayIssue /\ Rotate(renewal.tok) /\ Live(renewal.tok) /\ renewal.tok \in Tokens
      BY <1>1, <1>3 DEF RenewalCommit, HeldLive, OnItsWay, Live
    <2> QED  BY <1>1, <2>1, RotateRenews DEF Chains!Next
  <1>4. ASSUME NEW t \in Tokens, LateCommit(t) PROVE Chains!Next
    <2>1. MayIssue /\ Rotate(t) /\ Live(t)
      BY <1>1, <1>4 DEF LateCommit, HeldLive
    <2> QED  BY <1>1, <2>1, RotateRenews DEF Chains!Next
  <1>5. ~RenewalRead
    BY <1>1 DEF RenewalRead, Sweep, tokenVars
  <1>6. /\ ~LoginSavesAccess /\ ~LoginSavesRefresh /\ ~LoginShows /\ ~LoginFails
        /\ ~MobileExpire /\ ~Relaunch /\ ~RenewalLost
        /\ ~SaveAccess /\ ~SaveRefresh /\ ~RenewalFails
    BY DEF LoginSavesAccess, LoginSavesRefresh, LoginShows, LoginFails, MobileExpire, Relaunch,
           RenewalLost, SaveAccess, SaveRefresh, RenewalFails, tokenVars
  <1>7. \A r \in Requests : /\ ~Leave(r) /\ ~LogoutDeletes(r) /\ ~LogoutShows(r)
                            /\ ~Send(r) /\ ~Answered(r) /\ ~Waits(r) /\ ~GivesUp(r)
                            /\ ~ClearsAccess(r) /\ ~ClearsRefresh(r)
    BY DEF Leave, LogoutDeletes, LogoutShows, Send, Answered, Waits, GivesUp, ClearsAccess,
           ClearsRefresh, tokenVars
  <1> QED  BY <1>2, <1>3, <1>4, <1>5, <1>6, <1>7 DEF MobileNext, PhoneVars, tokenVars

\* As long as no token outlives its renewal in the store, every login of a phone
\* hands one working token on and never goes back to an older one, rotations
\* that outlive their call included.
THEOREM PhoneChains == MobileSpec /\ []~cut => Chains!Spec
  BY ChainsStart, PhoneStart, ReuseStart, PhoneStep, ReuseStep, PhoneChainStep, PTL
     DEF MobileSpec, PhoneVars, Chains!Spec

-----------------------------------------------------------------------------
(* The browser *)

CookieState == [acc : Passes, ref : TokenIds]
TabState == [shown : People \union {NoOne}, bearer : Passes, where : {"login", "app"},
             doing : {"nothing", "me", "leaving", "left"}]
TabRenewalState == [st : {"idle", "asked", "read", "granted", "failed"},
                    tok : TokenIds, by : People \union {NoOne}]

BrowserTypes == TokensTypeOK /\ WebTypeOK
BrowserVars == <<tokenVars, webVars>>

Asking(x) == tabRenewal[x].st \in {"asked", "read", "granted"}

\* What a tab can look like: while it renews, its bearer is past its exp and it
\* shows somebody or is about to; its renewal presents a row of the table.
TabShape(x) ==
  /\ tabRenewal[x].st # "idle" =>
       /\ ~tab[x].bearer.fresh
       /\ tab[x].shown # NoOne \/ tab[x].doing = "me"
       /\ tab[x].doing # "left"
  /\ tab[x].doing \in {"leaving", "left"} => tab[x].shown # NoOne
  /\ Asking(x) => tabRenewal[x].tok \in Tokens
  /\ tabRenewal[x].st = "granted" => tabRenewal[x].by = refresh[tabRenewal[x].tok].user

CookieHeld == cookie.ref \in Tokens \union {NoToken}

\* What works of the cookies, and of a tab, is u's.
CookieOf(u) ==
  /\ cookie.acc.user \in {u, NoOne}
  /\ cookie.ref # NoToken => refresh[cookie.ref].user = u

TabOf(x, u) ==
  /\ tab[x].shown \in {u, NoOne}
  /\ tab[x].bearer.fresh => tab[x].bearer.user = u
  /\ tab[x].shown # NoOne => tab[x].bearer.user \in {u, NoOne}
  /\ Asking(x) => refresh[tabRenewal[x].tok].user = u

BrowserOf(u) == CookieOf(u) /\ \A x \in Tabs : TabOf(x, u)

BrowserInv ==
  /\ CookieHeld /\ \A x \in Tabs : TabShape(x)
  /\ ~strangers => \E u \in People \union {NoOne} : BrowserOf(u)

LEMMA WebShape ==
  ASSUME WebTypeOK
  PROVE  /\ cookie \in CookieState /\ tab \in [Tabs -> TabState]
         /\ tabRenewal \in [Tabs -> TabRenewalState]
         /\ cookie.acc \in Passes /\ \A x \in Tabs : tab[x] \in TabState /\ tab[x].bearer \in Passes
  BY DEF WebTypeOK, CookieState, TabState, TabRenewalState

LEMMA PassFacts ==
  /\ NoPass \in Passes /\ NoPass.user = NoOne /\ ~NoPass.fresh /\ NoOne \notin People
  /\ \A p \in People : Pass(p) \in Passes /\ Pass(p).user = p /\ Pass(p).fresh
  /\ \A a \in Passes : a.user \in People \union {NoOne} /\ a.fresh \in BOOLEAN
                       /\ (a.fresh => a.user \in People)
  <1>1. NoPass \in Passes /\ NoPass.user = NoOne /\ NoPass.fresh = FALSE /\ NoOne \notin People
    BY PeopleAssumption DEF Passes, NoPass
  <1>2. \A p \in People : Pass(p) \in [user : People, fresh : BOOLEAN] /\ Pass(p).user = p /\ Pass(p).fresh = TRUE
    BY DEF Pass
  <1>3. ASSUME NEW a \in [user : People, fresh : BOOLEAN] PROVE a.user \in People /\ a.fresh \in BOOLEAN
    OBVIOUS
  <1>4. \A a \in Passes : a = NoPass \/ a \in [user : People, fresh : BOOLEAN]
    BY DEF Passes
  <1>5. [user : People, fresh : BOOLEAN] \subseteq Passes
    BY DEF Passes
  <1> QED  BY <1>1, <1>2, <1>3, <1>4, <1>5

LEMMA NoRenewalFacts == NoRenewal \in TabRenewalState /\ NoRenewal.st = "idle"
  BY MaxRefreshAssumption DEF NoRenewal, TabRenewalState, NoToken, TokenIds

\* What a step of one tab has to show.
LEMMA OneTab ==
  ASSUME BrowserTypes, BrowserInv, NEW t \in Tabs, UsersStay, TokensTypeOK',
         cookie' \in CookieState, tab' \in [Tabs -> TabState], tabRenewal' \in [Tabs -> TabRenewalState],
         \A x \in Tabs : x # t => tab'[x] = tab[x] /\ tabRenewal'[x] = tabRenewal[x],
         crossed' \in BOOLEAN, dropped' \in BOOLEAN, UNCHANGED strangers,
         CookieHeld', TabShape(t)',
         \A u \in People \union {NoOne} : BrowserOf(u) => CookieOf(u)' /\ TabOf(t, u)'
  PROVE  BrowserTypes' /\ BrowserInv'
  <1>1. BrowserTypes'
    BY DEF BrowserTypes, WebTypeOK, CookieState, TabState, TabRenewalState
  <1>2. ASSUME NEW x \in Tabs PROVE TabShape(x)'
    <2>1. CASE x = t
      BY <2>1
    <2>2. CASE x # t
      <3>1. TabShape(x) /\ tab'[x] = tab[x] /\ tabRenewal'[x] = tabRenewal[x]
        BY <2>2 DEF BrowserInv
      <3>2. Asking(x)' <=> Asking(x)
        BY <3>1 DEF Asking
      <3>3. Asking(x) => tabRenewal[x].tok \in Tokens' /\ refresh'[tabRenewal[x].tok].user = refresh[tabRenewal[x].tok].user
        BY <3>1 DEF TabShape, UsersStay, Tokens
      <3> QED  BY <3>1, <3>2, <3>3 DEF TabShape, Asking
    <2> QED  BY <2>1, <2>2
  <1>3. ASSUME NEW u \in People \union {NoOne}, BrowserOf(u) PROVE BrowserOf(u)'
    <2>1. ASSUME NEW x \in Tabs, x # t PROVE TabOf(x, u)'
      <3>1. TabOf(x, u) /\ TabShape(x) /\ tab'[x] = tab[x] /\ tabRenewal'[x] = tabRenewal[x]
        BY <1>3, <2>1 DEF BrowserInv, BrowserOf
      <3>2. Asking(x)' <=> Asking(x)
        BY <3>1 DEF Asking
      <3>3. Asking(x) => refresh'[tabRenewal[x].tok].user = refresh[tabRenewal[x].tok].user
        BY <3>1 DEF TabShape, UsersStay
      <3> QED  BY <3>1, <3>2, <3>3 DEF TabOf
    <2>2. CookieOf(u)' /\ TabOf(t, u)'
      BY <1>3
    <2> QED  BY <2>1, <2>2 DEF BrowserOf
  <1> QED  BY <1>1, <1>2, <1>3 DEF BrowserInv

LEMMA WebLoginStep ==
  ASSUME BrowserTypes, BrowserInv, NEW t \in Tabs, NEW p \in People, WebLogin(t, p)
  PROVE  BrowserTypes' /\ BrowserInv'
  <1>1. TokensTypeOK /\ MayIssue /\ Issue(p) /\ UNCHANGED <<swept, late>>
    BY DEF WebLogin, BrowserTypes
  <1>2. TokensTypeOK' /\ UsersStay /\ NextId \in DOMAIN refresh' /\ refresh'[NextId].user = p
    BY <1>1, IssueFacts
  <1>3. NextId \in TokenIds
    BY <1>1, TableFacts
  <1>s. /\ cookie \in CookieState /\ tab \in [Tabs -> TabState]
        /\ tabRenewal \in [Tabs -> TabRenewalState] /\ dropped \in BOOLEAN
        /\ Pass(p) \in Passes /\ Pass(p).user = p /\ p # NoOne
    BY WebShape, PassFacts DEF BrowserTypes, WebTypeOK
  <1>4. /\ cookie' = [acc |-> Pass(p), ref |-> NextId] /\ cookie' \in CookieState
        /\ tab' = [tab EXCEPT ![t] = [tab[t] EXCEPT !.bearer = Pass(p), !.doing = "me"]]
        /\ tabRenewal' = tabRenewal /\ dropped' = dropped
        /\ crossed' \in BOOLEAN /\ strangers' \in BOOLEAN
    BY <1>s, <1>3 DEF WebLogin, CookieState
  <1>5. [tab[t] EXCEPT !.bearer = Pass(p), !.doing = "me"] \in TabState
    BY <1>s DEF TabState
  <1>6. /\ tab' \in [Tabs -> TabState] /\ tab'[t].bearer = Pass(p) /\ tab'[t].doing = "me"
        /\ tab'[t].shown = NoOne /\ \A x \in Tabs : x # t => tab'[x] = tab[x]
    BY <1>s, <1>4, <1>5 DEF WebLogin, TabState
  <1>7. tabRenewal[t].st = "idle"
    BY DEF WebLogin, BrowserInv, TabShape
  <1>8. BrowserTypes'
    BY <1>s, <1>2, <1>4, <1>6 DEF BrowserTypes, WebTypeOK, CookieState, TabState, TabRenewalState
  <1>9. CookieHeld'
    BY <1>2, <1>4 DEF CookieHeld, Tokens
  <1>10. ASSUME NEW x \in Tabs PROVE TabShape(x)'
    <2>1. CASE x = t
      BY <1>4, <1>6, <1>7, <2>1 DEF TabShape, Asking
    <2>2. CASE x # t
      <3>1. TabShape(x) /\ tab'[x] = tab[x] /\ tabRenewal'[x] = tabRenewal[x]
        BY <1>4, <1>6, <2>2 DEF BrowserInv
      <3>2. Asking(x) => tabRenewal[x].tok \in Tokens' /\ refresh'[tabRenewal[x].tok].user = refresh[tabRenewal[x].tok].user
        BY <1>2, <3>1 DEF TabShape, UsersStay, Tokens
      <3> QED  BY <3>1, <3>2 DEF TabShape, Asking
    <2> QED  BY <2>1, <2>2
  <1>11. ASSUME ~strangers' PROVE BrowserOf(p)'
    <2>1. /\ ~strangers
          /\ \A x \in Tabs : x # t => tab[x].shown \in {NoOne, p} /\ tab[x].doing # "me"
          /\ \A x \in Tabs : x # t /\ tab[x].bearer.fresh => tab[x].bearer.user = p
      BY <1>11 DEF WebLogin
    <2>2. PICK v \in People \union {NoOne} : BrowserOf(v)
      BY <2>1 DEF BrowserInv
    <2>3. CookieOf(p)'
      BY <1>s, <1>2, <1>4 DEF CookieOf
    <2>4. TabOf(t, p)'
      BY <1>s, <1>4, <1>6, <1>7 DEF TabOf, Asking
    <2>5. ASSUME NEW x \in Tabs, x # t PROVE TabOf(x, p)'
      <3>o. tab[x].shown \in {NoOne, p} /\ tab[x].doing # "me"
        BY <2>1, <2>5
      <3>b. tab[x].bearer.fresh => tab[x].bearer.user = p
        BY <2>1, <2>5
      <3>1. TabShape(x) /\ TabOf(x, v) /\ tab'[x] = tab[x] /\ tabRenewal'[x] = tabRenewal[x]
        BY <1>4, <1>6, <2>2, <2>5 DEF BrowserInv, BrowserOf
      <3>2. CASE tab[x].shown = NoOne
        <4>1. tabRenewal[x].st = "idle"
          BY <3>o, <3>b, <3>1, <3>2 DEF TabShape
        <4> QED  BY <3>o, <3>b, <3>1, <3>2, <4>1 DEF TabOf, Asking
      <3>3. CASE tab[x].shown = p
        <4>1. v = p
          BY <1>s, <3>1, <3>3 DEF TabOf
        <4>2. Asking(x) => refresh'[tabRenewal[x].tok].user = p
          BY <1>2, <3>1, <4>1 DEF TabOf, TabShape, UsersStay
        <4>3. Asking(x)' <=> Asking(x)
          BY <3>1 DEF Asking
        <4> QED  BY <3>o, <3>b, <3>1, <4>1, <4>2, <4>3 DEF TabOf
      <3> QED  BY <3>o, <3>b, <3>1, <3>2, <3>3
    <2> QED  BY <2>3, <2>4, <2>5 DEF BrowserOf
  <1> QED  BY <1>8, <1>9, <1>10, <1>11 DEF BrowserInv

\* The states a tab's step starts from, in one place.
LEMMA TabBefore ==
  ASSUME BrowserTypes, BrowserInv, NEW t \in Tabs
  PROVE  /\ cookie \in CookieState /\ tab \in [Tabs -> TabState]
         /\ tabRenewal \in [Tabs -> TabRenewalState]
         /\ tab[t] \in TabState /\ tab[t].bearer \in Passes /\ cookie.acc \in Passes
         /\ Used(t) \in Passes /\ (Used(t) = tab[t].bearer \/ (Used(t) = cookie.acc /\ tab[t].bearer = NoPass))
         /\ TokensTypeOK /\ crossed \in BOOLEAN /\ dropped \in BOOLEAN
         /\ CookieHeld /\ TabShape(t)
  BY WebShape DEF BrowserTypes, WebTypeOK, BrowserInv, Used

LEMMA ShowUserStep ==
  ASSUME BrowserTypes, BrowserInv, NEW t \in Tabs, ShowUser(t)
  PROVE  BrowserTypes' /\ BrowserInv'
  <1> DEFINE new == [tab[t] EXCEPT !.shown = Used(t).user, !.where = "app", !.doing = "nothing"]
  <1>1. /\ Used(t).fresh /\ tabRenewal[t].st = "idle" /\ tab' = [tab EXCEPT ![t] = new]
        /\ UNCHANGED <<tokenVars, cookie, tabRenewal, crossed, dropped, strangers>>
    BY DEF ShowUser
  <1>2. Used(t).user \in People
    BY <1>1, TabBefore, PassFacts
  <1>3. /\ new \in TabState /\ new.shown = Used(t).user /\ new.bearer = tab[t].bearer
        /\ new.doing = "nothing"
    BY <1>2, TabBefore DEF TabState
  <1> HIDE DEF new
  <1>4. /\ tab' \in [Tabs -> TabState] /\ tab'[t] = new
        /\ \A x \in Tabs : x # t => tab'[x] = tab[x] /\ tabRenewal'[x] = tabRenewal[x]
    BY <1>1, <1>3, TabBefore
  <1>5. TokensTypeOK' /\ UsersStay /\ refresh' = refresh
    BY <1>1, TabBefore, SameTable DEF tokenVars
  <1>6. TabShape(t)' /\ CookieHeld'
    BY <1>1, <1>2, <1>3, <1>4, <1>5, TabBefore, PassFacts DEF TabShape, Asking, CookieHeld, Tokens
  <1>7. ASSUME NEW u \in People \union {NoOne}, BrowserOf(u) PROVE CookieOf(u)' /\ TabOf(t, u)'
    <2>1. CookieOf(u) /\ TabOf(t, u)
      BY <1>7 DEF BrowserOf
    <2>2. Used(t).user = u /\ tab[t].bearer.user \in {u, NoOne}
      BY <1>1, <1>2, <2>1, TabBefore, PassFacts DEF CookieOf, TabOf
    <2> QED  BY <1>1, <1>3, <1>4, <1>5, <2>1, <2>2 DEF CookieOf, TabOf, Asking
  <1> QED  BY <1>1, <1>4, <1>5, <1>6, <1>7, TabBefore, OneTab

LEMMA StartRenewalStep ==
  ASSUME BrowserTypes, BrowserInv, NEW t \in Tabs, StartRenewal(t)
  PROVE  BrowserTypes' /\ BrowserInv'
  <1> DEFINE new == [st |-> IF cookie.ref = NoToken THEN "failed" ELSE "asked",
                     tok |-> cookie.ref, by |-> NoOne]
  <1>1. /\ ~Used(t).fresh /\ tabRenewal' = [tabRenewal EXCEPT ![t] = new]
        /\ tab[t].shown # NoOne \/ tab[t].doing = "me"
        /\ tab[t].doing # "left" /\ crossed' = (crossed \/ Meets(t))
        /\ UNCHANGED <<tokenVars, cookie, tab, dropped, strangers>>
    BY DEF StartRenewal
  <1>2. /\ new \in TabRenewalState /\ new.st \in {"asked", "failed"} /\ new.tok = cookie.ref
        /\ new.st = "asked" => cookie.ref # NoToken
    BY TabBefore DEF TabRenewalState, CookieState
  <1> HIDE DEF new
  <1>3. /\ tabRenewal' \in [Tabs -> TabRenewalState] /\ tabRenewal'[t] = new /\ tab'[t] = tab[t]
        /\ \A x \in Tabs : x # t => tab'[x] = tab[x] /\ tabRenewal'[x] = tabRenewal[x]
    BY <1>1, <1>2, TabBefore
  <1>4. TokensTypeOK' /\ UsersStay /\ refresh' = refresh
    BY <1>1, TabBefore, SameTable DEF tokenVars
  <1>5. ~tab[t].bearer.fresh
    BY <1>1, TabBefore, PassFacts
  <1>6. TabShape(t)' /\ CookieHeld'
    BY <1>1, <1>2, <1>3, <1>4, <1>5, TabBefore DEF TabShape, Asking, CookieHeld, Tokens
  <1>7. ASSUME NEW u \in People \union {NoOne}, BrowserOf(u) PROVE CookieOf(u)' /\ TabOf(t, u)'
    <2>1. CookieOf(u) /\ TabOf(t, u)
      BY <1>7 DEF BrowserOf
    <2> QED  BY <1>1, <1>2, <1>3, <1>4, <2>1 DEF CookieOf, TabOf, Asking
  <1>8. crossed' \in BOOLEAN
    BY <1>1, TabBefore
  <1> QED  BY <1>1, <1>3, <1>4, <1>6, <1>7, <1>8, TabBefore, OneTab

\* The renewal's way to the server and back without an answer.
LEMMA TabRenewalStep ==
  ASSUME BrowserTypes, BrowserInv, NEW t \in Tabs,
         TabRenewalRead(t) \/ TabRenewalCommit(t) \/ TabRenewalLost(t)
  PROVE  BrowserTypes' /\ BrowserInv'
  <1> DEFINE c == tabRenewal[t]
  <1>b. c \in TabRenewalState /\ (Asking(t) => c.tok \in Tokens)
    BY TabBefore DEF TabShape
  \* What the step does to the tab's renewal and to the table is enough.
  <1>k. ASSUME UNCHANGED <<cookie, tab, crossed, strangers>>, dropped' \in BOOLEAN,
               TokensTypeOK', UsersStay, c.st # "idle",
               NEW new \in TabRenewalState, tabRenewal' = [tabRenewal EXCEPT ![t] = new],
               \/ new.st = "failed"
               \/ /\ Asking(t)
                  /\ new.st \in {"read", "granted"} /\ new.tok \in Tokens'
                  /\ refresh'[new.tok].user = refresh[c.tok].user
                  /\ new.st = "granted" => new.by = refresh[c.tok].user
        PROVE  BrowserTypes' /\ BrowserInv'
    <2>1. /\ tabRenewal' \in [Tabs -> TabRenewalState] /\ tabRenewal'[t] = new /\ tab'[t] = tab[t]
          /\ \A x \in Tabs : x # t => tab'[x] = tab[x] /\ tabRenewal'[x] = tabRenewal[x]
      BY <1>k, TabBefore
    <2>2. TabShape(t)' /\ CookieHeld'
      BY <1>k, <2>1, TabBefore DEF TabShape, Asking, CookieHeld, UsersStay, Tokens
    <2>3. ASSUME NEW u \in People \union {NoOne}, BrowserOf(u) PROVE CookieOf(u)' /\ TabOf(t, u)'
      <3>1. CookieOf(u) /\ TabOf(t, u) /\ CookieHeld
        BY <2>3, TabBefore DEF BrowserOf
      <3>2. CookieOf(u)'
        BY <1>k, <3>1 DEF CookieOf, CookieHeld, UsersStay
      <3>3. TabOf(t, u)'
        BY <1>k, <2>1, <3>1 DEF TabOf, Asking
      <3> QED  BY <3>2, <3>3
    <2> QED  BY <1>k, <2>1, <2>2, <2>3, TabBefore, OneTab
  <1>1. CASE TabRenewalLost(t)
    <2>1. /\ c.st # "idle" /\ tabRenewal' = [tabRenewal EXCEPT ![t] = [c EXCEPT !.st = "failed"]]
          /\ UNCHANGED <<refresh, swept, cookie, tab, crossed, strangers>> /\ dropped' \in BOOLEAN
          /\ GivenUp(c)
      BY <1>1 DEF TabRenewalLost
    <2>2. [c EXCEPT !.st = "failed"] \in TabRenewalState /\ [c EXCEPT !.st = "failed"].st = "failed"
      BY <1>b DEF TabRenewalState
    <2>3. TokensTypeOK' /\ UsersStay
      BY <1>b, <2>1, TabBefore, GivenUpFacts, SameTable DEF Asking
    <2> QED  BY <1>k, <2>1, <2>2, <2>3
  <1>2. CASE TabRenewalRead(t) /\ Reused(c.tok)
    <2>1. /\ c.st # "idle" /\ tabRenewal' = [tabRenewal EXCEPT ![t] = [c EXCEPT !.st = "failed"]]
          /\ UNCHANGED <<late, cookie, tab, crossed, dropped, strangers>>
          /\ c.tok \in Tokens /\ Sweep(c.tok)
      BY <1>2 DEF TabRenewalRead, Reused
    <2>2. [c EXCEPT !.st = "failed"] \in TabRenewalState /\ [c EXCEPT !.st = "failed"].st = "failed"
      BY <1>b DEF TabRenewalState
    <2>3. TokensTypeOK' /\ UsersStay
      BY <2>1, TabBefore, SweepFacts
    <2> QED  BY <1>k, <2>1, <2>2, <2>3, TabBefore
  <1>3. CASE TabRenewalRead(t) /\ ~Reused(c.tok)
    <2>1. /\ c.st = "asked" /\ tabRenewal' = [tabRenewal EXCEPT ![t] = [c EXCEPT !.st = "read"]]
          /\ UNCHANGED <<tokenVars, cookie, tab, crossed, dropped, strangers>>
      BY <1>3 DEF TabRenewalRead
    <2>2. LET new == [c EXCEPT !.st = "read"] IN
            new \in TabRenewalState /\ new.st = "read" /\ new.tok = c.tok
      BY <1>b DEF TabRenewalState
    <2>3. TokensTypeOK' /\ UsersStay /\ refresh' = refresh
      BY <2>1, TabBefore, SameTable DEF tokenVars
    <2>4. Asking(t) /\ c.tok \in Tokens'
      BY <1>b, <2>1, <2>3 DEF Asking, Tokens
    <2> QED  BY <1>k, <2>1, <2>2, <2>3, <2>4, TabBefore
  <1>4. CASE TabRenewalCommit(t)
    <2> DEFINE new == [st |-> "granted", tok |-> NextId, by |-> refresh[c.tok].user]
    <2>1. /\ c.st = "read" /\ MayIssue /\ Rotate(c.tok) /\ UNCHANGED <<swept, late>>
          /\ tabRenewal' = [tabRenewal EXCEPT ![t] = new]
          /\ UNCHANGED <<cookie, tab, crossed, dropped, strangers>>
      BY <1>4 DEF TabRenewalCommit
    <2>2. Asking(t) /\ c.tok \in Tokens
      BY <1>b, <2>1 DEF Asking
    <2>3. TokensTypeOK' /\ UsersStay /\ NextId \in Tokens' /\ refresh'[NextId].user = refresh[c.tok].user
      BY <2>1, <2>2, TabBefore, RotateFacts DEF Tokens
    <2>4. new \in TabRenewalState
      BY <2>1, <2>2, TabBefore, TableFacts DEF TabRenewalState, RefreshRow
    <2>5. new.st = "granted" /\ new.tok = NextId /\ new.by = refresh[c.tok].user
      OBVIOUS
    <2> HIDE DEF new
    <2> QED  BY <1>k, <2>1, <2>2, <2>3, <2>4, <2>5, TabBefore
  <1> QED  BY <1>1, <1>2, <1>3, <1>4

\* The answer of a renewal fills the cookies and the bearer.
LEMMA RenewedStep ==
  ASSUME BrowserTypes, BrowserInv, NEW t \in Tabs, Renewed(t)
  PROVE  BrowserTypes' /\ BrowserInv'
  <1> DEFINE c == tabRenewal[t]  new == [tab[t] EXCEPT !.bearer = Pass(c.by)]
  <1>1. /\ c.st = "granted" /\ cookie' = [acc |-> Pass(c.by), ref |-> c.tok]
        /\ tab' = [tab EXCEPT ![t] = new] /\ tabRenewal' = [tabRenewal EXCEPT ![t] = NoRenewal]
        /\ UNCHANGED <<tokenVars, crossed, dropped, strangers>>
    BY DEF Renewed
  <1>2. Asking(t) /\ c.tok \in Tokens /\ c.by = refresh[c.tok].user /\ c.tok # NoToken
    BY <1>1, TabBefore, TableFacts DEF TabShape, Asking
  <1>3. c.by \in People /\ c.tok \in TokenIds
    BY <1>2, TabBefore, TableFacts DEF RefreshRow
  <1>4. Pass(c.by) \in Passes /\ Pass(c.by).user = c.by
    BY <1>3, PassFacts
  <1>5. /\ new \in TabState /\ new.bearer = Pass(c.by) /\ new.shown = tab[t].shown /\ new.doing = tab[t].doing
    BY <1>4, TabBefore DEF TabState
  <1>6. /\ cookie' \in CookieState /\ cookie'.ref = c.tok /\ cookie'.acc = Pass(c.by)
    BY <1>1, <1>3, <1>4 DEF CookieState
  <1> HIDE DEF c, new
  <1>7. /\ tab' \in [Tabs -> TabState] /\ tab'[t] = new
        /\ tabRenewal' \in [Tabs -> TabRenewalState] /\ tabRenewal'[t] = NoRenewal
        /\ \A x \in Tabs : x # t => tab'[x] = tab[x] /\ tabRenewal'[x] = tabRenewal[x]
    BY <1>1, <1>5, TabBefore, NoRenewalFacts
  <1>8. TokensTypeOK' /\ UsersStay /\ refresh' = refresh
    BY <1>1, TabBefore, SameTable DEF tokenVars
  <1>9. TabShape(t)
    BY TabBefore
  <1>10. c = tabRenewal[t]
    BY DEF c
  <1>11. TabShape(t)' /\ CookieHeld'
    BY <1>1, <1>2, <1>5, <1>6, <1>7, <1>8, <1>9, <1>10, NoRenewalFacts DEF TabShape, Asking, CookieHeld, Tokens
  <1>12. ASSUME NEW u \in People \union {NoOne}, BrowserOf(u) PROVE CookieOf(u)' /\ TabOf(t, u)'
    <2>1. CookieOf(u) /\ TabOf(t, u)
      BY <1>12 DEF BrowserOf
    <2>2. c.by = u
      BY <1>2, <1>10, <2>1 DEF TabOf
    <2> QED  BY <1>2, <1>4, <1>5, <1>6, <1>7, <1>8, <2>1, <2>2, NoRenewalFacts DEF CookieOf, TabOf, Asking
  <1> QED  BY <1>1, <1>6, <1>7, <1>8, <1>11, <1>12, TabBefore, OneTab

\* A tab leaves, gives up or is loaded again: it ends up showing nobody, or
\* waits for the answer of its logout; the cookies stay or are cleared.
LEMMA TabLeavesStep ==
  ASSUME BrowserTypes, BrowserInv, NEW t \in Tabs,
         \/ NotRenewed(t) \/ MeFails(t) \/ AskAgain(t) \/ LogoutClick(t)
         \/ LogoutServed(t) \/ LogoutAnswered(t) \/ LogoutLost(t) \/ Reload(t)
  PROVE  BrowserTypes' /\ BrowserInv'
  <1> DEFINE ok(s, r) ==
        /\ s \in TabState /\ r \in TabRenewalState /\ r.st = "idle"
        /\ \/ /\ s.shown = tab[t].shown /\ s.bearer = tab[t].bearer
              /\ s.doing \in {"me", "leaving", "left"} /\ tab[t].shown # NoOne
           \/ /\ s.shown = NoOne /\ s.bearer \in {tab[t].bearer, NoPass}
              /\ s.doing \in {"me", "nothing"}
  <1>b. /\ tab[t] \in TabState /\ tabRenewal[t] \in TabRenewalState /\ NoPass \in Passes
        /\ ~NoPass.fresh /\ tab[t].bearer \in Passes
    BY TabBefore, PassFacts
  <1>k. ASSUME NEW s, NEW r, ok(s, r), tab' = [tab EXCEPT ![t] = s], tabRenewal' = [tabRenewal EXCEPT ![t] = r],
               UsersStay, TokensTypeOK', UNCHANGED strangers, crossed' \in BOOLEAN, dropped' \in BOOLEAN,
               cookie' = cookie \/ cookie' = [acc |-> NoPass, ref |-> NoToken]
        PROVE  BrowserTypes' /\ BrowserInv'
    <2>1. /\ tab' \in [Tabs -> TabState] /\ tab'[t] = s
          /\ tabRenewal' \in [Tabs -> TabRenewalState] /\ tabRenewal'[t] = r
          /\ \A x \in Tabs : x # t => tab'[x] = tab[x] /\ tabRenewal'[x] = tabRenewal[x]
      BY <1>k, TabBefore
    <2>2. cookie' \in CookieState /\ CookieHeld'
      BY <1>k, TabBefore, PassFacts, MaxRefreshAssumption
         DEF CookieState, CookieHeld, UsersStay, Tokens, NoToken, TokenIds
    <2>3. TabShape(t)'
      BY <1>k, <2>1 DEF TabShape, Asking
    <2>4. ASSUME NEW u \in People \union {NoOne}, BrowserOf(u) PROVE CookieOf(u)' /\ TabOf(t, u)'
      <3>1. CookieOf(u) /\ TabOf(t, u) /\ CookieHeld
        BY <2>4, TabBefore DEF BrowserOf
      <3>2. CookieOf(u)'
        BY <1>k, <3>1, PassFacts DEF CookieOf, CookieHeld, UsersStay
      <3>3. TabOf(t, u)'
        BY <1>k, <1>b, <2>1, <3>1 DEF TabOf, Asking
      <3> QED  BY <3>2, <3>3
    <2> QED  BY <1>k, <2>1, <2>2, <2>3, <2>4, TabBefore, OneTab
  <1>r. /\ tabRenewal[t].st = "idle" => tabRenewal = [tabRenewal EXCEPT ![t] = tabRenewal[t]]
        /\ NoRenewal \in TabRenewalState /\ NoRenewal.st = "idle"
    BY TabBefore, NoRenewalFacts
  <1>l. LeftTab \in TabState /\ LeftTab.shown = NoOne /\ LeftTab.bearer = NoPass /\ LeftTab.doing = "nothing"
    BY PassFacts DEF LeftTab, TabState
  <1>1. CASE NotRenewed(t)
    <2> DEFINE s == [shown |-> NoOne, where |-> "login",
                     bearer |-> IF tab[t].doing = "leaving" THEN NoPass ELSE tab[t].bearer,
                     doing |-> IF tab[t].where = "app" THEN "me" ELSE "nothing"]
    <2>1. /\ tab' = [tab EXCEPT ![t] = s] /\ tabRenewal' = [tabRenewal EXCEPT ![t] = NoRenewal]
          /\ UNCHANGED <<tokenVars, cookie, crossed, dropped, strangers>> /\ tabRenewal[t].st = "failed"
      BY <1>1 DEF NotRenewed
    <2>2. TokensTypeOK' /\ UsersStay
      BY <2>1, TabBefore, SameTable DEF tokenVars
    <2>3. /\ s \in TabState /\ s.shown = NoOne /\ s.bearer \in {tab[t].bearer, NoPass}
          /\ s.doing \in {"me", "nothing"}
      BY <1>b DEF TabState
    <2> HIDE DEF s
    <2>4. ok(s, NoRenewal)
      BY <1>b, <1>r, <2>3
    <2> HIDE DEF ok
    <2> QED  BY <1>k, <2>1, <2>2, <2>4, TabBefore
  <1>2. CASE LogoutClick(t) \/ LogoutServed(t)
    <2>1. PICK d \in {"leaving", "left"} : tab' = [tab EXCEPT ![t] = [tab[t] EXCEPT !.doing = d]]
      BY <1>2 DEF LogoutClick, LogoutServed
    <2> DEFINE s == [tab[t] EXCEPT !.doing = d]
    <2>2. /\ tabRenewal[t].st = "idle" /\ UNCHANGED <<cookie, tabRenewal, dropped, strangers>>
          /\ tab[t].shown # NoOne /\ crossed' \in BOOLEAN
      BY <1>2, TabBefore DEF LogoutClick, LogoutServed, TabShape
    <2>3. TokensTypeOK' /\ UsersStay
      <3>1. CASE LogoutClick(t)
        BY <3>1, TabBefore, SameTable DEF LogoutClick, tokenVars
      <3>2. CASE LogoutServed(t)
        BY <3>2, TabBefore, RevokeFacts DEF LogoutServed
      <3> QED  BY <1>2, <3>1, <3>2
    <2>4. s \in TabState /\ s.shown = tab[t].shown /\ s.bearer = tab[t].bearer /\ s.doing = d
      BY <1>b DEF TabState
    <2> HIDE DEF s
    <2>5. ok(s, tabRenewal[t])
      BY <1>b, <2>2, <2>4
    <2>6. tab' = [tab EXCEPT ![t] = s]
      BY <2>1 DEF s
    <2> HIDE DEF ok
    <2> QED  BY <1>k, <1>r, <2>2, <2>3, <2>5, <2>6, TabBefore
  <1>3. CASE LogoutAnswered(t) \/ LogoutLost(t)
    <2>1. /\ tab' = [tab EXCEPT ![t] = LeftTab]
          /\ UNCHANGED <<tokenVars, tabRenewal, strangers>> /\ crossed' = crossed /\ dropped' \in BOOLEAN
          /\ cookie' = cookie \/ cookie' = [acc |-> NoPass, ref |-> NoToken]
          /\ tabRenewal[t].st = "idle"
      BY <1>3, TabBefore DEF LogoutAnswered, LogoutLost, TabShape
    <2>2. TokensTypeOK' /\ UsersStay
      BY <2>1, TabBefore, SameTable DEF tokenVars
    <2>3. ok(LeftTab, tabRenewal[t])
      BY <1>b, <1>l, <2>1
    <2> HIDE DEF ok
    <2> QED  BY <1>k, <1>r, <2>1, <2>2, <2>3, TabBefore
  <1>4. CASE Reload(t)
    <2> DEFINE s == [tab[t] EXCEPT !.shown = NoOne, !.doing = "me"]
    <2>1. /\ tab' = [tab EXCEPT ![t] = s] /\ tabRenewal' = [tabRenewal EXCEPT ![t] = NoRenewal]
          /\ UNCHANGED <<refresh, swept, cookie, crossed, strangers>> /\ dropped' = (dropped \/ InExchange(t))
          /\ GivenUp(tabRenewal[t])
      BY <1>4 DEF Reload
    <2>2. TokensTypeOK' /\ UsersStay
      BY <2>1, TabBefore, GivenUpFacts, SameTable DEF TabShape, Asking
    <2>3. s \in TabState /\ s.shown = NoOne /\ s.bearer = tab[t].bearer /\ s.doing = "me"
      BY <1>b DEF TabState
    <2>4. dropped' \in BOOLEAN
      BY <2>1, TabBefore
    <2> HIDE DEF s
    <2>5. ok(s, NoRenewal)
      BY <1>r, <2>3
    <2> HIDE DEF ok
    <2> QED  BY <1>k, <2>1, <2>2, <2>4, <2>5, TabBefore
  \* The fetch of the profile: it fails and nobody is shown, or it is made again.
  <1>5. CASE MeFails(t)
    <2> DEFINE s == [tab[t] EXCEPT !.shown = NoOne, !.where = "login", !.doing = "nothing"]
    <2>1. /\ tab' = [tab EXCEPT ![t] = s] /\ tabRenewal[t].st = "idle"
          /\ UNCHANGED <<tokenVars, cookie, tabRenewal, crossed, dropped, strangers>>
      BY <1>5 DEF MeFails
    <2>2. TokensTypeOK' /\ UsersStay
      BY <2>1, TabBefore, SameTable DEF tokenVars
    <2>3. s \in TabState /\ s.shown = NoOne /\ s.bearer = tab[t].bearer /\ s.doing = "nothing"
      BY <1>b DEF TabState
    <2> HIDE DEF s
    <2>4. ok(s, tabRenewal[t])
      BY <1>b, <2>1, <2>3
    <2> HIDE DEF ok
    <2> QED  BY <1>k, <1>r, <2>1, <2>2, <2>4, TabBefore
  <1>6. CASE AskAgain(t)
    <2> DEFINE s == [tab[t] EXCEPT !.doing = "me"]
    <2>1. /\ tab' = [tab EXCEPT ![t] = s] /\ tab[t].shown # NoOne
          /\ UNCHANGED <<tokenVars, cookie, tabRenewal, crossed, dropped, strangers>>
      BY <1>6 DEF AskAgain
    <2>2. TokensTypeOK' /\ UsersStay /\ refresh' = refresh
      BY <2>1, TabBefore, SameTable DEF tokenVars
    <2>3. s \in TabState /\ s.shown = tab[t].shown /\ s.bearer = tab[t].bearer /\ s.doing = "me"
      BY <1>b DEF TabState
    <2> HIDE DEF s
    <2>4. /\ tab' \in [Tabs -> TabState] /\ tab'[t] = s
          /\ \A x \in Tabs : x # t => tab'[x] = tab[x] /\ tabRenewal'[x] = tabRenewal[x]
      BY <2>1, <2>3, TabBefore
    <2>5. TabShape(t)' /\ CookieHeld'
      BY <2>1, <2>2, <2>3, <2>4, TabBefore DEF TabShape, Asking, CookieHeld, Tokens
    <2>6. ASSUME NEW u \in People \union {NoOne}, BrowserOf(u) PROVE CookieOf(u)' /\ TabOf(t, u)'
      <3>1. CookieOf(u) /\ TabOf(t, u)
        BY <2>6 DEF BrowserOf
      <3> QED  BY <2>1, <2>2, <2>3, <2>4, <3>1 DEF CookieOf, TabOf, Asking
    <2> QED  BY <2>1, <2>2, <2>4, <2>5, <2>6, TabBefore, OneTab
  <1> QED  BY <1>1, <1>2, <1>3, <1>4, <1>5, <1>6

LEMMA WebExpireStep ==
  ASSUME BrowserTypes, BrowserInv, WebExpire
  PROVE  BrowserTypes' /\ BrowserInv'
  <1>s. /\ cookie \in CookieState /\ tab \in [Tabs -> TabState]
        /\ tabRenewal \in [Tabs -> TabRenewalState] /\ TokensTypeOK
        /\ \A x \in Tabs : tab[x] \in TabState /\ tab[x].bearer \in Passes
        /\ cookie.acc \in Passes
    BY WebShape DEF BrowserTypes
  <1> DEFINE older(a) == [a EXCEPT !.fresh = FALSE]
  <1>1. ASSUME NEW a \in Passes PROVE older(a) \in Passes /\ older(a).user = a.user /\ ~older(a).fresh
    <2>1. CASE a \in [user : People, fresh : BOOLEAN]
      BY <2>1 DEF Passes
    <2>2. CASE a = NoPass
      <3>1. a \in [user : {NoOne}, fresh : {FALSE}]
        BY <2>2 DEF NoPass
      <3>2. older(a) = a
        BY <3>1, Zenon
      <3> HIDE DEF older
      <3> QED  BY <2>2, <3>2, PassFacts
    <2> QED  BY <2>1, <2>2 DEF Passes
  <1>2. /\ cookie' = [cookie EXCEPT !.acc = older(cookie.acc)]
        /\ tab' = [x \in Tabs |-> [tab[x] EXCEPT !.bearer = older(tab[x].bearer)]]
        /\ UNCHANGED <<tokenVars, tabRenewal, crossed, dropped, strangers>>
    BY DEF WebExpire
  <1> HIDE DEF older
  <1>3. /\ cookie' \in CookieState /\ cookie'.ref = cookie.ref /\ cookie'.acc.user = cookie.acc.user
    BY <1>s, <1>1, <1>2 DEF CookieState
  <1>4. ASSUME NEW x \in Tabs
        PROVE  /\ tab'[x] \in TabState /\ tab'[x].shown = tab[x].shown /\ tab'[x].doing = tab[x].doing
               /\ tab'[x].bearer.user = tab[x].bearer.user /\ ~tab'[x].bearer.fresh
    <2>1. tab'[x] = [tab[x] EXCEPT !.bearer = older(tab[x].bearer)]
      BY <1>2
    <2> QED  BY <1>s, <1>1, <2>1 DEF TabState
  <1>5. tab' \in [Tabs -> TabState]
    <2>1. tab' = [x \in Tabs |-> tab'[x]]
      BY <1>2
    <2> QED  BY <1>4, <2>1
  <1>6. TokensTypeOK' /\ refresh' = refresh
    BY <1>s, <1>2, SameTable DEF tokenVars
  <1>7. BrowserTypes'
    BY <1>2, <1>3, <1>5, <1>6, <1>s DEF BrowserTypes, WebTypeOK, CookieState, TabState, TabRenewalState
  <1>8. CookieHeld' /\ \A x \in Tabs : TabShape(x)'
    BY <1>2, <1>3, <1>4, <1>6 DEF BrowserInv, CookieHeld, TabShape, Asking, Tokens
  <1>9. ASSUME NEW u \in People \union {NoOne}, BrowserOf(u) PROVE BrowserOf(u)'
    BY <1>2, <1>3, <1>4, <1>6, <1>9 DEF BrowserOf, CookieOf, TabOf, Asking
  <1> QED  BY <1>2, <1>7, <1>8, <1>9 DEF BrowserInv

\* The server goes on without the tab.
LEMMA BrowserLateStep ==
  ASSUME BrowserTypes, BrowserInv, NEW s \in Tokens, LateCommit(s), UNCHANGED webVars
  PROVE  BrowserTypes' /\ BrowserInv'
  <1>1. TokensTypeOK' /\ UsersStay
    BY LateFacts DEF BrowserTypes
  <1>2. UNCHANGED <<cookie, tab, tabRenewal, crossed, dropped, strangers>>
    BY DEF webVars
  <1>3. WebTypeOK'
    BY <1>2 DEF BrowserTypes, WebTypeOK
  <1>4. CookieHeld'
    BY <1>1, <1>2 DEF BrowserInv, CookieHeld, UsersStay, Tokens
  <1>5. ASSUME NEW x \in Tabs
        PROVE  TabShape(x)' /\ \A u \in People \union {NoOne} : TabOf(x, u) => TabOf(x, u)'
    <2>1. TabShape(x) /\ (Asking(x)' <=> Asking(x))
      BY <1>2 DEF BrowserInv, Asking
    <2>2. Asking(x) => /\ tabRenewal[x].tok \in Tokens'
                       /\ refresh'[tabRenewal[x].tok].user = refresh[tabRenewal[x].tok].user
      BY <1>1, <2>1 DEF TabShape, UsersStay, Tokens
    <2> QED  BY <1>2, <2>1, <2>2 DEF TabShape, TabOf, Asking
  <1>6. ASSUME NEW u \in People \union {NoOne}, BrowserOf(u) PROVE BrowserOf(u)'
    <2>1. CookieOf(u)'
      BY <1>1, <1>2, <1>6 DEF BrowserInv, BrowserOf, CookieOf, CookieHeld, UsersStay
    <2> QED  BY <1>5, <1>6, <2>1 DEF BrowserOf
  <1> QED  BY <1>1, <1>2, <1>3, <1>4, <1>5, <1>6 DEF BrowserTypes, BrowserInv

LEMMA BrowserStep == BrowserTypes /\ BrowserInv /\ [WebNext]_BrowserVars => BrowserTypes' /\ BrowserInv'
  <1> SUFFICES ASSUME BrowserTypes, BrowserInv, [WebNext]_BrowserVars PROVE BrowserTypes' /\ BrowserInv'
    OBVIOUS
  <1>1. CASE UNCHANGED BrowserVars
    <2>1. BrowserTypes'
      BY <1>1 DEF BrowserVars, tokenVars, webVars, BrowserTypes, TokensTypeOK, Tokens, WebTypeOK
    <2>2. CookieHeld' /\ (\A x \in Tabs : TabShape(x)') /\ (strangers' <=> strangers)
      BY <1>1 DEF BrowserVars, tokenVars, webVars, BrowserInv, CookieHeld, TabShape, Asking, Tokens
    <2>3. \A u \in People \union {NoOne} : BrowserOf(u) => BrowserOf(u)'
      BY <1>1 DEF BrowserVars, tokenVars, webVars, BrowserOf, CookieOf, TabOf, Asking
    <2> QED  BY <2>1, <2>2, <2>3 DEF BrowserInv
  <1> QED  BY <1>1, WebLoginStep, ShowUserStep, StartRenewalStep, TabRenewalStep, RenewedStep,
              TabLeavesStep, WebExpireStep, BrowserLateStep DEF WebNext

LEMMA BrowserStart == TokensInit /\ WebInit => BrowserTypes /\ BrowserInv
  <1> SUFFICES ASSUME TokensInit, WebInit PROVE BrowserTypes /\ BrowserInv
    OBVIOUS
  <1>1. TokensTypeOK
    <2>1. << >> \in Seq(RefreshRow) /\ Len(<< >>) = 0
      BY EmptySeq
    <2>2. refresh \in Seq(RefreshRow) /\ Len(refresh) = 0 /\ swept \in BOOLEAN /\ late = {}
      BY <2>1 DEF TokensInit
    <2> QED  BY <2>2, MaxRefreshAssumption DEF TokensTypeOK
  <1>2. \A x \in Tabs : /\ tab[x].shown = NoOne /\ tab[x].bearer = NoPass /\ tab[x].doing = "nothing"
                        /\ tabRenewal[x].st = "idle"
    BY NoRenewalFacts DEF WebInit
  <1>3. cookie.acc = NoPass /\ cookie.ref = NoToken
    BY DEF WebInit
  <1>4. WebTypeOK
    <2>1. cookie \in CookieState
      BY <1>3, PassFacts, MaxRefreshAssumption DEF WebInit, CookieState, NoToken, TokenIds
    <2>2. [shown |-> NoOne, bearer |-> NoPass, where |-> "login", doing |-> "nothing"] \in TabState
      BY PassFacts DEF TabState
    <2>3. tab \in [Tabs -> TabState]
      BY <2>2 DEF WebInit
    <2>4. tabRenewal \in [Tabs -> TabRenewalState]
      BY NoRenewalFacts DEF WebInit
    <2>5. crossed \in BOOLEAN /\ dropped \in BOOLEAN /\ strangers \in BOOLEAN
      BY DEF WebInit
    <2> QED  BY <2>1, <2>3, <2>4, <2>5 DEF WebTypeOK, CookieState, TabState, TabRenewalState
  <1>5. CookieHeld /\ \A x \in Tabs : TabShape(x)
    BY <1>2, <1>3, PassFacts DEF CookieHeld, TabShape, Asking
  <1>6. BrowserOf(NoOne)
    BY <1>2, <1>3, PassFacts DEF BrowserOf, CookieOf, TabOf, Asking
  <1> QED  BY <1>1, <1>4, <1>5, <1>6 DEF BrowserTypes, BrowserInv

\* The browser, its tabs and the table keep their types.
THEOREM BrowserTypesHold == WebSpec => []BrowserTypes
  BY BrowserStart, BrowserStep, PTL DEF WebSpec, BrowserVars

\* A tab's calls carry the token of the user it shows, for any number of tabs,
\* unless somebody signed in while another tab showed somebody else or still
\* kept his bearer.
THEOREM TabCalls == WebSpec => []TabActsForItsUser
  <1>1. BrowserTypes /\ BrowserInv => TabActsForItsUser
    <2> SUFFICES ASSUME BrowserTypes, BrowserInv, ~strangers, NEW t \in Tabs, tab[t].shown # NoOne
                 PROVE  Used(t).user \in {tab[t].shown, NoOne}
      BY DEF TabActsForItsUser
    <2>1. PICK u \in People \union {NoOne} : BrowserOf(u)
      BY DEF BrowserInv
    <2> QED  BY <2>1, TabBefore DEF BrowserOf, CookieOf, TabOf
  <1> QED  BY <1>1, BrowserStart, BrowserStep, PTL DEF WebSpec, BrowserVars

-----------------------------------------------------------------------------
(* The browser's one working token *)

Asks(x) == tabRenewal[x].st \in {"asked", "read"}
Granted(x) == tabRenewal[x].st = "granted"
Left(x) == tab[x].doing = "left"

\* One tab at a time talks to the server about the refresh cookie; the one live
\* row is the cookie's, then the answer's, then the cookie's again.
LiveCookie ==
  /\ ~swept /\ late = {}
  /\ \A x, y \in Tabs : InExchange(x) /\ InExchange(y) => x = y
  /\ \A x \in Tabs : Asks(x) => tabRenewal[x].tok = cookie.ref /\ Live(cookie.ref)
  /\ \A x \in Tabs : Granted(x) => /\ Live(tabRenewal[x].tok)
                                  /\ \A s \in Tokens : Live(s) => s = tabRenewal[x].tok
  /\ \A x \in Tabs : Left(x) => \A s \in Tokens : ~Live(s)
  /\ (\A x \in Tabs : ~Granted(x)) => \A s \in Tokens : Live(s) => s = cookie.ref
  /\ (\A x \in Tabs : ~Granted(x) /\ ~Left(x)) /\ cookie.ref # NoToken => Live(cookie.ref)

CookieInv == ~crossed /\ ~dropped => LiveCookie

\* A step that touches neither the table nor what a tab has asked of it.
LEMMA QuietStep ==
  ASSUME CookieInv, refresh' = refresh, swept' = swept, ~dropped' => late' = late,
         cookie'.ref = cookie.ref, crossed' = crossed, ~dropped' => ~dropped,
         ~dropped' => \A x \in Tabs :
            /\ Left(x)' <=> Left(x)
            /\ \/ tabRenewal'[x] = tabRenewal[x]
               \/ tabRenewal[x].st = "failed" /\ tabRenewal'[x].st = "idle"
               \/ tabRenewal[x].st = "idle" /\ tabRenewal'[x].st = "idle"
  PROVE  CookieInv'
  <1> SUFFICES ASSUME ~crossed', ~dropped' PROVE LiveCookie'
    BY DEF CookieInv
  <1>1. LiveCookie
    BY DEF CookieInv
  <1>2. \A x \in Tabs : /\ Left(x)' <=> Left(x)
                        /\ InExchange(x)' => InExchange(x)
                        /\ Granted(x)' <=> Granted(x)
                        /\ Asks(x)' <=> Asks(x)
                        /\ Granted(x) \/ Asks(x) => tabRenewal'[x] = tabRenewal[x]
    BY DEF InExchange, Granted, Asks, Left
  <1>3. refresh' = refresh /\ swept' = swept /\ Tokens' = Tokens /\ late' = late
    BY DEF Tokens
  <1>4. \A s : Live(s)' <=> Live(s)
    BY <1>3 DEF Live
  <1> QED  BY <1>1, <1>2, <1>3, <1>4 DEF LiveCookie

LEMMA CookieStep ==
  BrowserTypes /\ BrowserInv /\ CookieInv /\ [WebNext]_BrowserVars => CookieInv'
  <1> SUFFICES ASSUME BrowserTypes, BrowserInv, CookieInv, [WebNext]_BrowserVars PROVE CookieInv'
    OBVIOUS
  <1>s. /\ cookie \in CookieState /\ tab \in [Tabs -> TabState]
        /\ tabRenewal \in [Tabs -> TabRenewalState] /\ TokensTypeOK
        /\ crossed \in BOOLEAN /\ dropped \in BOOLEAN
    BY WebShape DEF BrowserTypes, WebTypeOK
  <1>1. CASE UNCHANGED BrowserVars
    <2>1. UNCHANGED <<tokenVars, cookie, tab, tabRenewal, crossed, dropped>>
      BY <1>1 DEF BrowserVars, webVars
    <2> QED  BY <2>1, QuietStep DEF Left, tokenVars
  <1>2. CASE WebExpire
    <2>1. UNCHANGED <<tokenVars, tabRenewal, crossed, dropped>> /\ cookie'.ref = cookie.ref
      BY <1>2, <1>s DEF WebExpire, CookieState
    <2>2. ASSUME NEW x \in Tabs PROVE tab'[x].doing = tab[x].doing
      BY <1>2, <1>s DEF WebExpire, TabState
    <2> QED  BY <2>1, <2>2, QuietStep DEF Left, tokenVars
  <1>3. ASSUME NEW t \in Tabs, \/ ShowUser(t) \/ MeFails(t) \/ AskAgain(t) \/ LogoutClick(t)
                               \/ NotRenewed(t) \/ Reload(t)
        PROVE  CookieInv'
    <2>1. /\ UNCHANGED <<refresh, swept, cookie, crossed>>
          /\ \A x \in Tabs : x # t => tab'[x] = tab[x] /\ tabRenewal'[x] = tabRenewal[x]
      BY <1>3, <1>s DEF ShowUser, MeFails, AskAgain, LogoutClick, NotRenewed, Reload, tokenVars
    <2>2. CASE ShowUser(t) \/ MeFails(t) \/ AskAgain(t) \/ LogoutClick(t)
      <3>1. /\ dropped' = dropped /\ tabRenewal' = tabRenewal /\ ~Left(t) /\ ~Left(t)'
            /\ late' = late
        BY <2>2, <1>s DEF ShowUser, MeFails, AskAgain, LogoutClick, Left, TabState, tokenVars
      <3> QED  BY <2>1, <3>1, QuietStep DEF Left, tokenVars
    <2>3. CASE NotRenewed(t)
      <3>1. /\ dropped' = dropped /\ tabRenewal[t].st = "failed" /\ tabRenewal'[t].st = "idle"
            /\ ~Left(t) /\ ~Left(t)' /\ late' = late
        BY <2>3, <1>s, TabBefore, NoRenewalFacts DEF NotRenewed, TabShape, Left, tokenVars
      <3> QED  BY <2>1, <3>1, QuietStep DEF Left, tokenVars
    <2>4. CASE Reload(t)
      <3>1. /\ dropped' = (dropped \/ InExchange(t)) /\ tabRenewal'[t].st = "idle" /\ ~Left(t)'
            /\ GivenUp(tabRenewal[t])
        BY <2>4, <1>s, NoRenewalFacts DEF Reload, Left, TabState
      <3>2. ~dropped' => ~Left(t) /\ tabRenewal[t].st = "idle" /\ late' = late
        BY <3>1 DEF InExchange, Left, GivenUp
      <3> QED  BY <2>1, <3>1, <3>2, QuietStep DEF Left, tokenVars
    <2> QED  BY <1>3, <2>2, <2>3, <2>4
  <1>4. ASSUME NEW t \in Tabs, TabRenewalLost(t) \/ LogoutLost(t) PROVE CookieInv'
    BY <1>4 DEF TabRenewalLost, LogoutLost, CookieInv
  <1>5. ASSUME NEW t \in Tabs, NEW p \in People, WebLogin(t, p), ~crossed', ~dropped' PROVE LiveCookie'
    <2>1. /\ MayIssue /\ Issue(p) /\ UNCHANGED <<swept, late, tabRenewal>> /\ cookie'.ref = NextId
          /\ ~Meets(t) /\ ~Live(cookie.ref) /\ LiveCookie
          /\ tab[t].doing = "nothing" /\ tab[t].shown = NoOne
      BY <1>5 DEF WebLogin, CookieInv
    <2>2. tabRenewal[t].st = "idle"
      BY <2>1, TabBefore DEF TabShape
    <2>3. /\ tab'[t].doing = "me" /\ \A x \in Tabs : x # t => tab'[x] = tab[x]
      BY <1>5, <1>s DEF WebLogin, TabState
    <2>4. \A x \in Tabs : ~InExchange(x) /\ ~InExchange(x)'
      BY <2>1, <2>2, <2>3 DEF Meets, InExchange
    <2>5. \A x \in Tabs : ~Granted(x) /\ ~Granted(x)' /\ ~Asks(x)' /\ ~Left(x)'
      BY <2>4 DEF Granted, Asks, Left, InExchange
    <2>6. \A s \in Tokens : ~refresh[s].live
      BY <2>1, <2>5 DEF LiveCookie, Live
    <2>7. /\ Tokens' = Tokens \union {NextId} /\ refresh'[NextId].live
          /\ \A s \in Tokens : refresh'[s] = refresh[s]
      BY <1>s, <2>1, IssueRows
    <2>8. NextId \in Tokens' /\ \A s \in Tokens' : refresh'[s].live => s = NextId
      BY <2>6, <2>7
    <2> QED  BY <2>1, <2>4, <2>5, <2>7, <2>8 DEF LiveCookie, Live
  <1>6. ASSUME NEW t \in Tabs, StartRenewal(t), ~crossed', ~dropped' PROVE LiveCookie'
    <2>1. /\ UNCHANGED <<tokenVars, cookie, tab>> /\ ~Meets(t) /\ LiveCookie
          /\ tab[t].doing # "left" /\ tabRenewal[t].st = "idle"
      BY <1>6 DEF StartRenewal, CookieInv
    <2>2. /\ tabRenewal'[t].st = (IF cookie.ref = NoToken THEN "failed" ELSE "asked")
          /\ tabRenewal'[t].tok = cookie.ref
          /\ \A x \in Tabs : x # t => tabRenewal'[x] = tabRenewal[x]
      BY <1>6, <1>s DEF StartRenewal
    <2>3. \A x \in Tabs : ~InExchange(x) /\ (x # t => ~InExchange(x)')
      BY <2>1, <2>2 DEF Meets, InExchange
    <2>4. \A x \in Tabs : ~Granted(x) /\ ~Left(x) /\ ~Left(x)' /\ ~Granted(x)' /\ (x # t => ~Asks(x)')
      BY <2>1, <2>2, <2>3 DEF InExchange, Granted, Left, Asks
    <2>5. cookie.ref # NoToken => Live(cookie.ref)
      BY <2>1, <2>4 DEF LiveCookie
    <2>6. Asks(t)' => cookie.ref # NoToken
      BY <2>2 DEF Asks
    <2>7. Tokens' = Tokens /\ (\A s : Live(s)' <=> Live(s)) /\ swept' = swept /\ late' = late
      BY <2>1 DEF tokenVars, Live, Tokens
    <2> QED  BY <2>1, <2>2, <2>3, <2>4, <2>5, <2>6, <2>7 DEF LiveCookie
  <1>7. ASSUME NEW t \in Tabs, TabRenewalRead(t), ~crossed', ~dropped' PROVE LiveCookie'
    <2>1. tabRenewal[t].st = "asked" /\ LiveCookie /\ UNCHANGED <<cookie, tab>>
      BY <1>7 DEF TabRenewalRead, CookieInv
    <2>2. Live(tabRenewal[t].tok)
      BY <2>1 DEF LiveCookie, Asks
    <2>3. UNCHANGED tokenVars /\ tabRenewal' = [tabRenewal EXCEPT ![t].st = "read"]
      BY <1>7, <2>2 DEF TabRenewalRead, Reused, Live
    <2>4. /\ tabRenewal'[t].st = "read" /\ tabRenewal'[t].tok = tabRenewal[t].tok
          /\ \A x \in Tabs : x # t => tabRenewal'[x] = tabRenewal[x]
      BY <1>s, <2>3 DEF TabRenewalState
    <2>5. \A x \in Tabs : /\ InExchange(x)' <=> InExchange(x)
                          /\ Granted(x)' <=> Granted(x)
                          /\ Asks(x)' <=> Asks(x)
                          /\ Left(x)' <=> Left(x)
                          /\ tabRenewal'[x].tok = tabRenewal[x].tok
      BY <2>1, <2>4 DEF InExchange, Granted, Asks, Left
    <2>6. Tokens' = Tokens /\ (\A s : Live(s)' <=> Live(s)) /\ swept' = swept /\ late' = late
      BY <2>3 DEF tokenVars, Live, Tokens
    <2> QED  BY <2>1, <2>5, <2>6 DEF LiveCookie
  <1>8. ASSUME NEW t \in Tabs, TabRenewalCommit(t), ~crossed', ~dropped' PROVE LiveCookie'
    <2> DEFINE tok == tabRenewal[t].tok
    <2>1. /\ tabRenewal[t].st = "read" /\ LiveCookie /\ UNCHANGED <<swept, late, cookie, tab>>
          /\ MayIssue /\ Rotate(tok)
      BY <1>8 DEF TabRenewalCommit, CookieInv
    <2>2. /\ tabRenewal'[t].st = "granted" /\ tabRenewal'[t].tok = NextId
          /\ \A x \in Tabs : x # t => tabRenewal'[x] = tabRenewal[x]
      BY <1>8, <1>s DEF TabRenewalCommit
    <2>3. InExchange(t) /\ Asks(t) /\ tok = cookie.ref /\ tok \in Tokens
      BY <2>1, TabBefore DEF InExchange, LiveCookie, Asks, Live
    <2>4. \A x \in Tabs : x # t => ~InExchange(x) /\ ~InExchange(x)'
      BY <2>1, <2>2, <2>3 DEF LiveCookie, InExchange
    <2>5. ~Left(t)
      BY <2>1, TabBefore DEF TabShape, Left
    <2>6. \A x \in Tabs : ~Granted(x) /\ ~Left(x)' /\ ~Asks(x)' /\ (x # t => ~Granted(x)')
      BY <2>1, <2>2, <2>4, <2>5 DEF InExchange, Granted, Asks, Left
    <2>7. \A s \in Tokens : refresh[s].live => s = tok
      BY <2>1, <2>3, <2>6 DEF LiveCookie, Live
    <2>8. /\ Tokens' = Tokens \union {NextId} /\ refresh'[NextId].live
          /\ \A s \in Tokens : refresh'[s].live <=> refresh[s].live /\ s # tok
      BY <1>s, <2>1, <2>3, RotateRows
    <2>9. NextId \in Tokens' /\ \A s \in Tokens' : refresh'[s].live => s = NextId
      BY <2>7, <2>8
    <2>10. Granted(t)'
      BY <2>2 DEF Granted
    <2> HIDE DEF tok
    <2> QED  BY <2>1, <2>2, <2>4, <2>6, <2>8, <2>9, <2>10 DEF LiveCookie, Live
  <1>9. ASSUME NEW t \in Tabs, Renewed(t), ~crossed', ~dropped' PROVE LiveCookie'
    <2>1. /\ Granted(t) /\ LiveCookie /\ UNCHANGED tokenVars /\ cookie'.ref = tabRenewal[t].tok
      BY <1>9 DEF Renewed, CookieInv, Granted
    <2>2. /\ tabRenewal'[t].st = "idle" /\ tab'[t].doing = tab[t].doing
          /\ \A x \in Tabs : x # t => tabRenewal'[x] = tabRenewal[x] /\ tab'[x] = tab[x]
      BY <1>9, <1>s, NoRenewalFacts DEF Renewed, TabState
    <2>3. InExchange(t) /\ ~Left(t)
      BY <2>1, TabBefore DEF InExchange, Granted, TabShape, Left
    <2>4. \A x \in Tabs : ~InExchange(x)'
      BY <2>1, <2>2, <2>3 DEF LiveCookie, InExchange, Left
    <2>5. \A x \in Tabs : ~Granted(x)' /\ ~Left(x)' /\ ~Asks(x)'
      BY <2>4 DEF InExchange, Granted, Asks, Left
    <2>6. Tokens' = Tokens /\ (\A s : Live(s)' <=> Live(s)) /\ swept' = swept /\ late' = late
      BY <2>1 DEF tokenVars, Live, Tokens
    <2>7. Live(cookie'.ref) /\ \A s \in Tokens : Live(s) => s = cookie'.ref
      BY <2>1 DEF LiveCookie
    <2>8. ~swept /\ late = {}
      BY <2>1 DEF LiveCookie
    <2>9. refresh' = refresh /\ late' = late
      BY <2>1 DEF tokenVars
    <2> QED  BY <2>4, <2>5, <2>6, <2>7, <2>8, <2>9 DEF LiveCookie, Live
  <1>10. ASSUME NEW t \in Tabs, LogoutServed(t), ~crossed', ~dropped' PROVE LiveCookie'
    <2>1. /\ ~Meets(t) /\ LiveCookie /\ UNCHANGED <<swept, late, cookie, tabRenewal>> /\ Revoke(cookie.ref)
          /\ tab[t].doing = "leaving" /\ tabRenewal[t].st = "idle"
          /\ \A x \in Tabs : x # t => tab'[x] = tab[x]
      BY <1>10, <1>s DEF LogoutServed, CookieInv
    <2>2. tab'[t].doing = "left"
      BY <1>10, <1>s DEF LogoutServed, TabState
    <2>3. \A x \in Tabs : ~InExchange(x) /\ (x # t => ~InExchange(x)')
      BY <2>1 DEF Meets, InExchange
    <2>4. \A x \in Tabs : ~Granted(x) /\ ~Granted(x)' /\ ~Asks(x)'
      BY <2>1, <2>3 DEF InExchange, Granted, Asks
    <2>5. \A s \in Tokens : refresh[s].live => s = cookie.ref
      BY <2>1, <2>4 DEF LiveCookie, Live
    <2>6. Tokens' = Tokens
      BY <2>1 DEF Revoke, Tokens
    <2>7. ASSUME NEW s \in Tokens PROVE ~refresh'[s].live
      <3>1. refresh'[s] = [refresh[s] EXCEPT !.live = @ /\ s # cookie.ref] /\ refresh[s] \in RefreshRow
        BY <2>1, <1>s, TableFacts DEF Revoke
      <3>2. refresh'[s].live <=> refresh[s].live /\ s # cookie.ref
        BY <3>1 DEF RefreshRow
      <3> QED  BY <2>5, <3>2
    <2>8. Left(t)'
      BY <2>2 DEF Left
    <2>9. ~swept /\ late = {}
      BY <2>1 DEF LiveCookie
    <2> QED  BY <2>1, <2>3, <2>4, <2>6, <2>7, <2>8, <2>9 DEF LiveCookie, Live
  <1>11. ASSUME NEW t \in Tabs, LogoutAnswered(t), ~crossed', ~dropped' PROVE LiveCookie'
    <2>1. /\ LiveCookie /\ UNCHANGED <<tokenVars, tabRenewal>> /\ cookie'.ref = NoToken /\ Left(t)
          /\ tab'[t].doing = "nothing" /\ \A x \in Tabs : x # t => tab'[x] = tab[x]
      BY <1>11, <1>s DEF LogoutAnswered, CookieInv, Left, LeftTab
    <2>2. tabRenewal[t].st = "idle"
      BY <2>1, TabBefore DEF TabShape, Left
    <2>3. \A x \in Tabs : ~InExchange(x)'
      BY <2>1, <2>2 DEF LiveCookie, InExchange, Left
    <2>4. \A x \in Tabs : ~Granted(x)' /\ ~Left(x)' /\ ~Asks(x)'
      BY <2>3 DEF InExchange, Granted, Asks, Left
    <2>5. Tokens' = Tokens /\ (\A s : Live(s)' <=> Live(s)) /\ swept' = swept /\ late' = late
      BY <2>1 DEF tokenVars, Live, Tokens
    <2>6. ~swept /\ late = {} /\ \A s \in Tokens : ~Live(s)
      BY <2>1 DEF LiveCookie
    <2> QED  BY <2>1, <2>3, <2>4, <2>5, <2>6 DEF LiveCookie
  <1>12. ASSUME NEW s \in Tokens, LateCommit(s), UNCHANGED webVars PROVE CookieInv'
    <2>1. s \in late /\ crossed' = crossed /\ dropped' = dropped
      BY <1>12 DEF LateCommit, webVars
    <2> QED  BY <2>1 DEF CookieInv, LiveCookie
  <1> QED  BY <1>1, <1>2, <1>3, <1>4, <1>5, <1>6, <1>7, <1>8, <1>9, <1>10, <1>11, <1>12
           DEF WebNext, CookieInv

LEMMA CookieStart == TokensInit /\ WebInit => CookieInv
  <1> SUFFICES ASSUME TokensInit, WebInit PROVE CookieInv
    OBVIOUS
  <1>1. Tokens = {} /\ ~swept /\ late = {}
    BY DEF TokensInit, Tokens
  <1>2. \A x \in Tabs : ~InExchange(x) /\ ~Asks(x) /\ ~Granted(x) /\ ~Left(x)
    BY NoRenewalFacts DEF WebInit, InExchange, Asks, Granted, Left
  <1>3. cookie.ref = NoToken
    BY DEF WebInit
  <1> QED  BY <1>1, <1>2, <1>3 DEF CookieInv, LiveCookie

LEMMA CookieMeans == CookieInv => CookieIsTheLiveToken
  <1> SUFFICES ASSUME LiveCookie, NEW s \in Tokens, Live(s)
               PROVE  s = cookie.ref \/ \E t \in Tabs : tabRenewal[t].st = "granted" /\ tabRenewal[t].tok = s
    BY DEF CookieInv, CookieIsTheLiveToken, LiveCookie
  <1> QED  BY DEF LiveCookie, Granted

\* The browser's refresh cookie is its only working token, for any number of
\* tabs, as long as no two tabs crossed and no exchange was lost.
THEOREM OneWorkingToken == WebSpec => []CookieIsTheLiveToken
  BY CookieStart, CookieMeans, BrowserStart, BrowserStep, CookieStep, PTL DEF WebSpec, BrowserVars

\* The steps of the browser that do not reach the table.
LEMMA TableStays ==
  /\ WebExpire \/ UNCHANGED BrowserVars => refresh' = refresh
  /\ \A t \in Tabs : \/ ShowUser(t) \/ MeFails(t) \/ AskAgain(t) \/ StartRenewal(t)
                     \/ Renewed(t) \/ NotRenewed(t)
                     \/ TabRenewalLost(t) \/ LogoutClick(t) \/ LogoutAnswered(t)
                     \/ LogoutLost(t) \/ Reload(t)
                     => refresh' = refresh
  BY DEF WebExpire, BrowserVars, ShowUser, MeFails, AskAgain, StartRenewal, Renewed, NotRenewed, TabRenewalLost,
         LogoutClick, LogoutAnswered, LogoutLost, Reload, tokenVars

LEMMA BrowserLogins ==
  BrowserTypes /\ BrowserInv /\ LoginsBelow /\ [WebNext]_BrowserVars => LoginsBelow'
  <1> SUFFICES ASSUME BrowserTypes, BrowserInv, LoginsBelow, [WebNext]_BrowserVars, refresh' # refresh
               PROVE  LoginsBelow'
    BY DEF LoginsBelow, Tokens
  <1>1. TokensTypeOK
    BY DEF BrowserTypes
  <1>2. ASSUME NEW t \in Tabs, NEW p \in People, WebLogin(t, p) PROVE LoginsBelow'
    BY <1>1, <1>2, LoginsKept DEF WebLogin
  <1>3. ASSUME NEW t \in Tabs, TabRenewalRead(t) PROVE LoginsBelow'
    BY <1>1, <1>3, LoginsKept DEF TabRenewalRead, Reused, tokenVars
  <1>4. ASSUME NEW t \in Tabs, TabRenewalCommit(t) PROVE LoginsBelow'
    BY <1>1, <1>4, TabBefore, LoginsKept DEF TabRenewalCommit, TabShape, Asking
  <1>5. ASSUME NEW t \in Tabs, LogoutServed(t) PROVE LoginsBelow'
    BY <1>1, <1>5, LoginsKept DEF LogoutServed
  <1>6. ASSUME NEW s \in Tokens, LateCommit(s) PROVE LoginsBelow'
    BY <1>1, <1>6, LoginsKept DEF LateCommit
  <1> QED  BY <1>2, <1>3, <1>4, <1>5, <1>6, TableStays DEF WebNext

LEMMA BrowserChainStep ==
  BrowserTypes /\ BrowserInv /\ LoginsBelow /\ CookieInv /\ CookieInv' /\ ~crossed /\ ~dropped
    /\ ~crossed' /\ ~dropped' /\ [WebNext]_BrowserVars => [Chains!Next]_(Chains!chainVars)
  <1> SUFFICES ASSUME BrowserTypes, BrowserInv, LoginsBelow, LiveCookie, LiveCookie',
                      [WebNext]_BrowserVars, refresh' # refresh
               PROVE  Chains!Next
    BY ChainsStay DEF CookieInv
  <1>1. TokensTypeOK
    BY DEF BrowserTypes
  <1>2. OneLive
    <2>1. ASSUME NEW x \in Tabs, Granted(x) PROVE OneLive
      BY <2>1 DEF LiveCookie, OneLive
    <2>2. CASE \A x \in Tabs : ~Granted(x)
      BY <2>2 DEF LiveCookie, OneLive
    <2> QED  BY <2>1, <2>2
  <1>3. ASSUME NEW t \in Tabs, NEW p \in People, WebLogin(t, p) PROVE Chains!Next
    BY <1>1, <1>3, IssueBegins DEF WebLogin, Chains!Next
  <1>4. ASSUME NEW t \in Tabs, TabRenewalRead(t) PROVE FALSE
    <2>1. Live(tabRenewal[t].tok)
      BY <1>4 DEF TabRenewalRead, LiveCookie, Asks
    <2> QED  BY <1>4, <2>1 DEF TabRenewalRead, Reused, Live, tokenVars
  <1>5. ASSUME NEW t \in Tabs, TabRenewalCommit(t) PROVE Chains!Next
    <2>1. /\ MayIssue /\ Rotate(tabRenewal[t].tok)
          /\ Live(tabRenewal[t].tok) /\ tabRenewal[t].tok \in Tokens
      BY <1>5 DEF TabRenewalCommit, LiveCookie, Asks, Live
    <2> QED  BY <1>1, <1>2, <2>1, RotateRenews DEF Chains!Next
  <1>6. ASSUME NEW t \in Tabs, LogoutServed(t) PROVE Chains!Next
    BY <1>1, <1>2, <1>6, RevokeEnds DEF LogoutServed, Chains!Next
  <1>7. ASSUME NEW s \in Tokens, LateCommit(s) PROVE FALSE
    BY <1>7 DEF LateCommit, LiveCookie
  <1> QED  BY <1>3, <1>4, <1>5, <1>6, <1>7, TableStays DEF WebNext

\* As long as no two tabs cross and no exchange is lost, every login of a browser
\* hands one working token on until a logout ends it for good.
THEOREM BrowserChains == WebSpec /\ [](~crossed /\ ~dropped) => Chains!Spec
  <1>1. TokensInit => LoginsBelow
    BY DEF TokensInit, LoginsBelow, Tokens
  <1> QED  BY <1>1, ChainsStart, BrowserStart, CookieStart, BrowserStep, CookieStep, BrowserLogins,
              BrowserChainStep, PTL DEF WebSpec, BrowserVars, Chains!Spec
=============================================================================

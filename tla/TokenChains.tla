---------------------------- MODULE TokenChains ----------------------------
(***************************************************************************)
(* What the rotation of refresh tokens promises: a login works with one    *)
(* token at a time, each renewal hands it over to a token that nobody had  *)
(* before, and a login that is over (logged out, or revoked because a used *)
(* token came back) never works again.                                     *)
(***************************************************************************)
CONSTANT Ids

VARIABLES
  issued,        \* the tokens that were ever handed out
  begun,         \* the logins that ever were, each named by its first token
  working        \* per login, the tokens that still work

chainVars == <<issued, begun, working>>

Init ==
  /\ issued = {} /\ begun = {}
  /\ working = [l \in Ids |-> {}]

Begin(l) ==
  /\ l \notin issued
  /\ issued' = issued \union {l}
  /\ begun' = begun \union {l}
  /\ working' = [working EXCEPT ![l] = {l}]

Renew(l, old, new) ==
  /\ working[l] = {old} /\ new \notin issued
  /\ issued' = issued \union {new}
  /\ working' = [working EXCEPT ![l] = {new}]
  /\ UNCHANGED begun

End(logins) ==
  /\ working' = [l \in Ids |-> IF l \in logins THEN {} ELSE working[l]]
  /\ UNCHANGED <<issued, begun>>

Next ==
  \/ \E l \in Ids : Begin(l)
  \/ \E l, old, new \in Ids : Renew(l, old, new)
  \/ \E logins \in SUBSET Ids : End(logins)

Spec == Init /\ [][Next]_chainVars
=============================================================================

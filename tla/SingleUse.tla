----------------------------- MODULE SingleUse -----------------------------
(***************************************************************************)
(* What a ledger of single-use items promises: an item is claimed at most  *)
(* once, and the claim is never taken back or handed to someone else.      *)
(* qr_tokens ("one slot per time window, single-use") and                  *)
(* face_verify_tokens are both such ledgers, and a leave request that is   *)
(* decided once is one; AttendanceSession is shown to implement this       *)
(* specification for each of the two, Approvals for the third.             *)
(***************************************************************************)
CONSTANTS Items, Claimants, Nobody

VARIABLE claimedBy

Init == claimedBy = [i \in Items |-> Nobody]

Claim(i, c) ==
    /\ claimedBy[i] = Nobody
    /\ claimedBy' = [claimedBy EXCEPT ![i] = c]

Next == \E i \in Items, c \in Claimants : Claim(i, c)

Spec == Init /\ [][Next]_claimedBy
=============================================================================

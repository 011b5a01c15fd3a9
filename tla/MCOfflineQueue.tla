---------------------------- MODULE MCOfflineQueue ----------------------------
(* Model-checking definitions for OfflineQueue: one scan and one leave request. *)
EXTENDS OfflineQueue

CONSTANTS scan, leave

TwoOps == {scan, leave}
OneScan == {scan}
=============================================================================

---------------------------- MODULE MCLiveSession ----------------------------
(* Model-checking definitions for LiveSession. *)
EXTENDS LiveSession, TLC

CONSTANTS ann, bob, t1, t2

TwoStudents == {ann, bob}
TwoThreads == {t1, t2}
Symmetry == Permutations(Students) \cup Permutations(Threads)
=============================================================================

------------------------ MODULE MCAttendanceSession ------------------------
(* Model-checking definitions for AttendanceSession. *)
EXTENDS AttendanceSession, TLC

CONSTANTS s1, s2, r1, r2, r3, c1, c2, f1, f2, f3

OneStudent == {s1}
TwoStudents == {s1, s2}
OneRequest == {r1}
TwoRequests == {r1, r2}
ThreeRequests == {r1, r2, r3}
OneCall == {c1}
TwoCalls == {c1, c2}
OneToken == {f1}
TwoTokens == {f1, f2}
ThreeTokens == {f1, f2, f3}

Symmetry ==
    Permutations(Requests) \cup Permutations(FaceTokens)
=============================================================================

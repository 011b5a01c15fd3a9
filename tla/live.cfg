CONSTANTS
    ann = ann  bob = bob
    t1 = t1  t2 = t2
    NoStudent = NoStudent
    Students <- TwoStudents
    Threads <- TwoThreads
    MinBeats = 2
    MaxRows = 2
    MaxBeats = 2
    MaxOutside = 1
SPECIFICATION Spec
CHECK_DEADLOCK FALSE
SYMMETRY Symmetry
INVARIANTS
    TypeOK
    PresentEarned
    ToldCounted
    NobodyLeftOut
PROPERTIES
    EndReconciles
    EndedIsFinal

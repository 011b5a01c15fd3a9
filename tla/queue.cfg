CONSTANTS
    scan = scan  leave = leave
    NoOp = NoOp
    Ops <- TwoOps
    Attendance <- OneScan
    MaxRetries = 1
    MaxMishaps = 1
SPECIFICATION FairSpec
INVARIANTS
    TypeOK
    GivesUpLate
    DuplicatesExplained
    SavedAccounted
PROPERTIES
    EveryItemLeaves

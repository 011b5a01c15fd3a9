CONSTANTS
    scan = scan  leave = leave
    NoOp = NoOp
    Ops <- TwoOps
    Attendance <- OneScan
    MaxRetries = 1
    MaxMishaps = 0
SPECIFICATION Spec
INVARIANTS
    SavedNotLost

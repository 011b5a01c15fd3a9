CONSTANTS
    s1 = s1  s2 = s2
    r1 = r1  r2 = r2  r3 = r3
    c1 = c1  c2 = c2
    f1 = f1  f2 = f2  f3 = f3
    NoOne = NoOne
    Students <- OneStudent
    Requests <- TwoRequests
    Calls = {}
    CallOps = {}
    FaceTokens <- TwoTokens
    MaxSlot = 1
    MaxVerify = 1
    CleanupSlots = {}
    OverrideTo = {}
    UseGps = TRUE
    BleRequired = FALSE
    Horizon = 0
SPECIFICATION Spec
CHECK_DEADLOCK FALSE
INVARIANTS
    SnapshotHarmless

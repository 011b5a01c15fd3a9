CONSTANTS
    s1 = s1  s2 = s2
    r1 = r1  r2 = r2  r3 = r3
    c1 = c1  c2 = c2
    f1 = f1  f2 = f2  f3 = f3
    NoOne = NoOne
    Students <- OneStudent
    Requests <- OneRequest
    Calls <- OneCall
    CallOps = {"override"}
    FaceTokens <- OneToken
    MaxSlot = 1
    MaxVerify = 1
    CleanupSlots = {}
    OverrideTo = {"late", "medical_leave"}
    UseGps = FALSE
    BleRequired = FALSE
    Horizon = 0
SPECIFICATION Spec
CHECK_DEADLOCK FALSE
PROPERTIES
    OverridePreserved

SPECIFICATION Spec
CONSTANTS
    w1 = w1
    r1 = r1
    r2 = r2
    k1 = k1
    k2 = k2
    Workers = {w1}
    Requests = {r1, r2}
    Keys = {k1, k2}
    NoRotation = NoRotation
    NoSecret = NoSecret
    Idle = Idle
    StageTtl = 1
    Overlap = 2
    Lag = 1
    MaxVersion = 3
    MaxTime = 2
SYMMETRY Symmetry
INVARIANTS
    RotationsSound
    OneActiveSecret
    OneStagePerKey
    CaptureStaysOpenable
CHECK_DEADLOCK FALSE

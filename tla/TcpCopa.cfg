SPECIFICATION Spec
CONSTANTS
    Mss = 2
    InitialCwnd = 20
    Srtt = 4
    Rtts = {4, 12}
    Gaps = {2, 4}
    AckedBytes = {12}
    DetectSpan = 8
    DetectSlack = 0
    StartTime = 2
    UseRttStanding = FALSE
    MaxWindow = 26
    VelocityRange = 8
    ChangeRange = 64
    MaxInverse = 3
INVARIANTS
    CopaTypeOK
    VelocityEarned
    WindowFloor
CHECK_DEADLOCK FALSE

CONSTANTS
    FrameSizes = {2}
    GroupSizes = {1, 2}
    FECNums = {1}
    Rtos = {1}
    MinRtt = 1
    DelayDdl = 3
    CheckInterval = 1
    FrameInterval = 1
    StopGap = 3
    Start = 2
    MaxFrames = 1
    LastEncode = 2
    MaxTime = 7

SPECIFICATION PathSpec

INVARIANTS
    PathTypeOK
    NeverForgotten
    DeliveriesSound
    BatchAddsUp

CHECK_DEADLOCK FALSE

CONSTANTS
    FrameSizes = {1, 2}
    GroupSizes = {1, 2}
    FECNums = {1}
    Rtos = {1, 2}
    MinRtt = 2
    DelayDdl = 3
    CheckInterval = 1
    FrameInterval = 1
    StopGap = 3
    Start = 3
    MaxFrames = 2
    LastEncode = 4
    MaxTime = 10

SPECIFICATION FairSpec

INVARIANTS
    TypeOK
    QueueUntouched
    StoreSound

PROPERTIES
    ImplementsStore
    Settles

CHECK_DEADLOCK FALSE

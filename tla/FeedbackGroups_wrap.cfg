CONSTANTS
    Ids = 8
    MaxInterPacket = 3
    TransitAge = 8
    HistoryLength = 3
    CountAge = 20
    GroupGap = 0
    LockGap = 4
    Reorder = 1
    MaxSent = 10
    MaxTime = 8

SPECIFICATION Spec

INVARIANTS
    CountsWhatWasSent

CHECK_DEADLOCK FALSE

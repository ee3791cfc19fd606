CONSTANTS
    Ids = 8
    MaxInterPacket = 1
    TransitAge = 4
    HistoryLength = 3
    CountAge = 3
    GroupGap = 0
    LockGap = 2
    Reorder = 1
    MaxSent = 10
    MaxTime = 7

SPECIFICATION Spec

INVARIANTS
    HistoriesSound
    SizesCountOnce

PROPERTIES
    LockedOutForever

CHECK_DEADLOCK FALSE

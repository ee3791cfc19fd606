CONSTANTS
    HistoryLen = 1
    MaxDelta = 2
    MaxActualDelay = 2
    WirtcEnable = TRUE
    RateWindow = 2
    MinTxRate = 1
    QueueSizes = {0, 2}
    TxBits = {2}
    MaxAcks = 3
    MaxChanges = 3
    MaxTime = 5

SPECIFICATION AckSpec

INVARIANTS
    AckTypeOK
    AcksInOrder
    HeldBriefly
    DeltaSound

PROPERTIES
    ImplementsLine
    EveryAckLeaves

CHECK_DEADLOCK FALSE

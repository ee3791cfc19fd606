CONSTANTS
    Modes = {"WiFi", "P2P"}
    MaxSeq = 4
    MaxTrouble = 2
    MaxChecks = 2

SPECIFICATION FairSpec

INVARIANTS
    AcksMatchDeliveries
    MissingIsKept
    StopMissesChecks

PROPERTIES
    DeliveredIsSeen

CHECK_DEADLOCK FALSE

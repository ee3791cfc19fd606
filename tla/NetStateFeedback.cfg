CONSTANTS
    Ids = 8
    Window = 1
    Interval = 2
    MaxSent = 10
    MaxTime = 4

SPECIFICATION Spec

INVARIANTS
    RecordSound
    NothingSkipped
    ApGapExact

PROPERTIES
    ReportsAdvance
    LossesExact

CHECK_DEADLOCK FALSE

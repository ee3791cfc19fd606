CONSTANTS
    Hdr = 2
    MSS = 4
    TxBufSize = 8
    FrameInterval = 1
    Window = 2
    KMin = 16
    KMax = 24
    Bits = 8
    Kilo = 1
    Word = 4096
    InFlight = 8
    LastEncode = 6
    MaxTime = 7

SPECIFICATION Spec

INVARIANTS
    FramesArriveWhole
    SentNeverWraps

PROPERTIES
    WritesAtFrameTimes

CHECK_DEADLOCK FALSE

CONSTANTS
    FrameSize <- MCFrameSize
    DdlFrames = 3

SPECIFICATION DecoderSpec

INVARIANTS
    DecoderTypeOK
    PlayedIsPrefix
    SettledOnce
    BoundedLag


SPECIFICATION FairSpec
CONSTANTS
    Capacity = 8
    FrameBytes = 3
    Word = 16
    MaxCallback = 2
    MaxChunk = 1
    MaxCaptured = 24
    MaxDropped = 2
    FlushQuiesces = TRUE
INVARIANTS TypeOK NoOverrun FramesAligned
PROPERTIES FifoSpec Drained
CHECK_DEADLOCK FALSE

SPECIFICATION Spec
CONSTANTS
    FrameLength = 3
    MaxAvail = 7
    MaxBlock = 4
    OutSizes = {0, 1, 3, 6}
    MaxRaw = 5
    AccumBytes = 6
    HeaderFrames = 2
    MaxTaken = 10
INVARIANTS
    InputInOrder
    EveryFrameOffered
    PacketWellFormed
PROPERTY StampedInOrder
CHECK_DEADLOCK FALSE

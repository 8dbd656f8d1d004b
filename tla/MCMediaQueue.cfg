SPECIFICATION FairSpec
CONSTANTS
    Capacity = 2
    MaxPackets = 3
    MaxSessions = 3
    CleanStop = TRUE
INVARIANT IndicesAgree
PROPERTIES SendsInOrder EveryPacketSent
CHECK_DEADLOCK FALSE

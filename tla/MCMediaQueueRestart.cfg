SPECIFICATION FairSpec
CONSTANTS
    Capacity = 2
    MaxPackets = 3
    MaxSessions = 3
    CleanStop = FALSE
PROPERTY SendsInOrder
CHECK_DEADLOCK FALSE

SPECIFICATION FairSpec
CONSTANTS
    MaxSessions = 3
    MaxAttempts = 2
INVARIANTS LossNoticed LossIsReal LinkReleased
 
CHECK_DEADLOCK FALSE

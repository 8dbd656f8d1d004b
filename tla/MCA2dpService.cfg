SPECIFICATION FairSpec
CONSTANTS
    MaxStarts = 2
    MaxAttempts = 2
    MaxFaults = 1
    Modes = {"loopback", "switching"}
    EncodeOverruns = FALSE
INVARIANTS RunningTruthful TransportAlive CleanExit EncodeSafe StateSettles
PROPERTY UiReturns
\* The UI thread really may block for good: UiReturns says in which ways.
CHECK_DEADLOCK FALSE

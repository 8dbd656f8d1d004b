SPECIFICATION Spec
CONSTANTS
    Headsets = {h1, h2}
    SlowLoop = FALSE
INVARIANTS StackSingle ScanHonest
PROPERTY StackCallsReturn

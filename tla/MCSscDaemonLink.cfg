SPECIFICATION FairSpec
CONSTANTS
    MaxFrames = 6
    MaxPending = 2
    Outcomes = {"frame", "none", "big"}
INVARIANT InStep
PROPERTIES AnswersInOrder EncodeReturns

SPECIFICATION RequestSpec
CONSTANTS
    MaxChunk = 2
    MaxObject = 5
    Limit = 3
    DrainLimit = 1
    Threshold = 1
INVARIANTS AtRequestBoundary PassedIsExamined
PROPERTY ContinueIsAwaited
CHECK_DEADLOCK FALSE

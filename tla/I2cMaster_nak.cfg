SPECIFICATION Spec
CONSTANTS
    Length = 1
    Timeout = 2
    Word = 6
    StartTime = 0
    MaxTime = 12
    MaxCalls = 1
    HasNak = TRUE
INVARIANT SuccessMeansAcknowledged
CHECK_DEADLOCK FALSE

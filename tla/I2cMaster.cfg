\* A clock of 64 values: its low word carries at 56 and it starts again at 64.
SPECIFICATION FairSpec
CONSTANTS
    Length = 3
    Timeout = 2
    Word = 8
    StartTime = 50
    MaxTime = 72
    MaxCalls = 2
    HasNak = TRUE
INVARIANTS
    NoOverrun
    Patient
PROPERTIES
    ImplementsCall
    CallReturns
CHECK_DEADLOCK FALSE

SPECIFICATION Spec
CONSTANTS
    Frames = {1, 4, 7}
    Delta = 3
    GravityCount = 2
    None = None
    Motions = {do, re}
    Debounce = 3
    Times = 3
    TimeoutValue = 2
    Threshold = 4
    MaxPause = 5
INVARIANT
    PassMeansExecuted

\* 4 is near to 1 and to 7, which are far apart; deaf for 2 frames, a pause is more than 4.
SPECIFICATION Spec
CONSTANTS
    Frames = {1, 4, 7}
    Delta = 3
    GravityCount = 2
    None = None
    Motions = {do, re}
    Debounce = 3
    Times = 3
    TimeoutValue = 2
    Threshold = 4
    MaxPause = 5
INVARIANTS
    NeverStuck
    Calibrated
    Settled
    NoRapidBeat
    TempoIsRecent
    IInv
PROPERTIES
    NoSuddenJump
    Steady

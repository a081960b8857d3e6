\* A frame of one float, a reply that reaches into it, one byte read past the
\* end, and a counter that saturates at 4.
SPECIFICATION Spec
CONSTANTS
    SendCount = 6
    ReplyCount = 3
    Overread = 1
    Poses <- AllPoses
    Near <- NearPairs
    NoPose = NoPose
    Limit = 4
    Threshold = 3
    MaxHistory = 5
    MaxFrames = 9
CHECK_DEADLOCK FALSE
INVARIANTS
    DamageConfined
    Recovers
    GoesOut
    Tolerant
    TurnedTogether
PROPERTY ReferenceFixed

SPECIFICATION FairSpec
CONSTANT
    Sensors = 3
INVARIANTS
    FaultConfined
    NoTickLost
PROPERTY
    FramesKeepComing

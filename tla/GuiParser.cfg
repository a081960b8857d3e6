\* Sensors of two samples; 0 for the bytes of a sample that ends the frame,
\* 65 for one that looks like a flag.
SPECIFICATION Spec
CONSTANTS
    Sensors = 2
    IMUCount = 2
    Axes = 2
    Data = {0, 65}
    MaxLost = 1
    MaxFrames = 2
    MaxBuffer = 3
INVARIANTS
    WholeFrame
    DamageConfined
CHECK_DEADLOCK FALSE

SPECIFICATION FairSpec
CONSTANTS
    QueueLength = 1
    HeapBlocks = 4
    ImuCount = 1
PROPERTIES
    FramesArrive
    LeakIsFatal
INVARIANT LifetimeBound

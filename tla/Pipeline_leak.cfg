SPECIFICATION Spec
CONSTANTS
    QueueLength = 1
    HeapBlocks = 8
    ImuCount = 1
INVARIANT NoLeak

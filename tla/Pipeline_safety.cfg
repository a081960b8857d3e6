\* Queues of two entries and a heap of eight blocks.
SPECIFICATION Spec
CONSTANTS
    QueueLength = 2
    HeapBlocks = 8
    ImuCount = 1
INVARIANTS
    InOrder
    NoFrameDropped
    ReceiveNeverBlocks
    PointersLive
    NothingBeforeBacklog
    IInv
PROPERTY ImplementsChannel

\* As in the source the frame is longer than the FIFO, by two bytes.
SPECIFICATION FairSpec
CONSTANTS
    FrameSize = 6
    FifoDepth = 4
    MaxFrames = 5
    MaxAborts = 2
INVARIANTS
    WholeFrames
    NoReplay
    NoOverrun
PROPERTY
    TransfersEnd

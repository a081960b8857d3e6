SPECIFICATION FairSpec
CONSTANTS
    Handles = {h1, h2}
    NoHandle = NoHandle
    TransactionSize = 3
    BufferSize = 4
    WriteSize = 5
    MaxEvents = 2
INVARIANTS
    FrameShape
    HandleStaysValid
PROPERTY NewestIsServed

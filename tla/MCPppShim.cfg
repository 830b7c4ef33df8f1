SPECIFICATION FairSpec
CONSTANTS
    Chunk = 2
    ShimBuf = 4
    QueueSize = 2
    MaxBytes = 3
INVARIANTS
    InOrder
PROPERTIES
    BusyLineMoves
    EofEndsRelay

SPECIFICATION FairSpec
CONSTANTS
    DataBits = 2
    QueueSize = 8
    Wrap = 16
    OutSize = 2
    Loads <- Traffic
    MsgBits = 3
    Chunk = 1
    PpySize = 1
    SockSize = 1
INVARIANTS
    TxExact
    InStepDecodes
    RxInOrder
    NeverFlushed
PROPERTIES
    DropsOnlyWhenAhead
    TxArrives

SPECIFICATION FairSpec
CONSTANTS
    Base = 3
    Kinds = {0, 1}
    Lengths = {0, 1, 4}
    MaxPayload = 2
    SockBuf = 4
    MaxMsgs = 3
INVARIANTS
    FramesIntact
    NothingLostAtEof
PROPERTIES
    EveryMessageArrives

SPECIFICATION FairSpec
CONSTANTS
    a = a
    b = b
    NoCall = NoCall
    Callers <- OneCaller
    Limits <- AnyLimit
    RxqSize = 4
    MaxRtp = 3
    MaxLag = 2
PROPERTIES
    UnheardCallEnds
    GhostCallEnds
    ByeEndsCall
CHECK_DEADLOCK FALSE

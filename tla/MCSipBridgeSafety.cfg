SPECIFICATION Spec
CONSTANTS
    a = a
    b = b
    NoCall = NoCall
    Callers <- TwoCallers
    Limits <- AnyLimit
    RxqSize = 3
    MaxRtp = 1
    MaxLag = 1
SYMMETRY Symmetry
INVARIANTS
    NothingLeaks
    AudioOfThisCall
PROPERTIES
    OnlyOwnerEnds
CHECK_DEADLOCK FALSE

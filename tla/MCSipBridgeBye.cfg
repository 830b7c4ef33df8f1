SPECIFICATION Spec
CONSTANTS
    a = a
    b = b
    NoCall = NoCall
    Callers <- TwoCallers
    Limits <- Unlimited
    RxqSize = 3
    MaxRtp = 1
    MaxLag = 1
SYMMETRY Symmetry
INVARIANTS
    ByeOnSipSocket

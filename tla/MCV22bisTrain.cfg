SPECIFICATION FairSpec
CONSTANTS
    Rates <- AnyRate
    Delays <- AnyDelay
    Starts <- AnyStart
    DipLength = 59
INVARIANTS
    RatesAgree
    DataFindsListener
PROPERTIES
    BothTrain

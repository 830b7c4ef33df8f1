SPECIFICATION FairSpec
CONSTANTS
    Configs <- AllConfigs
    MaxTimeouts = 3
    ToneFrames = 2
    GuardFrames = 2
    NoCarrierFrames = 2
INVARIANTS
    EngineOwnsLine
    DataModeBytesOnly
    NoCarrierClock
    V8OutcomeActedOn
    CleanExit
    
PROPERTIES
    KeepsSession
    CallEnds
    PppdDeathNoticed

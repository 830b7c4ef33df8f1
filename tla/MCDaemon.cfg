SPECIFICATION FairSpec
CONSTANTS
    Starts = 2
    Calls = 2
    Backlog = 2
CHECK_DEADLOCK FALSE
INVARIANTS
    OnlyItsOwn
    PortIsFree
    AtMostOneMore
PROPERTIES
    EveryCallerHeard
    HangupSeen

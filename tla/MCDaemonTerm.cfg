SPECIFICATION FairSpec
CONSTANTS
    Starts = 1
    Calls = 1
    Backlog = 2
CHECK_DEADLOCK FALSE
PROPERTIES
    TermEndsDaemon

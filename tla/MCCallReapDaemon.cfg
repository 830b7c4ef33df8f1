SPECIFICATION FairSpec
CONSTANTS
    Configs <- DaemonPppCalls
    MaxTimeouts = 2
    ToneFrames = 2
    GuardFrames = 1
    NoCarrierFrames = 2
PROPERTIES PppdDeathEndsCall

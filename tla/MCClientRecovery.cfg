SPECIFICATION FairSpec
CONSTANTS
    Sender = {}
    MaxRetries = 0
    MaxFaults = 1
PROPERTIES
    StopEnds
    ComesBack
CHECK_DEADLOCK FALSE

SPECIFICATION Spec
CONSTANTS
    Sender = {"closer"}
    MaxRetries = 1
    MaxFaults = 2
INVARIANTS
    TypeOK
    FactsOfCurrent
    AckMatches
    StoppedIsQuiet
PROPERTIES
    OneSession
CHECK_DEADLOCK FALSE

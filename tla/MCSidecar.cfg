SPECIFICATION FairSpec
CONSTANTS
    c1 = c1
    c2 = c2
    Conn = {c1, c2}
    main = main
    Closer <- Closers
    ConnId = {i1}
    Manager = {1, 2}
    Candidate = {k1}
INVARIANTS
    PoolSound
PROPERTIES
    DisconnectCleans
    ShutdownEnds
CHECK_DEADLOCK FALSE

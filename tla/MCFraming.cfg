SPECIFICATION Spec
CONSTANTS
    Sender = {s1, s2}
    Id <- ShortIds
    Bytes <- Payloads
    MaxBodyLength = 4
    IdLimit = 3
    MaxSent = 3
INVARIANTS
    StreamIntact
CHECK_DEADLOCK FALSE

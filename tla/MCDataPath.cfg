SPECIFICATION Spec
CONSTANTS
    s1 = s1
    s2 = s2
    mgr = m1
    Manager <- OneManager
    Candidate = {}
    Sender = {s1, s2}
    Caller = {s1, s2}
    Buffer = {b1, b2, b3}
    QueueCap = 1
    High = 1
    Low = 0
    MaxSwings = 1
    MaxBatchCount = 2
    MaxMsgs = 3
SYMMETRY Symmetry
INVARIANTS
    ChannelSound
    EachOnce
CHECK_DEADLOCK FALSE

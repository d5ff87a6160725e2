SPECIFICATION Spec
CONSTANTS
    a = a
    b = b
    Id = {a, b}
    Home <- FirstControl
    MaxControls = 2
    Object = {1, 2}
    QueueSize = 1
    QueueBytes = 2
    MaxLocalConnections = 1
    Remembered = 2
    NoticeSize = 1
    None = None
SYMMETRY Alike
INVARIANTS
    QueuesSound
    LocalOfCurrent
    NeverReopened
    AnnouncedOnce
    ClosesReported
    TasksEnd
CHECK_DEADLOCK FALSE

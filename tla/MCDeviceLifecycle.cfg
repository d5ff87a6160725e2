SPECIFICATION Spec
CONSTANTS
    d1 = d1
    d2 = d2
    c1 = c1
    c2 = c2
    c3 = c3
    Device = {d1, d2}
    Channel = {c1, c2, c3}
    Admin = {a1}
    Port = {1, 2, 3}
    LockOf <- OwnStripe
    Claims <- Reconnection
    AdminOps = {"disconnect", "ban", "unban", "preset", "delete", "update"}
    MaxRegister = 1
    MaxOps = 2
    NoDevice = NoDevice
    NoSession = NoSession
INVARIANTS
    ActiveSessionListens
    BannedStaysOut
    ToldItsPort
PROPERTIES
    LiveSessionKept
    Implements
CHECK_DEADLOCK FALSE

SPECIFICATION OfflineFairSpec
CONSTANTS
    d1 = d1
    d2 = d2
    c1 = c1
    c2 = c2
    Device = {d1, d2}
    Channel = {c1, c2}
    Admin = {a1}
    Port = {1, 2}
    LockOf <- OwnStripe
    Claims <- Contender
    AdminOps = {"disconnect", "update"}
    MaxRegister = 2
    MaxOps = 2
    NoDevice = NoDevice
    NoSession = NoSession
INVARIANTS
    SessionReachable
    OfflineIsSilent
PROPERTIES
    ClosedIsForgotten
CHECK_DEADLOCK FALSE

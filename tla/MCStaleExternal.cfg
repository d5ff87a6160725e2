SPECIFICATION ConnSpec
CONSTANTS
    d1 = d1
    d2 = d2
    c1 = c1
    c2 = c2
    c3 = c3
    Device = {d1}
    Channel = {c1, c2}
    Admin = {a1}
    Port = {1}
    LockOf <- OwnStripe
    Claims <- Reconnection
    AdminOps = {}
    MaxRegister = 1
    MaxOps = 0
    External = {e1}
    Beating = {c1}
    NoDevice = NoDevice
    NoSession = NoSession
INVARIANTS
    OpenIsCurrent
CHECK_DEADLOCK FALSE

SPECIFICATION ConnSpec
CONSTANTS
    d1 = d1
    d2 = d2
    c1 = c1
    c2 = c2
    c3 = c3
    Device = {d1, d2}
    Channel = {c1, c3}
    Admin = {a1}
    Port = {1, 2}
    LockOf <- OwnStripe
    Claims <- Takeover
    AdminOps = {"disconnect", "delete", "preset", "update"}
    MaxRegister = 1
    MaxOps = 2
    External = {e1}
    Beating = {c3}
    NoDevice = NoDevice
    NoSession = NoSession
INVARIANTS
    ConnTypeOK
    QuietIsCurrent
    ClientLearnsOfClose
    NoCrossDevice
    TeardownFindsIt
CHECK_DEADLOCK FALSE

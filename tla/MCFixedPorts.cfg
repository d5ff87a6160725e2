SPECIFICATION Spec
CONSTANTS
    Device = {d1, d2, d3}
    NoDevice = NoDevice
    PortStart = 6000
    PortEnd = 6002
INVARIANTS
    Inv
    Reliable
PROPERTIES
    OnlineOnlyByPublish
    ReservationsKept

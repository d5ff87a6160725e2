------------------------- MODULE MCDeviceLifecycle -------------------------
(* Instances of DeviceLifecycle for TLC. *)
EXTENDS DeviceLifecycle

CONSTANTS d1, d2, c1, c2, c3

\* Every device on a stripe of its own: the most concurrency.
OwnStripe == [d \in Device |-> d]

\* Two connections of one device (a reconnection), one of another.
Reconnection == [c \in Channel |-> IF c = c3 THEN {d2} ELSE {d1}]
=============================================================================

----------------------- MODULE MCExternalConnections -----------------------
(* Instances of ExternalConnections for TLC. *)
EXTENDS ExternalConnections

CONSTANTS d1, d2, c1, c2, c3

OwnStripe == [d \in Device |-> d]

\* Two connections of one device (a reconnection), one of another.
Reconnection == [c \in Channel |-> IF c = c3 THEN {d2} ELSE {d1}]

\* A second connection that is a reconnection of d1 or the other device.
Takeover == [c \in Channel |-> IF c = c3 THEN {d1, d2} ELSE {d1}]
=============================================================================

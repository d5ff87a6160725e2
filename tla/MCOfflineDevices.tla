-------------------------- MODULE MCOfflineDevices --------------------------
(* Instances of OfflineDevices for TLC. *)
EXTENDS OfflineDevices

CONSTANTS d1, d2, c1, c2

\* Every device on a stripe of its own: the most concurrency.
OwnStripe == [d \in Device |-> d]

\* A connection that asks to be both devices.
Contender == [c \in Channel |-> IF c = c1 THEN {d1} ELSE {d1, d2}]
=============================================================================

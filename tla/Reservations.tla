--------------------------- MODULE Reservations ---------------------------
(***************************************************************************)
(* What outView promises about fixed ports, with no cache, no transaction  *)
(* and no crash: every device holds at most one external port, no port is  *)
(* held by two devices, and a device's port changes only when it is        *)
(* assigned (to a free port) or released.  A restart of the server is a    *)
(* stuttering step here: reservations survive it.                          *)
(***************************************************************************)
CONSTANTS Device, Port, NoPort

VARIABLE reserved   \* the port each device holds, NoPort when it holds none

Held(p) == \E d \in Device : reserved[d] = p

Init == reserved = [d \in Device |-> NoPort]

\* A device without a port gets one, or a device with one is moved.
Assign(d, p) ==
    /\ ~Held(p)
    /\ reserved' = [reserved EXCEPT ![d] = p]

Release(d) ==
    /\ reserved[d] # NoPort
    /\ reserved' = [reserved EXCEPT ![d] = NoPort]

Next == \E d \in Device : Release(d) \/ \E p \in Port : Assign(d, p)

Spec == Init /\ [][Next]_reserved
=============================================================================

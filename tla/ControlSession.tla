--------------------------- MODULE ControlSession ---------------------------
(***************************************************************************)
(* What the rest of the client may rely on about its control connection:   *)
(* there is at most one, and a new one is installed only when everything   *)
(* that belonged to the lost one has been cleared away.                    *)
(***************************************************************************)
CONSTANTS Conn, NoConn

VARIABLES
    current,    \* the installed control connection
    clearing    \* the lost one that is being cleared away

Init == current = NoConn /\ clearing = NoConn

Install(g) ==
    /\ current = NoConn /\ clearing = NoConn
    /\ current' = g
    /\ UNCHANGED clearing

Lose ==
    /\ current # NoConn
    /\ clearing' = current
    /\ current' = NoConn

Cleared ==
    /\ clearing # NoConn
    /\ clearing' = NoConn
    /\ UNCHANGED current

Next == Lose \/ Cleared \/ \E g \in Conn : Install(g)

Spec == Init /\ [][Next]_<<current, clearing>>
=============================================================================

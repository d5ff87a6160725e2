------------------------------ MODULE Sidecar ------------------------------
(***************************************************************************)
(* cmd/sidecar/main.go and ipc/server.go: the sidecar process.  The Java   *)
(* server connects, is served by one goroutine per connection, and goes    *)
(* away; then the goroutine closes every peer connection of the pool.      *)
(* A signal closes them too and then the server, which waits for the       *)
(* goroutines.                                                             *)
(*                                                                         *)
(* Requests for new peer connections (create_pc of protocol.go) have no    *)
(* handler in main.go yet: Create stands for whoever will call it, and any *)
(* number of connections may be served meanwhile.                          *)
(***************************************************************************)
EXTENDS SidecarPool

CONSTANTS
    Conn,         \* IPC connections
    main          \* the main goroutine

ASSUME CloserAssumption == main \notin Conn /\ Closer = Conn \cup {main}

VARIABLES
    conn,         \* each connection: how far it has come
    java,         \* connections that Java keeps open
    serving,      \* the server: its listener, and how far Close has come
    waiting       \* wg: handlers that Close waits for

sidecarVars == <<conn, java, serving, waiting>>
vars == <<managerVars, poolVars, sidecarVars>>

TypeOK ==
    /\ PoolTypeOK
    /\ conn \in [Conn -> {"new", "handled", "left", "cleaning", "gone"}]
    /\ java \subseteq Conn
    /\ serving \in {"yes", "signalled", "closing", "stopped"}
    /\ waiting \subseteq Conn

Init ==
    /\ PoolInit
    /\ conn = [c \in Conn |-> "new"] /\ java = {}
    /\ serving = "yes" /\ waiting = {}

Moves(c, from, to) == conn[c] = from /\ conn' = [conn EXCEPT ![c] = to]

\* Java connects, and goes away at any time.  acceptLoop: Accept, wg.Add and a
\* goroutine for the connection.
Accept(c) ==
    /\ serving \in {"yes", "signalled"} /\ Moves(c, "new", "handled")
    /\ java' = java \cup {c} /\ waiting' = waiting \cup {c}
    /\ UNCHANGED <<serving, poolVars, managerVars>>

HangUp(c) ==
    /\ c \in java /\ java' = java \ {c}
    /\ UNCHANGED <<conn, serving, waiting, poolVars, managerVars>>

\* handleConn ends when Java has gone (or has sent what it cannot read): the
\* connection is closed and wg.Done comes before onDisconnect.
FaultyHandlerLeaves(c) ==
    /\ hands[c] = {} /\ Moves(c, "handled", "left")
    /\ java' = java \ {c}
    /\ UNCHANGED <<waiting, serving, poolVars, managerVars>>
HandlerLeaves(c) ==
    /\ hands[c] = {} /\ Moves(c, "handled", "left")
    /\ java' = java \ {c} /\ waiting' = waiting \ {c}
    /\ UNCHANGED <<serving, poolVars, managerVars>>

\* onDisconnect: CloseAll of the pool.
FaultyOnDisconnect(c) ==
    /\ Moves(c, "left", "cleaning")
    /\ IF java = {} THEN CloseAll(c) ELSE UNCHANGED <<poolVars, managerVars>>
    /\ UNCHANGED <<java, serving, waiting>>
OnDisconnect(c) ==
    /\ Moves(c, "left", "cleaning")
    /\ CloseAll(c)
    /\ UNCHANGED <<java, serving, waiting>>

CleanedUp(c) ==
    /\ hands[c] = {} /\ Moves(c, "cleaning", "gone")
    /\ UNCHANGED <<java, serving, waiting, poolVars, managerVars>>

\* main after a signal: CloseAll, then Close of the server, which closes the
\* listener and waits for the handlers.
Signal ==
    /\ serving = "yes" /\ serving' = "signalled"
    /\ CloseAll(main)
    /\ UNCHANGED <<conn, java, waiting>>

CloseServer ==
    /\ serving = "signalled" /\ hands[main] = {}
    /\ serving' = "closing"
    /\ UNCHANGED <<conn, java, waiting, poolVars, managerVars>>

Stopped ==
    /\ serving = "closing" /\ waiting = {}
    /\ serving' = "stopped"
    /\ UNCHANGED <<conn, java, waiting, poolVars, managerVars>>

\* The goroutines of a connection, of a manager's doClose, and main.
ConnStep(c) ==
    /\ serving # "stopped"
    /\ \/ c \notin java /\ HandlerLeaves(c)
       \/ OnDisconnect(c) \/ CleanedUp(c)
       \/ Works(c) /\ UNCHANGED sidecarVars

Frees(m) == serving # "stopped" /\ ShutPeer(m) /\ UNCHANGED <<poolVars, sidecarVars>>

MainStep == CloseServer \/ Stopped \/ (Works(main) /\ UNCHANGED sidecarVars)

Next ==
    /\ serving # "stopped"
    /\ \/ PoolNext /\ UNCHANGED sidecarVars
       \/ \E i \in ConnId, c \in Conn : conn[c] = "handled" /\ Remove(c, i) /\ UNCHANGED sidecarVars
       \/ \E c \in Conn : Accept(c) \/ HangUp(c) \/ HandlerLeaves(c) \/ ConnStep(c)
       \/ \E m \in Manager : Frees(m)
       \/ Signal \/ MainStep

Spec == Init /\ [][Next]_vars

\* Goroutines run; a handler whose connection is gone notices; main goes on
\* once it is signalled.  Nothing makes Java or a peer do anything.
Fairness ==
    /\ \A c \in Conn : WF_vars(ConnStep(c))
    /\ \A m \in Manager : WF_vars(Frees(m))
    /\ WF_vars(MainStep)

FairSpec == Spec /\ Fairness

-----------------------------------------------------------------------------
(* Properties.                                                             *)

\* In every state the types hold and no manager is lost or counted twice.
PoolSound == TypeOK /\ Accounted

\* "When the Java server disconnects (or restarts), close all active
\* PeerConnections" (main.go): whatever is in the pool when a handler ends is
\* closed at last, unless the process stops first.
DisconnectCleans ==
    \A m \in Manager :
        (m \in InPool /\ \E c \in Conn : conn[c] = "left")
            ~> (CloseReturns(m) \/ serving = "stopped")

\* A signal ends the process, unless Java opens or keeps a connection: Close
\* waits for its handler, and nobody closes that connection (server.go, Close).
ShutdownEnds ==
    (serving \in {"signalled", "closing"} /\ java = {})
        ~> (serving = "stopped" \/ java # {})

=============================================================================

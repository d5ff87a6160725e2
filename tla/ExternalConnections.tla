------------------------- MODULE ExternalConnections -------------------------
(***************************************************************************)
(* RawDataHandler, the close messages of ProxyHandler and HeartbeatHandler *)
(* on top of DeviceLifecycle: TCP connections of outside users (mstsc) to  *)
(* the listening fixed ports.                                              *)
(*                                                                         *)
(* The event loop of an external connection runs channelActive, its reads, *)
(* its close and channelInactive one after the other; control channels,    *)
(* whose loops handle heartbeats, DATA and CLOSE_CONNECTION of devices, and *)
(* the lifecycle's business threads run between any two of its steps.  A   *)
(* close() from another thread takes effect when the loop gets to it.      *)
(***************************************************************************)
EXTENDS DeviceLifecycle

CONSTANTS
    External,   \* connections of outside users
    Beating     \* the control channels that send heartbeats

ASSUME BeatingAssumption == Beating \subseteq Channel

VARIABLES
    ext,    \* the external connections
    beat    \* the heartbeat each control channel's loop is handling

connVars == <<vars, ext, beat>>

\* owner: whose listener accepted it (ghost); listening: parent() is the
\* current listener of the port; bound: in the three maps of RawDataHandler;
\* registered: in portConnectionMap; cleaned: CLEANUP_STARTED; moved: the device
\* lost the reservation between getDeviceByPort and getSession (ghost); byClient:
\* the device asked for the close (ghost).
Connection ==
    [tcp : {"none", "up", "closing", "down", "done"},
     at : {"idle", "lookup", "bind", "register", "recheck"},
     port : Port \cup {NoPort}, owner : Device \cup {NoDevice},
     device : Device \cup {NoDevice}, sess : SessionId \cup {NoSession},
     listening : BOOLEAN, bound : BOOLEAN, registered : BOOLEAN,
     cleaned : BOOLEAN, notified : BOOLEAN, moved : BOOLEAN, byClient : BOOLEAN]
NoConnection ==
    [tcp |-> "none", at |-> "idle", port |-> NoPort, owner |-> NoDevice,
     device |-> NoDevice, sess |-> NoSession, listening |-> FALSE, bound |-> FALSE,
     registered |-> FALSE, cleaned |-> FALSE, notified |-> FALSE, moved |-> FALSE,
     byClient |-> FALSE]

Beat == [device : Device \cup {NoDevice}, sess : SessionId \cup {NoSession}]
NoBeat == [device |-> NoDevice, sess |-> NoSession]

\* A connection that is cleaned up has no entry left anywhere.
ConnTypeOK ==
    /\ TypeOK
    /\ ext \in [External -> Connection]
    /\ beat \in [Channel -> Beat]
    /\ \A e \in External : ext[e].cleaned => ~ext[e].bound /\ ~ext[e].registered

Up(e) == ext[e].tcp \in {"up", "closing"}

\* ownsConnection(connectionId, controlChannel).
Owns(c, e) ==
    LET s == ext[e].sess IN
    ext[e].bound /\ SessionActive(s) /\ ChannelOf(s) = c /\ SessionByChannel(c) = s

-----------------------------------------------------------------------------
(* cleanupConnection: the winner of CLEANUP_STARTED takes all entries, and *)
(* tells the device unless the device asked.                               *)

FaultyCleanup(x, notify) ==
    IF x.cleaned THEN x
    ELSE [x EXCEPT !.cleaned = TRUE, !.bound = FALSE,
                   !.notified = notify /\ x.bound /\ IsActive(ChannelOf(x.sess))]

Cleanup(x, notify) ==
    IF x.cleaned THEN x
    ELSE [x EXCEPT !.cleaned = TRUE, !.bound = FALSE, !.registered = FALSE,
                   !.notified = notify /\ x.bound /\ IsActive(ChannelOf(x.sess))]

Loop(e, x) == ext' = [ext EXCEPT ![e] = x] /\ UNCHANGED <<vars, beat>>

-----------------------------------------------------------------------------
(* channelActive *)

Accept(e, p) ==
    /\ ext[e].tcp = "none" /\ listener[p] # NoDevice
    /\ Loop(e, [ext[e] EXCEPT !.tcp = "up", !.at = "lookup", !.port = p,
                              !.owner = listener[p], !.listening = TRUE])

\* getDeviceByPort, from the published reservations.
Lookup(e) ==
    /\ ext[e].at = "lookup"
    /\ \/ \E d \in Device : /\ reserved[d] = ext[e].port
                            /\ Loop(e, [ext[e] EXCEPT !.at = "bind", !.device = d])
       \/ /\ Unreserved(ext[e].port)
          /\ Loop(e, [ext[e] EXCEPT !.at = "idle", !.tcp = "down"])

\* getSession(deviceId), which must be active; then the three maps.
BindSession(e) ==
    LET s == sessionMap[ext[e].device] IN
    /\ ext[e].at = "bind"
    /\ IF SessionActive(s)
       THEN Loop(e, [ext[e] EXCEPT !.at = "register", !.sess = s, !.bound = TRUE])
       ELSE Loop(e, [ext[e] EXCEPT !.at = "idle", !.tcp = "down"])

\* registerConnection: into portConnectionMap only below the current listener.
FaultyRegisterConnection(e) ==
    /\ ext[e].at = "register"
    /\ IF listener[ext[e].port] # NoDevice
       THEN Loop(e, [ext[e] EXCEPT !.at = "recheck", !.registered = TRUE])
       ELSE Loop(e, [ext[e] EXCEPT !.at = "recheck", !.tcp = "down"])

UnclosedRegisterConnection(e) ==
    /\ ext[e].at = "register"
    /\ Loop(e, [ext[e] EXCEPT !.at = "recheck", !.registered = ext[e].listening])

RegisterConnection(e) ==
    /\ ext[e].at = "register"
    /\ IF ext[e].listening
       THEN Loop(e, [ext[e] EXCEPT !.at = "recheck", !.registered = TRUE])
       ELSE Loop(e, [ext[e] EXCEPT !.at = "recheck", !.tcp = "down"])

\* The session is looked at again: it may have been replaced meanwhile.
FaultyRecheck(e) ==
    /\ ext[e].at = "recheck"
    /\ Loop(e, [ext[e] EXCEPT !.at = "idle"])

Recheck(e) ==
    LET s == ext[e].sess IN
    /\ ext[e].at = "recheck"
    /\ IF SessionActive(s) /\ sessionMap[ext[e].device] = s
       THEN Loop(e, [ext[e] EXCEPT !.at = "idle"])
       ELSE Loop(e, [Cleanup(ext[e], TRUE) EXCEPT !.at = "idle", !.tcp = "down"])

-----------------------------------------------------------------------------
(* Reads, closes.  A device knows a connection only from its first DATA, which *)
(* the loop sends after channelActive.                                      *)

\* channelRead finds no live session (any more) and closes; a read that is
\* forwarded changes nothing here.
ReadOrphan(e) ==
    /\ Up(e) /\ ext[e].at = "idle"
    /\ ~ext[e].bound \/ ~SessionActive(ext[e].sess)
    /\ Loop(e, [ext[e] EXCEPT !.tcp = "down"])

\* The user disconnects, or a close that was asked for takes effect.
Close(e) ==
    /\ Up(e) /\ ext[e].at = "idle"
    /\ Loop(e, [ext[e] EXCEPT !.tcp = "down"])

FaultyInactive(e) ==
    /\ ext[e].tcp = "down" /\ ext[e].at = "idle"
    /\ Loop(e, [Cleanup(ext[e], FALSE) EXCEPT !.tcp = "done"])

Inactive(e) ==
    /\ ext[e].tcp = "down" /\ ext[e].at = "idle"
    /\ Loop(e, [Cleanup(ext[e], TRUE) EXCEPT !.tcp = "done"])

\* DATA for a user that does not read fast enough, or whose socket fails.
SlowConsumer(c, e) ==
    /\ Owns(c, e) /\ Up(e) /\ ext[e].at = "idle"
    /\ Loop(e, [Cleanup(ext[e], TRUE) EXCEPT !.tcp = "closing"])

\* CLOSE_CONNECTION from the device.
ClientClose(c, e) ==
    /\ Owns(c, e) /\ Up(e) /\ ext[e].at = "idle"
    /\ Loop(e, [Cleanup(ext[e], FALSE) EXCEPT !.tcp = "closing", !.byClient = TRUE])

-----------------------------------------------------------------------------
(* HeartbeatHandler: three reads and writes without the lock *)

HeartbeatRead(c) ==
    /\ IsActive(c) /\ beat[c] = NoBeat
    /\ SessionByChannel(c) # NoSession
    /\ beat' = [beat EXCEPT ![c].device = sess[SessionByChannel(c)].device]
    /\ UNCHANGED <<vars, ext>>

HeartbeatGet(c) ==
    LET s == sessionMap[beat[c].device] IN
    /\ beat[c].device # NoDevice /\ beat[c].sess = NoSession
    /\ beat' = [beat EXCEPT ![c] = IF s = NoSession THEN NoBeat ELSE [@ EXCEPT !.sess = s]]
    /\ UNCHANGED <<vars, ext>>

HeartbeatSet(c) ==
    /\ beat[c].sess # NoSession
    /\ sess' = [sess EXCEPT ![beat[c].sess].status = "ONLINE"]
    /\ beat' = [beat EXCEPT ![c] = NoBeat]
    /\ UNCHANGED <<chan, inputs, sessionMap, channelToDevice, listener, mapping, banned,
                   told, task, ext>>

-----------------------------------------------------------------------------
(* What the lifecycle does to the external connections *)

\* The ports whose connections this step closes: stopDataPort and
\* closeConnections.
Stopped(p) == listener[p] # NoDevice /\ listener'[p] = NoDevice
Drained(p) == \E c \in Channel : task[c].at = "drain" /\ task'[c].at # "drain"
                                 /\ task[c].port = p

Closing(x) == IF x.registered /\ x.tcp = "up" THEN "closing" ELSE x.tcp

\* The port of x is no longer that of the device x has looked up.
Moved(x) == x.moved \/ (x.at = "bind" /\ reserved'[x.device] # x.port)

Teardown ==
    ext' = [e \in External |->
        LET x == [ext[e] EXCEPT !.moved = Moved(ext[e])] IN
        IF x.port = NoPort THEN x
        ELSE IF Stopped(x.port)
             THEN [x EXCEPT !.tcp = Closing(x), !.registered = FALSE, !.listening = FALSE]
        ELSE IF Drained(x.port)
             THEN [x EXCEPT !.tcp = Closing(x), !.registered = FALSE]
        ELSE x]

\* A channel's loop that handles a heartbeat does not close the channel.
Lifecycle ==
    /\ Next
    /\ \A c \in Channel : IsActive(c) /\ chan'[c] = "closed" => beat[c] = NoBeat
    /\ Teardown
    /\ UNCHANGED beat

-----------------------------------------------------------------------------
ConnInit ==
    /\ Init
    /\ ext = [e \in External |-> NoConnection]
    /\ beat = [c \in Channel |-> NoBeat]

ExternalStep(e) ==
    Lookup(e) \/ BindSession(e) \/ RegisterConnection(e) \/ Recheck(e) \/ Inactive(e)

Heartbeat(c) == HeartbeatRead(c) \/ HeartbeatGet(c) \/ HeartbeatSet(c)

ConnNext ==
    \/ Lifecycle
    \/ \E e \in External :
          \/ ExternalStep(e) \/ ReadOrphan(e) \/ Close(e)
          \/ \E p \in Port : Accept(e, p)
          \/ \E c \in Channel : SlowConsumer(c, e) \/ ClientClose(c, e)
    \/ \E c \in Beating : Heartbeat(c)

ConnSpec == ConnInit /\ [][ConnNext]_connVars

-----------------------------------------------------------------------------
(* Properties *)

\* channelActive is over, the connection is up and data may flow.
Open(e) == ext[e].tcp = "up" /\ ext[e].at = "idle" /\ ext[e].bound

\* A user who connected to a port while it was one device's never ends up at
\* another device, however ports are deleted, moved and allocated meanwhile,
\* except while channelActive looks first the device up, then its session.
NoCrossDevice ==
    \A e \in External :
        Open(e) /\ ~ext[e].moved => sess[ext[e].sess].device = ext[e].owner

Settled(e) == Open(e) /\ ~ext[e].moved /\ LockFree(ext[e].device)

\* The connection belongs to the current session of its device and came in by
\* the port of that session.
IsCurrent(e) ==
    LET s == ext[e].sess IN sessionMap[ext[e].device] = s /\ sess[s].port = ext[e].port

\* Between calls, an open connection belongs to the current session ("connections
\* that belong to an old session must be closed at once",
\* RawDataHandler.channelActive).
OpenIsCurrent == \A e \in External : Settled(e) => IsCurrent(e)

\* The device never had another session on a channel that sends heartbeats.
Quiet(d) ==
    \A t \in SessionId :
        sess[t].device = d /\ ChannelOf(t) \in Beating => t = sessionMap[d]

\* The same where no heartbeat of a former session can interfere.
QuietIsCurrent ==
    \A e \in External : Settled(e) /\ Quiet(ext[e].device) => IsCurrent(e)

\* Every open connection is where the next stopDataPort or closeConnections
\* finds it.
TeardownFindsIt == \A e \in External : Open(e) => ext[e].registered

\* When a connection is over, its device knows, if it is still connected: it
\* closed the connection itself or was notified.
ClientLearnsOfClose ==
    \A e \in External :
        LET s == ext[e].sess IN
        ext[e].tcp = "done" /\ s # NoSession /\ IsActive(ChannelOf(s))
            => ext[e].notified \/ ext[e].byClient
=============================================================================

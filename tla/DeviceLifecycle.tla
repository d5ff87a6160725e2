--------------------------- MODULE DeviceLifecycle ---------------------------
(***************************************************************************)
(* DeviceLifecycleService with SessionStore, DataPortService and           *)
(* BanService: registration, disconnection and administration of devices.  *)
(*                                                                         *)
(* An actor is a control channel (its registrations and its channelInactive *)
(* run in order on the business thread the channel is pinned to) or an     *)
(* administrator's HTTP request.  A task is one call of the service; it     *)
(* holds the lock of its device, one of the stripes, from its first step   *)
(* to its last, and shares everything else with the other tasks: a step    *)
(* is what happens between two points where another thread may act.        *)
(*                                                                         *)
(* The fixed ports appear as FixedPorts shows them to be, reservations     *)
(* that change in one step or not at all (the save may fail).  A close()   *)
(* called from a business thread only asks the event loop to close, so a   *)
(* `closing' channel is still active.                                      *)
(***************************************************************************)
EXTENDS Naturals

CONSTANTS
    Device, Channel, Admin, Port,
    LockOf,        \* the stripe of each device, deviceId.hashCode() % 128
    Claims,        \* the devices each channel asks to be registered as
    AdminOps,      \* what administrators do
    MaxRegister,   \* bound: register messages of a channel
    MaxOps,        \* bound: administrative calls
    NoDevice, NoSession

NoPort == 0

ASSUME PortAssumption == Port \subseteq Nat \ {NoPort}
ASSUME ActorAssumption == Channel \cap Admin = {}
ASSUME NoneAssumption == NoDevice \notin Device
ASSUME ClaimsAssumption == Claims \in [Channel -> SUBSET Device]
ASSUME BoundAssumption == MaxRegister \in Nat /\ MaxOps \in Nat

VARIABLES
    chan,             \* open, closing, closed (channelInactive due), gone
    registers,        \* register messages each channel has sent
    ops,              \* administrative calls so far
    sess,             \* the ClientSession objects
    sessionMap,       \* SessionStore.sessionMap
    channelToDevice,  \* SessionStore.channelToDeviceMap
    listener,         \* DataPortService: the owner of each listening port
    reserved,         \* PortMappingService: the port of each device
    online,           \* PortMappingService: shown as online
    banned,           \* BanService
    told,             \* the port of the last REGISTER_ACK sent on a channel
    task              \* the call each actor is executing

store == <<sess, sessionMap, channelToDevice>>
mapping == <<reserved, online>>
inputs == <<registers, ops>>
vars == <<chan, inputs, store, listener, mapping, banned, told, task>>

Actor == Channel \cup Admin

\* A registration makes a new session object: a channel and its n-th message.
SessionId == Channel \X (1 .. MaxRegister)
ChannelOf(s) == s[1]

ASSUME NoSessionAssumption == NoSession \notin SessionId

Session == [device : Device \cup {NoDevice}, port : Port \cup {NoPort},
            status : {"ONLINE", "OFFLINE"}]
NoSessionYet == [device |-> NoDevice, port |-> NoPort, status |-> "OFFLINE"]

\* flag: previouslyActive of register, online of updatePort; old: the port
\* updatePort leaves; sess: the session a call has read.
Task == [at : {"idle", "allocate", "probe", "bind", "online", "verify", "undo", "retire",
               "drain", "install", "enter", "remove", "stop", "offline", "release",
               "bindNew", "save", "move", "stopOld"},
         op : {"none", "register", "disconnected", "disconnect", "ban", "delete", "update"},
         device : Device \cup {NoDevice}, port : Port \cup {NoPort},
         old : Port \cup {NoPort}, flag : BOOLEAN, sess : SessionId \cup {NoSession}]
Idle == [at |-> "idle", op |-> "none", device |-> NoDevice, port |-> NoPort,
         old |-> NoPort, flag |-> FALSE, sess |-> NoSession]

\* A registration past allocatePort has a port.
HasPort(c) == task[c].at \in {"probe", "bind", "online", "verify", "undo", "retire",
                              "drain", "install"}

TypeOK ==
    /\ chan \in [Channel -> {"open", "closing", "closed", "gone"}]
    /\ registers \in [Channel -> 0 .. MaxRegister]
    /\ ops \in 0 .. MaxOps
    /\ sess \in [SessionId -> Session]
    /\ sessionMap \in [Device -> SessionId \cup {NoSession}]
    /\ channelToDevice \in [Channel -> Device \cup {NoDevice}]
    /\ listener \in [Port -> Device \cup {NoDevice}]
    /\ reserved \in [Device -> Port \cup {NoPort}]
    /\ online \in [Device -> BOOLEAN]
    /\ banned \in SUBSET Device
    /\ told \in [Channel -> Port \cup {NoPort}]
    /\ task \in [Actor -> Task]
    /\ \A c \in Channel : HasPort(c) => task[c].port \in Port

-----------------------------------------------------------------------------
(* Reads *)

IsActive(c) == chan[c] \in {"open", "closing"}

\* Only the session whose own channel asks.
SessionByChannel(c) ==
    LET d == channelToDevice[c]
    IN  IF d # NoDevice /\ sessionMap[d] # NoSession /\ ChannelOf(sessionMap[d]) = c
        THEN sessionMap[d] ELSE NoSession

SessionActive(s) == s # NoSession /\ IsActive(ChannelOf(s)) /\ sess[s].status = "ONLINE"

Unreserved(p) == \A d \in Device : reserved[d] # p

HasLock(a) == task[a].at \notin {"idle", "enter"}

\* Nobody holds the stripe of d.
LockFree(d) == \A a \in Actor : HasLock(a) => LockOf[task[a].device] # LockOf[d]

-----------------------------------------------------------------------------
(* Building blocks *)

GoTo(a, step) == task' = [task EXCEPT ![a].at = step]
Finish(a) == task' = [task EXCEPT ![a] = Idle]

RequestClose(c) == chan' = [chan EXCEPT ![c] = IF @ = "open" THEN "closing" ELSE @]

\* register throws: AuthHandler answers an error and closes the channel.
Reject(c) == Finish(c) /\ RequestClose(c)

\* startDataPort when the port does not listen yet; a port that does is left
\* as it is, and fine if this device owns it.
Bind(p, d) == listener[p] = NoDevice /\ listener' = [listener EXCEPT ![p] = d]

\* stopDataPort(port, deviceId): only the owner's listener is stopped.
StopPort(p, d) ==
    listener' = [q \in Port |-> IF q = p /\ listener[p] = d THEN NoDevice ELSE listener[q]]

-----------------------------------------------------------------------------
(* register *)

\* The checks at the head of register: the channel lives, is not another
\* device's, and the device is not banned.
Admissible(c, d) ==
    /\ IsActive(c)
    /\ SessionByChannel(c) # NoSession => sess[SessionByChannel(c)].device = d
    /\ d \notin banned

RegisterBegin(c, d) ==
    /\ task[c] = Idle /\ chan[c] # "gone"
    /\ registers[c] < MaxRegister
    /\ LockFree(d)
    /\ registers' = [registers EXCEPT ![c] = @ + 1]
    /\ \/ /\ Admissible(c, d)
          /\ task' = [task EXCEPT ![c] = [Idle EXCEPT !.at = "allocate", !.op = "register",
                                                      !.device = d]]
          /\ UNCHANGED chan
       \/ ~Admissible(c, d) /\ Reject(c)
    /\ UNCHANGED <<ops, store, listener, mapping, banned, told>>

\* allocatePort: the reserved port, else the lowest free one, saved.  It is
\* refused when none is free or the save fails.
Allocate(c) ==
    LET d == task[c].device IN
    /\ task[c].at = "allocate"
    /\ \/ /\ reserved[d] # NoPort
          /\ task' = [task EXCEPT ![c].at = "probe", ![c].port = reserved[d]]
          /\ UNCHANGED <<chan, reserved>>
       \/ \E p \in Port :
          /\ reserved[d] = NoPort
          /\ Unreserved(p) /\ \A q \in Port : Unreserved(q) => p <= q
          /\ reserved' = [reserved EXCEPT ![d] = p]
          /\ task' = [task EXCEPT ![c].at = "probe", ![c].port = p]
          /\ UNCHANGED chan
       \/ reserved[d] = NoPort /\ Reject(c) /\ UNCHANGED reserved
    /\ UNCHANGED <<inputs, store, listener, online, banned, told>>

\* previouslyActive = isPortActive(port), whoever listens there.
Probe(c) ==
    /\ task[c].at = "probe"
    /\ task' = [task EXCEPT ![c].at = "bind", ![c].flag = listener[task[c].port] # NoDevice]
    /\ UNCHANGED <<chan, inputs, store, listener, mapping, banned, told>>

\* startDataPort: already ours, bound now, or refused (another owner, or the
\* operating system): the reservation is retained.
RegisterBind(c) ==
    LET p == task[c].port
        d == task[c].device
    IN
    /\ task[c].at = "bind"
    /\ \/ listener[p] = d /\ GoTo(c, "online") /\ UNCHANGED <<chan, listener>>
       \/ Bind(p, d) /\ GoTo(c, "online") /\ UNCHANGED chan
       \/ listener[p] # d /\ Reject(c) /\ UNCHANGED listener
    /\ UNCHANGED <<inputs, store, mapping, banned, told>>

\* markOnline, or its save fails and a listener started here is stopped.
RegisterOnline(c) ==
    LET p == task[c].port
        d == task[c].device
    IN
    /\ task[c].at = "online"
    /\ \/ /\ reserved[d] # NoPort
          /\ online' = [online EXCEPT ![d] = TRUE]
          /\ GoTo(c, "verify")
          /\ UNCHANGED <<chan, listener>>
       \/ /\ Reject(c)
          /\ IF task[c].flag THEN UNCHANGED listener ELSE StopPort(p, d)
          /\ UNCHANGED online
    /\ UNCHANGED <<inputs, store, reserved, banned, told>>

\* The channel is looked at again: it may have died while this was going on.
Verify(c) ==
    /\ task[c].at = "verify"
    /\ \/ IsActive(c) /\ GoTo(c, "retire") /\ UNCHANGED <<chan, listener>>
       \/ ~IsActive(c) /\ task[c].flag /\ Reject(c) /\ UNCHANGED listener
       \/ /\ ~IsActive(c) /\ ~task[c].flag
          /\ StopPort(task[c].port, task[c].device)
          /\ GoTo(c, "undo")
          /\ UNCHANGED chan
    /\ UNCHANGED <<inputs, store, mapping, banned, told>>

Undo(c) ==
    /\ task[c].at = "undo"
    /\ online' = [online EXCEPT ![task[c].device] = FALSE]
    /\ Reject(c)
    /\ UNCHANGED <<inputs, store, listener, reserved, banned, told>>

\* A session there is already is set OFFLINE before its connections close.
Retire(c) ==
    LET s == sessionMap[task[c].device] IN
    /\ task[c].at = "retire"
    /\ \/ s = NoSession /\ GoTo(c, "install") /\ UNCHANGED sess
       \/ /\ s # NoSession
          /\ sess' = [sess EXCEPT ![s].status = "OFFLINE"]
          /\ GoTo(c, "drain")
    /\ UNCHANGED <<chan, inputs, sessionMap, channelToDevice, listener, mapping, banned, told>>

\* closeConnections(port): the external connections of the port are closed.
Drain(c) ==
    /\ task[c].at = "drain"
    /\ GoTo(c, "install")
    /\ UNCHANGED <<chan, inputs, store, listener, mapping, banned, told>>

\* SessionStore.register: the maps move to the new session, a different old
\* channel is told to close; then the ack.
FaultyInstall(c) ==
    LET d == task[c].device
        s == <<c, registers[c]>>
    IN
    /\ task[c].at = "install"
    /\ sess' = [sess EXCEPT ![s] = [device |-> d, port |-> task[c].port, status |-> "ONLINE"]]
    /\ sessionMap' = [sessionMap EXCEPT ![d] = s]
    /\ channelToDevice' = [channelToDevice EXCEPT ![c] = d]
    /\ told' = [told EXCEPT ![c] = task[c].port]
    /\ Finish(c)
    /\ UNCHANGED <<chan, inputs, listener, mapping, banned>>

Install(c) ==
    LET d == task[c].device
        s == <<c, registers[c]>>
        old == sessionMap[d]
        displaced == old # NoSession /\ ChannelOf(old) # c
    IN
    /\ task[c].at = "install"
    /\ sess' = [t \in SessionId |->
            IF t = s THEN [device |-> d, port |-> task[c].port, status |-> "ONLINE"]
            ELSE IF t = old /\ displaced THEN [sess[t] EXCEPT !.status = "OFFLINE"]
            ELSE sess[t]]
    /\ sessionMap' = [sessionMap EXCEPT ![d] = s]
    /\ channelToDevice' = [k \in Channel |->
            IF k = c THEN d
            ELSE IF old # NoSession /\ k = ChannelOf(old) THEN NoDevice
            ELSE channelToDevice[k]]
    /\ IF displaced THEN RequestClose(ChannelOf(old)) ELSE UNCHANGED chan
    /\ told' = [told EXCEPT ![c] = task[c].port]
    /\ Finish(c)
    /\ UNCHANGED <<inputs, listener, mapping, banned>>

-----------------------------------------------------------------------------
(* disconnectLocked, for channelInactive and for administrators *)

\* disconnected(channel) looks without the lock; nothing to do if the channel
\* has no session (any more).
Observe(c) ==
    /\ chan[c] = "closed" /\ task[c] = Idle
    /\ LET s == SessionByChannel(c) IN
       IF s = NoSession
       THEN chan' = [chan EXCEPT ![c] = "gone"] /\ UNCHANGED task
       ELSE /\ task' = [task EXCEPT ![c] = [Idle EXCEPT !.at = "enter", !.op = "disconnected",
                                                 !.device = sess[s].device, !.sess = s]]
            /\ UNCHANGED chan
    /\ UNCHANGED <<inputs, store, listener, mapping, banned, told>>

\* ... and, holding the lock, looks again.
FaultyEnter(c) ==
    /\ task[c].at = "enter"
    /\ LockFree(task[c].device)
    /\ GoTo(c, "remove")
    /\ UNCHANGED <<chan, inputs, store, listener, mapping, banned, told>>

Enter(c) ==
    /\ task[c].at = "enter"
    /\ LockFree(task[c].device)
    /\ IF SessionByChannel(c) = task[c].sess
       THEN GoTo(c, "remove") /\ UNCHANGED chan
       ELSE Finish(c) /\ chan' = [chan EXCEPT ![c] = "gone"]
    /\ UNCHANGED <<inputs, store, listener, mapping, banned, told>>

\* What a call does after disconnectLocked.
AfterDisconnect(a) ==
    IF task[a].op = "delete" THEN GoTo(a, "release") ELSE Finish(a)

\* removeSessionByChannel(session.getChannel()): ownership goes first.  Without
\* a session disconnectLocked returns.
FaultyRemove(a) ==
    LET d == task[a].device
        s == sessionMap[d]
    IN
    /\ task[a].at = "remove"
    /\ \/ s = NoSession /\ AfterDisconnect(a) /\ UNCHANGED channelToDevice
       \/ /\ s # NoSession
          /\ task' = [task EXCEPT ![a].at = "stop", ![a].sess = s]
          /\ channelToDevice' = [channelToDevice EXCEPT ![ChannelOf(s)] = NoDevice]
    /\ UNCHANGED <<chan, inputs, sess, sessionMap, listener, mapping, banned, told>>

Remove(a) ==
    LET d == task[a].device
        s == sessionMap[d]
        c == ChannelOf(s)
        e == channelToDevice[c]
    IN
    /\ task[a].at = "remove"
    /\ \/ /\ s = NoSession
          /\ AfterDisconnect(a)
          /\ UNCHANGED store
       \/ /\ s # NoSession
          /\ task' = [task EXCEPT ![a].at = "stop", ![a].sess = s]
          /\ channelToDevice' = [channelToDevice EXCEPT ![c] = NoDevice]
          /\ IF e # NoDevice /\ SessionByChannel(c) # NoSession
             THEN /\ sessionMap' = [sessionMap EXCEPT ![e] = NoSession]
                  /\ sess' = [sess EXCEPT ![SessionByChannel(c)].status = "OFFLINE"]
             ELSE UNCHANGED <<sessionMap, sess>>
    /\ UNCHANGED <<chan, inputs, listener, mapping, banned, told>>

\* stopDataPort(session.getExternalPort(), deviceId).
FaultyStop(a) ==
    /\ task[a].at = "stop"
    /\ GoTo(a, "offline")
    /\ UNCHANGED <<chan, inputs, store, listener, mapping, banned, told>>

Stop(a) ==
    /\ task[a].at = "stop"
    /\ StopPort(sess[task[a].sess].port, task[a].device)
    /\ GoTo(a, "offline")
    /\ UNCHANGED <<chan, inputs, store, mapping, banned, told>>

\* markOffline, then session.getChannel().close(); a channel that disconnects
\* itself is closed already and is done with.
Offline(a) ==
    LET c == ChannelOf(task[a].sess) IN
    /\ task[a].at = "offline"
    /\ online' = [online EXCEPT ![task[a].device] = FALSE]
    /\ chan' = [k \in Channel |-> IF k = a THEN "gone"
                                  ELSE IF k = c /\ chan[k] = "open" THEN "closing"
                                  ELSE chan[k]]
    /\ AfterDisconnect(a)
    /\ UNCHANGED <<inputs, store, listener, reserved, banned, told>>

-----------------------------------------------------------------------------
(* Administration *)

\* An administrative call that runs under the lock of d.
Call(a, op, d) ==
    /\ task[a] = Idle
    /\ op \in AdminOps
    /\ LockFree(d)
    /\ ops < MaxOps
    /\ ops' = ops + 1

StartTask(a, op, d) ==
    task' = [task EXCEPT ![a] = [Idle EXCEPT !.at = "remove", !.op = op, !.device = d]]

Disconnect(a, d) ==
    /\ Call(a, "disconnect", d)
    /\ StartTask(a, "disconnect", d)
    /\ UNCHANGED <<chan, registers, store, listener, mapping, banned, told>>

\* bans.ban commits before the session goes, under one lock; if it fails,
\* nothing happens.
FaultyBan(a, d) ==
    /\ Call(a, "ban", d)
    /\ banned' = banned \cup {d}
    /\ UNCHANGED <<chan, registers, store, listener, mapping, told, task>>

Ban(a, d) ==
    /\ Call(a, "ban", d)
    /\ banned' = banned \cup {d}
    /\ StartTask(a, "ban", d)
    /\ UNCHANGED <<chan, registers, store, listener, mapping, told>>

Unban(a, d) ==
    /\ Call(a, "unban", d)
    /\ banned' = banned \ {d}
    /\ UNCHANGED <<chan, registers, store, listener, mapping, told, task>>

\* setFixedPort for a device without a reservation.
Preset(a, d, p) ==
    /\ Call(a, "preset", d)
    /\ reserved[d] = NoPort /\ Unreserved(p)
    /\ reserved' = [reserved EXCEPT ![d] = p]
    /\ UNCHANGED <<chan, registers, store, listener, online, banned, told, task>>

DeleteMapping(a, d) ==
    /\ Call(a, "delete", d)
    /\ StartTask(a, "delete", d)
    /\ UNCHANGED <<chan, registers, store, listener, mapping, banned, told>>

\* releasePort, or the delete fails and the offline reservation stays.
Release(a) ==
    /\ task[a].at = "release"
    /\ \/ /\ reserved' = [reserved EXCEPT ![task[a].device] = NoPort]
          /\ online' = [online EXCEPT ![task[a].device] = FALSE]
       \/ UNCHANGED mapping
    /\ Finish(a)
    /\ UNCHANGED <<chan, inputs, store, listener, banned, told>>

\* updatePort with its checks passed; without a reservation, with the same
\* port or with one that is taken it does nothing.
UpdatePort(a, d, p) ==
    LET s == sessionMap[d] IN
    /\ Call(a, "update", d)
    /\ reserved[d] \notin {NoPort, p} /\ Unreserved(p)
    /\ task' = [task EXCEPT ![a] =
          [at |-> IF SessionActive(s) THEN "bindNew" ELSE "save", op |-> "update",
           device |-> d, port |-> p, old |-> reserved[d],
           flag |-> SessionActive(s), sess |-> s]]
    /\ UNCHANGED <<chan, registers, store, listener, mapping, banned, told>>

UpdateBind(a) ==
    LET p == task[a].port
        d == task[a].device
    IN
    /\ task[a].at = "bindNew"
    /\ \/ listener[p] = d /\ GoTo(a, "save") /\ UNCHANGED listener
       \/ Bind(p, d) /\ GoTo(a, "save")
       \/ listener[p] # d /\ Finish(a) /\ UNCHANGED listener
    /\ UNCHANGED <<chan, inputs, store, mapping, banned, told>>

\* updateExternalPort: refused when the port is taken by now, or the save
\* fails; a listener for the new port is then stopped.
FaultyUpdateSave(a) ==
    LET p == task[a].port
        d == task[a].device
    IN
    /\ task[a].at = "save"
    /\ reserved' = [reserved EXCEPT ![d] = p]
    /\ GoTo(a, "move")
    /\ UNCHANGED <<chan, inputs, store, listener, online, banned, told>>

UpdateSave(a) ==
    LET p == task[a].port
        d == task[a].device
    IN
    /\ task[a].at = "save"
    /\ \/ /\ Unreserved(p)
          /\ reserved' = [reserved EXCEPT ![d] = p]
          /\ GoTo(a, "move")
          /\ UNCHANGED listener
       \/ /\ Finish(a)
          /\ IF task[a].flag THEN StopPort(p, d) ELSE UNCHANGED listener
          /\ UNCHANGED reserved
    /\ UNCHANGED <<chan, inputs, store, online, banned, told>>

\* session.setExternalPort(newPort).
FaultyUpdateMove(a) ==
    /\ task[a].at = "move"
    /\ GoTo(a, "stopOld")
    /\ UNCHANGED <<chan, inputs, store, listener, mapping, banned, told>>

UpdateMove(a) ==
    LET s == task[a].sess IN
    /\ task[a].at = "move"
    /\ IF s = NoSession THEN UNCHANGED sess
                        ELSE sess' = [sess EXCEPT ![s].port = task[a].port]
    /\ GoTo(a, "stopOld")
    /\ UNCHANGED <<chan, inputs, sessionMap, channelToDevice, listener, mapping, banned, told>>

\* The old listener stops; an online device is told its new port.
FaultyUpdateStopOld(a) ==
    /\ task[a].at = "stopOld"
    /\ StopPort(task[a].old, task[a].device)
    /\ Finish(a)
    /\ UNCHANGED <<chan, inputs, store, mapping, banned, told>>

UpdateStopOld(a) ==
    /\ task[a].at = "stopOld"
    /\ StopPort(task[a].old, task[a].device)
    /\ IF task[a].flag
       THEN told' = [told EXCEPT ![ChannelOf(task[a].sess)] = task[a].port]
       ELSE UNCHANGED told
    /\ Finish(a)
    /\ UNCHANGED <<chan, inputs, store, mapping, banned>>

-----------------------------------------------------------------------------
(* The network *)

\* The peer goes away, the reader is idle for too long, a write fails, or a
\* requested close takes effect.
CloseChannel(c) ==
    /\ IsActive(c)
    /\ chan' = [chan EXCEPT ![c] = "closed"]
    /\ UNCHANGED <<inputs, store, listener, mapping, banned, told, task>>

-----------------------------------------------------------------------------
Init ==
    /\ chan = [c \in Channel |-> "open"]
    /\ registers = [c \in Channel |-> 0]
    /\ ops = 0
    /\ sess = [s \in SessionId |-> NoSessionYet]
    /\ sessionMap = [d \in Device |-> NoSession]
    /\ channelToDevice = [c \in Channel |-> NoDevice]
    /\ listener = [p \in Port |-> NoDevice]
    /\ reserved = [d \in Device |-> NoPort]
    /\ online = [d \in Device |-> FALSE]
    /\ banned = {}
    /\ told = [c \in Channel |-> NoPort]
    /\ task = [a \in Actor |-> Idle]

Registering(c) ==
    \/ Allocate(c) \/ Probe(c) \/ RegisterBind(c) \/ RegisterOnline(c) \/ Verify(c)
    \/ Undo(c) \/ Retire(c) \/ Drain(c) \/ Install(c)

Disconnecting(a) == Remove(a) \/ Stop(a) \/ Offline(a)

Administering(a) ==
    Release(a) \/ UpdateBind(a) \/ UpdateSave(a) \/ UpdateMove(a) \/ UpdateStopOld(a)

\* The steps of calls that have begun, and of channels that have died.
Proceed ==
    \/ \E c \in Channel : Registering(c) \/ Disconnecting(c) \/ Observe(c) \/ Enter(c)
    \/ \E a \in Admin : Disconnecting(a) \/ Administering(a)

Next ==
    \/ Proceed
    \/ \E c \in Channel : CloseChannel(c) \/ \E d \in Claims[c] : RegisterBegin(c, d)
    \/ \E a \in Admin, d \in Device :
          \/ Disconnect(a, d) \/ Ban(a, d) \/ Unban(a, d) \/ DeleteMapping(a, d)
          \/ \E p \in Port : Preset(a, d, p) \/ UpdatePort(a, d, p)

Spec == Init /\ [][Next]_vars

\* Every thread inside the service makes progress (a call in progress is never
\* abandoned, a free lock is eventually granted: calls are bounded by
\* MaxRegister and MaxOps), and a close that was requested takes effect.
Fairness ==
    /\ \A c \in Channel :
          /\ WF_vars(chan[c] = "closing" /\ CloseChannel(c))
          /\ WF_vars(Registering(c)) /\ WF_vars(Disconnecting(c))
          /\ WF_vars(Observe(c)) /\ WF_vars(Enter(c))
    /\ \A a \in Admin : WF_vars(Disconnecting(a)) /\ WF_vars(Administering(a))


-----------------------------------------------------------------------------
(* Properties *)

\* At every instant, not only between calls: the port of the current, online
\* session of a live connection is listening, for that device.  It is what
\* RendezvousHandler answers a query with, and what the device was told.
ActiveSessionListens ==
    \A d \in Device :
        SessionActive(sessionMap[d]) => listener[sess[sessionMap[d]].port] = d

\* The two maps of SessionStore agree: the channel of a current session leads
\* back to it.  Without it removeSessionByChannel would leave a session
\* that nothing can remove any more.
SessionReachable ==
    /\ \A d \in Device : sessionMap[d] # NoSession
            => channelToDevice[ChannelOf(sessionMap[d])] = d
    /\ \A c \in Channel : channelToDevice[c] # NoDevice => SessionByChannel(c) # NoSession

\* A banned device is off as soon as the ban call returns, and an automatic
\* reconnection never slips in between the persisted ban and the disconnect.
BannedStaysOut ==
    \A d \in banned : LockFree(d) => sessionMap[d] = NoSession

\* The port in the last REGISTER_ACK on the connection of a device is the one
\* it is reserved and reachable at, also after its port was changed online.
ToldItsPort ==
    \A d \in Device :
        LET s == sessionMap[d] IN
        LockFree(d) /\ SessionActive(s)
            => told[ChannelOf(s)] = reserved[d] /\ sess[s].port = reserved[d]

\* The late channelInactive of a replaced connection never takes the session
\* of the reconnection away: a live session goes only by administration.
LiveSessionKept ==
    [][\A d \in Device :
          SessionActive(sessionMap[d]) /\ sessionMap'[d] = NoSession
              => \E a \in Admin : task[a].at = "remove" /\ task[a].device = d]_vars

\* The reservations seen by the lifecycle are the abstract ones.
R == INSTANCE Reservations
Implements == R!Spec

\* A connection that is being closed is eventually gone, with its session.
ClosedIsForgotten ==
    \A c \in Channel :
        chan[c] \in {"closing", "closed"}
            ~> chan[c] = "gone" /\ \A d \in Device :
                    sessionMap[d] # NoSession => ChannelOf(sessionMap[d]) # c
=============================================================================

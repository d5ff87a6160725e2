----------------------- MODULE DeviceLifecycleProofs -----------------------
(***************************************************************************)
(* Proofs about DeviceLifecycle and the modules that extend it,            *)
(* OfflineDevices and ExternalConnections, for any devices, channels,      *)
(* administrators, ports and outside users, any assignment of devices to   *)
(* stripes, and heartbeats on any of the channels.                         *)
(*                                                                         *)
(* Part 1.  The inductive invariant of the life cycle says what a call may *)
(* rely on while it holds the stripe of its device (TaskInv), what is true *)
(* of a device whoever holds its stripe (SessionInv, BanInv), that the map *)
(* of channels leads back into the map of sessions (ChannelInv), that the  *)
(* session objects of a channel are new when they are made (FreshInv), and *)
(* that two calls never hold one stripe (Exclusion).                       *)
(* A second one (Silence) adds what keeps a device without a session from  *)
(* listening or being shown online (OfflineDevices).                       *)
(*                                                                         *)
(* Part 2.  The invariant of the life cycle survives the heartbeats,       *)
(* because it speaks of live channels and never of a session that is       *)
(* ONLINE.  On top of it comes what a connection may rely on from the look *)
(* at its session on (EntryInv, PortInv, HoldInv), and what a heartbeat    *)
(* under way may still do (BeatInv, RetiredInv).                           *)
(***************************************************************************)
EXTENDS ExternalConnections, OfflineDevices, TLAPS

-----------------------------------------------------------------------------
(* Part 1: the life cycle of devices.                                      *)

\* A session whose channel has not gone, whatever its status says: a heartbeat
\* may set it ONLINE again (ExternalConnections).
Live(s) == s # NoSession /\ IsActive(ChannelOf(s))

RegisterSteps == {"allocate", "probe", "bind", "online", "verify", "undo", "retire",
                  "drain", "install"}
UpdateSteps == {"bindNew", "save", "move", "stopOld"}

\* A call at one of these steps works on device d.
Doing(d, steps) == \E a \in Actor : task[a].at \in steps /\ task[a].device = d

Exclusion ==
    \A a, b \in Actor :
        a # b /\ HasLock(a) /\ HasLock(b) => LockOf[task[a].device] # LockOf[task[b].device]

\* register: the device is not banned, the channel is not another device's, the
\* session object is new, the port is the reserved one; a port that was not
\* listening before is nobody's, and it listens from bind on.
RegisterInv(c, d) ==
    /\ c \in Channel /\ registers[c] \in 1 .. MaxRegister
    /\ d \notin banned
    /\ channelToDevice[c] \in {NoDevice, d}
    /\ sess[<<c, registers[c]>>].device = NoDevice
    /\ task[c].at # "allocate" => task[c].port = reserved[d]
    /\ task[c].at \in {"bind", "online", "verify", "undo"} /\ ~task[c].flag
          => ~Live(sessionMap[d])
    /\ task[c].at \in {"online", "verify", "retire", "drain", "install"}
          => listener[task[c].port] = d

\* updatePort: the session it has read is current, and reachable at the new port
\* before the old one is given up.
UpdateInv(a, d) ==
    /\ task[a].port \in Port /\ task[a].old \in Port /\ task[a].old # task[a].port
    /\ task[a].sess = sessionMap[d] /\ (task[a].flag => task[a].sess # NoSession)
    /\ ~task[a].flag => ~Live(sessionMap[d])
    /\ task[a].at \in {"save", "move", "stopOld"} /\ task[a].flag
          => listener[task[a].port] = d
    /\ reserved[d] = IF task[a].at \in {"bindNew", "save"} THEN task[a].old ELSE task[a].port

\* disconnected, between its two looks: only the channel itself makes sessions
\* for the channel, so what it has read of the session stays true.
EnterInv(c, d) ==
    /\ c \in Channel /\ chan[c] = "closed"
    /\ task[c].sess \in SessionId /\ ChannelOf(task[c].sess) = c
    /\ sess[task[c].sess].device = d

\* disconnectLocked: a channel removes no session but its own; then the device
\* has none.
RemoveInv(a, d) ==
    /\ task[a].at \in {"stop", "offline"} => task[a].sess \in SessionId
    /\ task[a].at \in {"stop", "offline", "release"} => sessionMap[d] = NoSession
    /\ a \in Channel /\ task[a].at = "remove"
          => chan[a] = "closed" /\ sessionMap[d] # NoSession /\ ChannelOf(sessionMap[d]) = a

TaskInv(a) ==
    LET d == task[a].device IN
    /\ task[a].at # "idle" => d \in Device
    /\ task[a].at \in RegisterSteps => RegisterInv(a, d)
    /\ task[a].at \in UpdateSteps => UpdateInv(a, d)
    /\ task[a].at = "enter" => EnterInv(a, d)
    /\ task[a].at \in {"remove", "stop", "offline", "release"} => RemoveInv(a, d)

\* The session of a device is its own, and reachable at the port that is
\* reserved and that its channel was told, up to an update that moves it.
SessionInv(d) ==
    LET s == sessionMap[d] IN
    /\ s # NoSession => /\ channelToDevice[ChannelOf(s)] = d
                        /\ sess[s].device = d
                        /\ sess[s].port \in Port
                        /\ \/ sess[s].port = reserved[d]
                           \/ \E a \in Actor : /\ task[a].at = "move" /\ task[a].device = d
                                               /\ sess[s].port = task[a].old
                        /\ sess[s].status = "ONLINE" \/ Doing(d, {"drain", "install"})
    /\ Live(s) => /\ listener[sess[s].port] = d
                  /\ told[ChannelOf(s)] = reserved[d] \/ Doing(d, {"move", "stopOld"})

BanInv(d) == d \in banned => sessionMap[d] = NoSession \/ Doing(d, {"remove"})

\* The session objects of a channel are numbered by its register messages.
FreshInv == \A t \in SessionId : sess[t].device # NoDevice => t[2] <= registers[t[1]]

ChannelInv(c) == channelToDevice[c] # NoDevice => SessionByChannel(c) # NoSession

Inv ==
    /\ TypeOK
    /\ Exclusion
    /\ \A a \in Actor : TaskInv(a)
    /\ \A d \in Device : SessionInv(d) /\ BanInv(d)
    /\ \A c \in Channel : ChannelInv(c)
    /\ FreshInv

-----------------------------------------------------------------------------
(* Facts about the building blocks of the actions. *)

Step == {"idle", "allocate", "probe", "bind", "online", "verify", "undo", "retire",
         "drain", "install", "enter", "remove", "stop", "offline", "release",
         "bindNew", "save", "move", "stopOld"}

\* What a step does to the call of a, and to nobody else's.
LEMMA GoToEffect ==
    ASSUME TypeOK, NEW a \in Actor, NEW x \in Step, GoTo(a, x)
    PROVE  /\ task' \in [Actor -> Task]
           /\ task'[a].at = x /\ task'[a].op = task[a].op
           /\ task'[a].device = task[a].device /\ task'[a].port = task[a].port
           /\ task'[a].old = task[a].old /\ task'[a].flag = task[a].flag
           /\ task'[a].sess = task[a].sess
           /\ \A b \in Actor \ {a} : task'[b] = task[b]
<1> DEFINE t == [task[a] EXCEPT !.at = x]
<1>1. task[a] \in Task /\ task \in [Actor -> Task]
  BY DEF TypeOK
<1>2. task' = [task EXCEPT ![a] = t]
  BY DEF GoTo
<1>3. /\ t \in Task /\ t.at = x /\ t.op = task[a].op /\ t.device = task[a].device
      /\ t.port = task[a].port /\ t.old = task[a].old /\ t.flag = task[a].flag
      /\ t.sess = task[a].sess
  <2> DEFINE Ops == {"none", "register", "disconnected", "disconnect", "ban", "delete",
                     "update"}
  <2>1. Task = [at : Step, op : Ops, device : Device \cup {NoDevice},
                port : Port \cup {NoPort}, old : Port \cup {NoPort}, flag : BOOLEAN,
                sess : SessionId \cup {NoSession}]
    BY DEF Task, Step
  <2> HIDE DEF Ops
  <2> QED BY <1>1, <2>1
<1> HIDE DEF t
<1> QED BY <1>1, <1>2, <1>3

LEMMA FinishEffect ==
    ASSUME TypeOK, NEW a \in Actor, Finish(a)
    PROVE  /\ task' \in [Actor -> Task]
           /\ task'[a].at = "idle"
           /\ \A b \in Actor \ {a} : task'[b] = task[b]
BY DEF TypeOK, Finish, Task, Idle

LEMMA RequestCloseEffect ==
    ASSUME TypeOK, NEW c \in Channel, RequestClose(c)
    PROVE  /\ chan' \in [Channel -> {"open", "closing", "closed", "gone"}]
           /\ \A k \in Channel : (chan'[k] \in {"open", "closing"}) = IsActive(k)
           /\ \A k \in Channel : chan[k] = "closed" => chan'[k] = "closed"
BY DEF TypeOK, RequestClose, IsActive

LEMMA StopPortEffect ==
    ASSUME TypeOK, NEW p, NEW d \in Device, StopPort(p, d)
    PROVE  /\ listener' \in [Port -> Device \cup {NoDevice}]
           /\ \A q \in Port : \A e \in Device :
                 listener'[q] = e <=> listener[q] = e /\ ~(q = p /\ e = d)
BY NoneAssumption DEF TypeOK, StopPort

\* Taking a stripe that is free, keeping one, or letting it go.
LEMMA ExclusionKept ==
    ASSUME Exclusion, NEW a \in Actor,
           \A b \in Actor \ {a} : task'[b] = task[b],
           HasLock(a)' => \/ HasLock(a) /\ task'[a].device = task[a].device
                          \/ LockFree(task'[a].device)
    PROVE  Exclusion'
BY DEF Exclusion, HasLock, LockFree

-----------------------------------------------------------------------------
(* What a step of one call does to everybody else. *)

\* A step of a, under the stripe of d, that leaves the other devices alone.
Local(a, d) ==
    /\ \/ HasLock(a) /\ task[a].device = d
       \/ ~HasLock(a) /\ LockFree(d)
    /\ \A b \in Actor \ {a} : task'[b] = task[b]
    /\ \A e \in Device \ {d} :
          /\ reserved'[e] = reserved[e] /\ sessionMap'[e] = sessionMap[e]
          /\ e \in banned' => e \in banned
          /\ \A p \in Port : listener[p] = e => listener'[p] = e
          /\ sessionMap[e] # NoSession =>
                /\ sess'[sessionMap[e]] = sess[sessionMap[e]]
                /\ channelToDevice'[ChannelOf(sessionMap[e])] = e
                /\ told'[ChannelOf(sessionMap[e])] = told[ChannelOf(sessionMap[e])]
    /\ sessionMap'[d] \in {sessionMap[d], NoSession} \cup {s \in SessionId : ChannelOf(s) = a}
    /\ \A s \in SessionId : ChannelOf(s) # a => sess'[s].device = sess[s].device
    /\ \A k \in Channel :
          /\ IsActive(k)' => IsActive(k)
          /\ registers'[k] >= registers[k]
          /\ k # a => /\ chan[k] = "closed" => chan'[k] = "closed"
                      /\ registers'[k] = registers[k]
                      /\ channelToDevice'[k] \in {channelToDevice[k], NoDevice}

LEMMA OtherTasks ==
    ASSUME Inv, TypeOK', NEW a \in Actor, NEW d \in Device, Local(a, d), NEW b \in Actor \ {a}
    PROVE  TaskInv(b)'
<1> USE DEF Local
<1>1. task'[b] = task[b] /\ TaskInv(b)
  BY DEF Inv
<1>2. HasLock(b) => task[b].device # d
  BY DEF Inv, Exclusion, LockFree
<1>3. ASSUME task[b].at \in RegisterSteps PROVE RegisterInv(b, task[b].device)'
  <2> DEFINE e == task[b].device
  <2>1. e \in Device \ {d} /\ RegisterInv(b, e)
    BY <1>1, <1>2, <1>3 DEF TaskInv, HasLock, RegisterSteps
  <2>2. b \in Channel /\ registers'[b] = registers[b]
    BY <2>1 DEF RegisterInv
  <2>3. Live(sessionMap[e])' => Live(sessionMap[e])
    BY <2>1 DEF Live, Inv, TypeOK, SessionId, ChannelOf
  <2>4. sess'[<<b, registers'[b]>>].device = NoDevice
    BY <2>1, <2>2 DEF RegisterInv, SessionId, ChannelOf
  <2>5. task[b].at \in {"online", "verify", "retire", "drain", "install"}
          => listener'[task[b].port] = e
    BY <2>1, <2>2 DEF RegisterInv, Inv, TypeOK, HasPort
  <2> QED BY <1>1, <2>1, <2>2, <2>3, <2>4, <2>5 DEF RegisterInv
<1>4. ASSUME task[b].at \in UpdateSteps PROVE UpdateInv(b, task[b].device)'
  <2> DEFINE e == task[b].device
  <2>1. e \in Device \ {d} /\ UpdateInv(b, e)
    BY <1>1, <1>2, <1>4 DEF TaskInv, HasLock, UpdateSteps
  <2>3. Live(sessionMap[e])' => Live(sessionMap[e])
    BY <2>1 DEF Live, Inv, TypeOK, SessionId, ChannelOf
  <2> QED BY <1>1, <2>1, <2>3 DEF UpdateInv
<1>5. ASSUME task[b].at = "enter" PROVE EnterInv(b, task[b].device)'
  BY <1>1, <1>5 DEF TaskInv, EnterInv
<1>6. ASSUME task[b].at \in {"remove", "stop", "offline", "release"}
      PROVE  RemoveInv(b, task[b].device)'
  BY <1>1, <1>2, <1>6 DEF TaskInv, RemoveInv, HasLock
<1> QED BY <1>1, <1>3, <1>4, <1>5, <1>6 DEF TaskInv

LEMMA OtherDevices ==
    ASSUME Inv, TypeOK', NEW a \in Actor, NEW d \in Device, Local(a, d), NEW e \in Device \ {d}
    PROVE  SessionInv(e)' /\ BanInv(e)'
<1> USE DEF Local
<1>1. SessionInv(e) /\ BanInv(e)
  BY DEF Inv
<1>2. \A b \in Actor : \A steps :
        "enter" \notin steps /\ "idle" \notin steps /\ task[b].at \in steps /\ task[b].device = e
          => task'[b] = task[b]
  BY DEF HasLock
<1>3. sessionMap'[e] = sessionMap[e] /\ (sessionMap[e] # NoSession =>
        sessionMap[e] \in SessionId /\ ChannelOf(sessionMap[e]) \in Channel)
  BY DEF Inv, TypeOK, SessionId, ChannelOf
<1>4. Live(sessionMap[e])' => Live(sessionMap[e])
  BY <1>3 DEF Live
<1>5. Doing(e, {"drain", "install"}) => Doing(e, {"drain", "install"})'
  BY <1>2 DEF Doing
<1>6. Doing(e, {"move", "stopOld"}) => Doing(e, {"move", "stopOld"})'
  BY <1>2 DEF Doing
<1>7. Doing(e, {"remove"}) => Doing(e, {"remove"})'
  BY <1>2 DEF Doing
<1>8. \A b \in Actor : task[b].at = "move" /\ task[b].device = e => task'[b] = task[b]
  BY <1>2
<1>9. SessionInv(e)'
  BY <1>1, <1>3, <1>4, <1>5, <1>6, <1>8 DEF SessionInv, Live
<1>10. BanInv(e)'
  BY <1>1, <1>3, <1>7 DEF BanInv
<1> QED BY <1>9, <1>10

LEMMA OtherChannels ==
    ASSUME Inv, TypeOK', NEW a \in Actor, NEW d \in Device, Local(a, d), NEW k \in Channel,
           k # a, channelToDevice'[k] # d
    PROVE  ChannelInv(k)'
BY DEF Local, Inv, ChannelInv, SessionByChannel, TypeOK

\* What is left to show of a step of one call.
LEMMA LocalStep ==
    ASSUME Inv, TypeOK', Exclusion', NEW a \in Actor, NEW d \in Device, Local(a, d),
           TaskInv(a)', SessionInv(d)', BanInv(d)',
           \A t \in SessionId : ChannelOf(t) = a /\ sess'[t].device # NoDevice
                                => sess'[t].device = sess[t].device \/ t[2] <= registers'[a],
           \A k \in Channel : k = a \/ channelToDevice'[k] = d => ChannelInv(k)'
    PROVE  Inv'
<1>1. FreshInv'
  <2> SUFFICES ASSUME NEW t \in SessionId, sess'[t].device # NoDevice
               PROVE  t[2] <= registers'[t[1]]
    BY DEF FreshInv
  <2>1. t[1] \in Channel /\ t[2] \in Nat /\ ChannelOf(t) = t[1]
    BY BoundAssumption DEF SessionId, ChannelOf
  <2>2. registers[t[1]] \in Nat /\ registers'[t[1]] \in Nat /\ registers'[t[1]] >= registers[t[1]]
    BY <2>1, BoundAssumption DEF Inv, TypeOK, Local
  <2>3. CASE sess'[t].device = sess[t].device
    BY <2>1, <2>2, <2>3 DEF Inv, FreshInv
  <2>4. CASE sess'[t].device # sess[t].device
    BY <2>1, <2>4 DEF Local
  <2> QED BY <2>3, <2>4
<1> QED BY <1>1, OtherTasks, OtherDevices, OtherChannels DEF Inv

-----------------------------------------------------------------------------
(* register, step by step. *)

\* What a call of register knows before each of its steps.
LEMMA Registers ==
    ASSUME Inv, NEW c \in Channel, NEW d \in Device, task[c].device = d,
           task[c].at \in RegisterSteps
    PROVE  /\ c \in Actor /\ task[c] \in Task /\ HasLock(c)
           /\ RegisterInv(c, d)
           /\ ~Doing(d, {"remove"}) /\ ~Doing(d, {"move", "stopOld"})
           /\ Live(sessionMap[d]) => listener[reserved[d]] = d
           /\ sessionMap[d] # NoSession => /\ sess[sessionMap[d]].port = reserved[d]
                                          /\ reserved[d] \in Port
           /\ sessionMap[d] # NoSession /\ task[c].at \notin {"drain", "install"}
                 => sess[sessionMap[d]].status = "ONLINE"
<1>1. c \in Actor /\ TaskInv(c) /\ HasLock(c) /\ task[c] \in Task
  BY DEF Inv, Actor, HasLock, RegisterSteps, TypeOK
<1>2. RegisterInv(c, d)
  BY <1>1 DEF TaskInv, RegisterSteps
<1>3. \A b \in Actor : HasLock(b) /\ task[b].device = d => b = c
  BY <1>1 DEF Inv, Exclusion
<1>4. ~Doing(d, {"remove"}) /\ ~Doing(d, {"move", "stopOld"})
  BY <1>3 DEF Doing, HasLock, RegisterSteps
<1>5. sessionMap[d] # NoSession => /\ sess[sessionMap[d]].port = reserved[d]
                                   /\ reserved[d] \in Port
  BY <1>4 DEF Inv, SessionInv, Doing
<1>6. Live(sessionMap[d]) => listener[reserved[d]] = d
  BY <1>5 DEF Inv, SessionInv, Live
<1>7. Doing(d, {"drain", "install"}) => task[c].at \in {"drain", "install"}
  BY <1>3 DEF Doing, HasLock
<1>8. sessionMap[d] # NoSession /\ task[c].at \notin {"drain", "install"}
         => sess[sessionMap[d]].status = "ONLINE"
  BY <1>7 DEF Inv, SessionInv
<1> QED BY <1>1, <1>2, <1>4, <1>5, <1>6, <1>8

\* A step of register that leaves the sessions of the store, the reservations,
\* the bans and the acks alone, and takes no port from a reachable session.
RegisterFrame(c, d) ==
    /\ task[c].device = d /\ task[c].at \in RegisterSteps
    /\ UNCHANGED <<registers, sessionMap, channelToDevice, reserved, banned, told>>
    /\ \A b \in Actor \ {c} : task'[b] = task[b]
    /\ \/ task'[c].at = "idle"
       \/ task'[c].at \in RegisterSteps /\ task'[c].device = d
    /\ \A k \in Channel : IsActive(k)' = IsActive(k) /\ (chan[k] = "closed" => chan'[k] = "closed")
    /\ \A s \in SessionId :
          /\ s # sessionMap[d] => sess'[s] = sess[s]
          /\ sess'[s].device = sess[s].device /\ sess'[s].port = sess[s].port
    /\ \/ task'[c].at \in {"drain", "install"}
       \/ UNCHANGED sess /\ task[c].at \notin {"drain", "install"}
    /\ \A p \in Port : \A e \in Device :
          listener[p] = e => listener'[p] = e \/ (e = d /\ ~Live(sessionMap[d]))

LEMMA RegisterStep ==
    ASSUME Inv, TypeOK', NEW c \in Channel, NEW d \in Device, RegisterFrame(c, d),
           task'[c].at # "idle" => RegisterInv(c, d)'
    PROVE  Inv'
<1> USE DEF RegisterFrame
<1>1. /\ c \in Actor /\ task[c] \in Task /\ HasLock(c)
      /\ RegisterInv(c, d)
      /\ ~Doing(d, {"remove"}) /\ ~Doing(d, {"move", "stopOld"})
      /\ Live(sessionMap[d]) => listener[reserved[d]] = d
      /\ sessionMap[d] # NoSession => /\ sess[sessionMap[d]].port = reserved[d]
                                     /\ reserved[d] \in Port
      /\ sessionMap[d] # NoSession /\ task[c].at \notin {"drain", "install"}
            => sess[sessionMap[d]].status = "ONLINE"
  BY Registers
<1>2. Exclusion'
  BY <1>1, ExclusionKept DEF Inv, HasLock
<1>3. sessionMap[d] # NoSession => sessionMap[d] \in SessionId
  BY DEF Inv, TypeOK
<1>4. \A e \in Device \ {d} : sessionMap[e] # NoSession =>
         sessionMap[e] # sessionMap[d] /\ sessionMap[e] \in SessionId
  BY <1>3 DEF Inv, SessionInv, TypeOK
<1>5. \A k \in Channel : registers[k] \in Nat
  BY BoundAssumption DEF Inv, TypeOK
<1>6. Local(c, d)
  <2>1. \A e \in Device \ {d} : sessionMap[e] # NoSession =>
          /\ sess'[sessionMap[e]] = sess[sessionMap[e]]
          /\ channelToDevice'[ChannelOf(sessionMap[e])] = e
    BY <1>4 DEF Inv, SessionInv
  <2> QED BY <1>1, <1>5, <2>1 DEF Local
<1>7. TaskInv(c)'
  BY DEF TaskInv, RegisterSteps, UpdateSteps
<1>8. Live(sessionMap[d])' => Live(sessionMap[d])
  BY <1>3 DEF Live, SessionId, ChannelOf
<1>9. SessionInv(d)'
  <2>1. SessionInv(d)
    BY DEF Inv
  <2>2. Live(sessionMap[d])' => listener'[reserved[d]] = d
    BY <1>1, <1>8 DEF Live
  <2>3. Live(sessionMap[d]) => told[ChannelOf(sessionMap[d])] = reserved[d]
    BY <1>1, <2>1 DEF SessionInv
  <2>4. sessionMap[d] # NoSession =>
          /\ sess'[sessionMap[d]].device = d /\ sess'[sessionMap[d]].port = reserved[d]
          /\ channelToDevice[ChannelOf(sessionMap[d])] = d
    BY <1>1, <1>3, <2>1 DEF SessionInv
  <2>5. sessionMap[d] # NoSession =>
          sess'[sessionMap[d]].status = "ONLINE" \/ Doing(d, {"drain", "install"})'
    BY <1>1 DEF Doing
  <2>6. Live(sessionMap[d])' => sessionMap[d] # NoSession
    BY DEF Live
  <2> QED BY <1>1, <1>8, <2>2, <2>3, <2>4, <2>5, <2>6 DEF SessionInv
<1>10. BanInv(d)'
  BY <1>1 DEF Inv, BanInv, RegisterInv
<1>11. \A k \in Channel : ChannelInv(k)'
  BY DEF Inv, ChannelInv, SessionByChannel
<1> QED BY <1>1, <1>2, <1>6, <1>7, <1>9, <1>10, <1>11, LocalStep

LEMMA ProbeKeeps ==
    ASSUME Inv, NEW c \in Channel, NEW d \in Device, task[c].device = d, Probe(c)
    PROVE  Inv'
<1> USE DEF Probe
<1>1. /\ c \in Actor /\ task[c] \in Task /\ HasLock(c)
      /\ RegisterInv(c, d)
      /\ Live(sessionMap[d]) => listener[reserved[d]] = d
  BY Registers DEF RegisterSteps
<1>2. /\ task' \in [Actor -> Task]
      /\ task'[c] = [task[c] EXCEPT !.at = "bind", !.flag = listener[task[c].port] # NoDevice]
      /\ \A b \in Actor \ {c} : task'[b] = task[b]
  BY <1>1 DEF Inv, TypeOK, Task
<1>3. TypeOK'
  BY <1>1, <1>2 DEF Inv, TypeOK, HasPort, store, mapping, inputs, Actor
<1>4. RegisterFrame(c, d)
  BY <1>1, <1>2 DEF RegisterFrame, RegisterSteps, store, mapping, inputs, IsActive
<1>5. Live(sessionMap[d])' = Live(sessionMap[d])
  BY DEF Live, store, IsActive
<1>6. ~task'[c].flag => ~Live(sessionMap[d])
  <2>1. ~task'[c].flag => listener[task[c].port] = NoDevice
    BY <1>1, <1>2 DEF Task
  <2>2. task[c].port = reserved[d]
    BY <1>1 DEF RegisterInv
  <2> QED BY <1>1, <2>1, <2>2, NoneAssumption
<1>7. RegisterInv(c, d)'
  BY <1>1, <1>2, <1>5, <1>6 DEF RegisterInv, store, mapping, inputs
<1> QED BY <1>3, <1>4, <1>7, RegisterStep

\* A registration that is refused.
LEMMA RejectKeeps ==
    ASSUME Inv, NEW c \in Channel, NEW d \in Device, task[c].device = d,
           task[c].at \in RegisterSteps \ {"drain", "install"}, Reject(c),
           UNCHANGED <<inputs, store, reserved, banned, told>>,
           online' \in [Device -> BOOLEAN],
           UNCHANGED listener \/ (~Live(sessionMap[d]) /\ \E p \in Port : StopPort(p, d))
    PROVE  Inv'
<1> USE DEF Reject
<1>1. c \in Actor /\ task[c] \in Task /\ TypeOK
  BY Registers DEF Inv
<1>2. /\ task' \in [Actor -> Task] /\ task'[c].at = "idle"
      /\ \A b \in Actor \ {c} : task'[b] = task[b]
  BY <1>1, FinishEffect
<1>3. /\ chan' \in [Channel -> {"open", "closing", "closed", "gone"}]
      /\ \A k \in Channel : (chan'[k] \in {"open", "closing"}) = IsActive(k)
      /\ \A k \in Channel : chan[k] = "closed" => chan'[k] = "closed"
  BY <1>1, RequestCloseEffect
<1>4. /\ listener' \in [Port -> Device \cup {NoDevice}]
      /\ \A p \in Port : \A e \in Device :
            listener[p] = e => listener'[p] = e \/ (e = d /\ ~Live(sessionMap[d]))
  BY <1>1, StopPortEffect DEF TypeOK
<1>5. TypeOK'
  BY <1>1, <1>2, <1>3, <1>4 DEF TypeOK, HasPort, store, mapping, inputs, Actor
<1>6. RegisterFrame(c, d)
  BY <1>1, <1>2, <1>3, <1>4 DEF RegisterFrame, store, inputs, IsActive
<1> QED BY <1>2, <1>5, <1>6, RegisterStep

LEMMA RegisterBindKeeps ==
    ASSUME Inv, NEW c \in Channel, NEW d \in Device, task[c].device = d, RegisterBind(c)
    PROVE  Inv'
<1> USE DEF RegisterBind
<1>1. c \in Actor /\ task[c] \in Task /\ HasLock(c) /\ RegisterInv(c, d) /\ TypeOK
  BY Registers DEF RegisterSteps, Inv
<1>2. task[c].port \in Port
  BY <1>1 DEF TypeOK, HasPort
<1>3. CASE GoTo(c, "online") /\ UNCHANGED chan /\ (Bind(task[c].port, d) \/ UNCHANGED listener)
            /\ listener'[task[c].port] = d
  <2> USE <1>3
  <2>1. /\ task' \in [Actor -> Task] /\ task'[c].at = "online"
        /\ task'[c].device = d /\ task'[c].port = task[c].port /\ task'[c].flag = task[c].flag
        /\ \A b \in Actor \ {c} : task'[b] = task[b]
    BY <1>1, GoToEffect DEF Step
  <2>2. /\ listener' \in [Port -> Device \cup {NoDevice}]
        /\ \A p \in Port : \A e \in Device : listener[p] = e => listener'[p] = e
    BY <1>1, <1>2, NoneAssumption DEF TypeOK, Bind
  <2>3. TypeOK'
    BY <1>1, <1>2, <2>1, <2>2 DEF TypeOK, HasPort, store, mapping, inputs, Actor
  <2>4. RegisterFrame(c, d)
    BY <1>1, <2>1, <2>2 DEF RegisterFrame, RegisterSteps, store, mapping, inputs, IsActive
  <2>5. Live(sessionMap[d])' = Live(sessionMap[d])
    BY DEF Live, store, IsActive
  <2>6. RegisterInv(c, d)'
    BY <1>1, <2>1, <2>5 DEF RegisterInv, store, mapping, inputs
  <2> QED BY <2>3, <2>4, <2>6, RegisterStep
<1>4. CASE Reject(c) /\ UNCHANGED listener
  BY <1>1, <1>4, RejectKeeps DEF RegisterSteps, store, mapping, inputs, TypeOK
<1> QED
  BY <1>1, <1>2, <1>3, <1>4 DEF Bind, TypeOK

LEMMA RegisterOnlineKeeps ==
    ASSUME Inv, NEW c \in Channel, NEW d \in Device, task[c].device = d, RegisterOnline(c)
    PROVE  Inv'
<1> USE DEF RegisterOnline
<1>1. c \in Actor /\ task[c] \in Task /\ HasLock(c) /\ RegisterInv(c, d) /\ TypeOK
  BY Registers DEF RegisterSteps, Inv
<1>2. task[c].port \in Port
  BY <1>1 DEF TypeOK, HasPort
<1>3. CASE online' = [online EXCEPT ![d] = TRUE] /\ GoTo(c, "verify") /\ UNCHANGED <<chan, listener>>
  <2> USE <1>3
  <2>1. /\ task' \in [Actor -> Task] /\ task'[c].at = "verify"
        /\ task'[c].device = d /\ task'[c].port = task[c].port /\ task'[c].flag = task[c].flag
        /\ \A b \in Actor \ {c} : task'[b] = task[b]
    BY <1>1, GoToEffect DEF Step
  <2>2. TypeOK'
    BY <1>1, <1>2, <2>1 DEF TypeOK, HasPort, store, mapping, inputs, Actor
  <2>3. RegisterFrame(c, d)
    BY <1>1, <2>1 DEF RegisterFrame, RegisterSteps, store, inputs, IsActive
  <2>4. Live(sessionMap[d])' = Live(sessionMap[d])
    BY DEF Live, store, IsActive
  <2>5. RegisterInv(c, d)'
    BY <1>1, <2>1, <2>4 DEF RegisterInv, store, inputs
  <2> QED BY <2>2, <2>3, <2>5, RegisterStep
<1>4. CASE Reject(c) /\ (IF task[c].flag THEN UNCHANGED listener ELSE StopPort(task[c].port, d))
            /\ UNCHANGED online
  <2>1. UNCHANGED listener \/ (~Live(sessionMap[d]) /\ StopPort(task[c].port, d))
    BY <1>1, <1>4 DEF RegisterInv
  <2> QED BY <1>1, <1>2, <1>4, <2>1, RejectKeeps DEF RegisterSteps, store, inputs, TypeOK
<1> QED BY <1>3, <1>4

LEMMA VerifyKeeps ==
    ASSUME Inv, NEW c \in Channel, NEW d \in Device, task[c].device = d, Verify(c)
    PROVE  Inv'
<1> USE DEF Verify
<1>1. c \in Actor /\ task[c] \in Task /\ HasLock(c) /\ RegisterInv(c, d) /\ TypeOK
  BY Registers DEF RegisterSteps, Inv
<1>2. task[c].port \in Port
  BY <1>1 DEF TypeOK, HasPort
<1>3. CASE GoTo(c, "retire") /\ UNCHANGED <<chan, listener>>
  <2> USE <1>3
  <2>1. /\ task' \in [Actor -> Task] /\ task'[c].at = "retire"
        /\ task'[c].device = d /\ task'[c].port = task[c].port /\ task'[c].flag = task[c].flag
        /\ \A b \in Actor \ {c} : task'[b] = task[b]
    BY <1>1, GoToEffect DEF Step
  <2>2. TypeOK'
    BY <1>1, <1>2, <2>1 DEF TypeOK, HasPort, store, mapping, inputs, Actor
  <2>3. RegisterFrame(c, d)
    BY <1>1, <2>1 DEF RegisterFrame, RegisterSteps, store, mapping, inputs, IsActive
  <2>4. RegisterInv(c, d)'
    BY <1>1, <2>1 DEF RegisterInv, store, mapping, inputs
  <2> QED BY <2>2, <2>3, <2>4, RegisterStep
<1>4. CASE Reject(c) /\ UNCHANGED listener
  BY <1>1, <1>4, RejectKeeps DEF RegisterSteps, store, mapping, inputs, TypeOK
<1>5. CASE ~task[c].flag /\ StopPort(task[c].port, d) /\ GoTo(c, "undo") /\ UNCHANGED chan
  <2> USE <1>5
  <2>1. /\ task' \in [Actor -> Task] /\ task'[c].at = "undo"
        /\ task'[c].device = d /\ task'[c].port = task[c].port /\ task'[c].flag = task[c].flag
        /\ \A b \in Actor \ {c} : task'[b] = task[b]
    BY <1>1, GoToEffect DEF Step
  <2>2. ~Live(sessionMap[d])
    BY <1>1 DEF RegisterInv
  <2>3. /\ listener' \in [Port -> Device \cup {NoDevice}]
        /\ \A p \in Port : \A e \in Device :
              listener[p] = e => listener'[p] = e \/ (e = d /\ ~Live(sessionMap[d]))
    BY <1>1, <1>2, <2>2, StopPortEffect
  <2>4. TypeOK'
    BY <1>1, <1>2, <2>1, <2>3 DEF TypeOK, HasPort, store, mapping, inputs, Actor
  <2>5. RegisterFrame(c, d)
    BY <1>1, <2>1, <2>3 DEF RegisterFrame, RegisterSteps, store, mapping, inputs, IsActive
  <2>6. Live(sessionMap[d])' = Live(sessionMap[d])
    BY DEF Live, store, IsActive
  <2>7. RegisterInv(c, d)'
    BY <1>1, <2>1, <2>2, <2>6 DEF RegisterInv, store, mapping, inputs
  <2> QED BY <2>4, <2>5, <2>7, RegisterStep
<1> QED BY <1>3, <1>4, <1>5

LEMMA UndoKeeps ==
    ASSUME Inv, NEW c \in Channel, NEW d \in Device, task[c].device = d, Undo(c)
    PROVE  Inv'
<1>1. online' \in [Device -> BOOLEAN]
  BY DEF Undo, Inv, TypeOK
<1> QED BY <1>1, RejectKeeps DEF Undo, RegisterSteps, store, inputs

LEMMA RetireKeeps ==
    ASSUME Inv, NEW c \in Channel, NEW d \in Device, task[c].device = d, Retire(c)
    PROVE  Inv'
<1> USE DEF Retire
<1>1. c \in Actor /\ task[c] \in Task /\ HasLock(c) /\ RegisterInv(c, d) /\ TypeOK
  BY Registers DEF RegisterSteps, Inv
<1>2. task[c].port \in Port
  BY <1>1 DEF TypeOK, HasPort
<1>3. PICK x \in {"install", "drain"} : GoTo(c, x)
  OBVIOUS
<1>4. /\ task' \in [Actor -> Task] /\ task'[c].at = x
      /\ task'[c].device = d /\ task'[c].port = task[c].port
      /\ \A b \in Actor \ {c} : task'[b] = task[b]
  BY <1>1, <1>3, GoToEffect DEF Step
<1>5. /\ sess' \in [SessionId -> Session]
      /\ \A s \in SessionId :
            /\ s # sessionMap[d] => sess'[s] = sess[s]
            /\ sess'[s].device = sess[s].device /\ sess'[s].port = sess[s].port
  <2>1. CASE UNCHANGED sess
    BY <1>1, <2>1 DEF TypeOK
  <2>2. CASE sess' = [sess EXCEPT ![sessionMap[d]].status = "OFFLINE"]
    <3>1. sess \in [SessionId -> Session] /\ \A s \in SessionId : sess[s] \in Session
      BY <1>1 DEF TypeOK
    <3> HIDE DEF Retire
    <3> QED BY <2>2, <3>1 DEF Session
  <2> QED BY <2>1, <2>2
<1>6. TypeOK'
  BY <1>1, <1>2, <1>4, <1>5 DEF TypeOK, HasPort, mapping, inputs, Actor
<1>7. RegisterFrame(c, d)
  BY <1>1, <1>4, <1>5 DEF RegisterFrame, RegisterSteps, mapping, inputs, IsActive
<1>8. sess'[<<c, registers[c]>>].device = sess[<<c, registers[c]>>].device
  BY <1>1, <1>5 DEF RegisterInv, SessionId
<1>9. RegisterInv(c, d)'
  BY <1>1, <1>4, <1>8 DEF RegisterInv, mapping, inputs
<1> QED BY <1>6, <1>7, <1>9, RegisterStep

LEMMA DrainKeeps ==
    ASSUME Inv, NEW c \in Channel, NEW d \in Device, task[c].device = d, Drain(c)
    PROVE  Inv'
<1> USE DEF Drain
<1>1. c \in Actor /\ task[c] \in Task /\ HasLock(c) /\ RegisterInv(c, d) /\ TypeOK
  BY Registers DEF RegisterSteps, Inv
<1>2. task[c].port \in Port
  BY <1>1 DEF TypeOK, HasPort
<1>3. /\ task' \in [Actor -> Task] /\ task'[c].at = "install"
      /\ task'[c].device = d /\ task'[c].port = task[c].port
      /\ \A b \in Actor \ {c} : task'[b] = task[b]
  BY <1>1, GoToEffect DEF Step
<1>4. TypeOK'
  BY <1>1, <1>2, <1>3 DEF TypeOK, HasPort, store, mapping, inputs, Actor
<1>5. RegisterFrame(c, d)
  BY <1>1, <1>3 DEF RegisterFrame, RegisterSteps, store, mapping, inputs, IsActive
<1>6. RegisterInv(c, d)'
  BY <1>1, <1>3 DEF RegisterInv, store, mapping, inputs
<1> QED BY <1>4, <1>5, <1>6, RegisterStep

LEMMA AllocatedEffect ==
    ASSUME TypeOK, NEW c \in Actor, NEW p \in Port,
           task' = [task EXCEPT ![c].at = "probe", ![c].port = p]
    PROVE  /\ task' \in [Actor -> Task] /\ task'[c].at = "probe"
           /\ task'[c].device = task[c].device /\ task'[c].port = p
           /\ \A b \in Actor \ {c} : task'[b] = task[b]
<1>1. task[c] \in Task /\ task \in [Actor -> Task]
  BY DEF TypeOK
<1>2. task' = [task EXCEPT ![c] = [task[c] EXCEPT !.at = "probe", !.port = p]]
  OBVIOUS
<1>3. LET t == [task[c] EXCEPT !.at = "probe", !.port = p]
      IN  t \in Task /\ t.at = "probe" /\ t.device = task[c].device /\ t.port = p
  BY <1>1 DEF Task
<1> QED BY <1>1, <1>2, <1>3

\* The reservation that was there, or a new one; a device with a session has
\* one.
LEMMA AllocateKeeps ==
    ASSUME Inv, NEW c \in Channel, NEW d \in Device, task[c].device = d, Allocate(c)
    PROVE  Inv'
<1> USE DEF Allocate
<1>0. \A k \in Channel : registers[k] \in Nat
  BY BoundAssumption DEF Inv, TypeOK
<1>1. /\ c \in Actor /\ task[c] \in Task /\ HasLock(c) /\ RegisterInv(c, d) /\ TypeOK
      /\ ~Doing(d, {"remove"}) /\ ~Doing(d, {"move", "stopOld"})
      /\ sessionMap[d] # NoSession => reserved[d] \in Port
  BY Registers DEF RegisterSteps, Inv
<1>2. CASE /\ reserved[d] # NoPort /\ UNCHANGED <<chan, reserved>>
           /\ task' = [task EXCEPT ![c].at = "probe", ![c].port = reserved[d]]
  <2> USE <1>2
  <2>1. /\ task' \in [Actor -> Task] /\ task'[c].at = "probe"
        /\ task'[c].device = d /\ task'[c].port = reserved[d] /\ reserved[d] \in Port
        /\ \A b \in Actor \ {c} : task'[b] = task[b]
    <3>1. reserved[d] \in Port
      BY <1>1 DEF TypeOK
    <3> HIDE DEF Allocate
    <3> QED BY <1>1, <3>1, AllocatedEffect
  <2>2. TypeOK'
    BY <1>1, <2>1 DEF TypeOK, HasPort, store, inputs, Actor
  <2>3. RegisterFrame(c, d)
    BY <1>1, <2>1 DEF RegisterFrame, RegisterSteps, store, inputs, IsActive
  <2>4. RegisterInv(c, d)'
    BY <1>1, <2>1 DEF RegisterInv, store, inputs
  <2> QED BY <2>2, <2>3, <2>4, RegisterStep
<1>3. ASSUME NEW p \in Port, reserved[d] = NoPort, UNCHANGED chan,
             reserved' = [reserved EXCEPT ![d] = p],
             task' = [task EXCEPT ![c].at = "probe", ![c].port = p]
      PROVE  Inv'
  <2> USE <1>3
  <2>1. /\ task' \in [Actor -> Task] /\ task'[c].at = "probe"
        /\ task'[c].device = d /\ task'[c].port = p
        /\ \A b \in Actor \ {c} : task'[b] = task[b]
    <3> HIDE DEF Allocate
    <3> QED BY <1>1, <1>3, AllocatedEffect
  <2>2. TypeOK'
    BY <1>1, <2>1 DEF TypeOK, HasPort, store, inputs, Actor
  <2>3. Exclusion'
    BY <1>1, <2>1, ExclusionKept DEF Inv, HasLock
  <2>4. Local(c, d)
    <3>1. \A k \in Channel : registers'[k] = registers[k] /\ registers[k] >= registers[k]
      BY <1>1, <1>0 DEF inputs
    <3>2. \A e \in Device : sessionMap[e] # NoSession =>
             channelToDevice[ChannelOf(sessionMap[e])] = e
      BY DEF Inv, SessionInv
    <3>3. \A e \in Device \ {d} : reserved'[e] = reserved[e]
      BY <1>1 DEF TypeOK
    <3> QED BY <1>1, <2>1, <3>1, <3>2, <3>3 DEF Local, store, IsActive
  <2>5. sessionMap[d] = NoSession
    BY <1>1, PortAssumption
  <2>7. TaskInv(c)'
    <3>1. RegisterInv(c, d)'
      BY <1>1, <2>1, <2>5 DEF RegisterInv, Live, store, inputs, TypeOK
    <3> QED BY <2>1, <3>1 DEF TaskInv, RegisterSteps, UpdateSteps
  <2>8. SessionInv(d)' /\ BanInv(d)'
    BY <2>5 DEF SessionInv, BanInv, Live, store
  <2>9. \A k \in Channel : ChannelInv(k)'
    BY DEF Inv, ChannelInv, SessionByChannel, store
  <2> QED BY <1>1, <2>2, <2>3, <2>4, <2>7, <2>8, <2>9, LocalStep DEF store
<1>4. CASE Reject(c) /\ UNCHANGED reserved
  BY <1>1, <1>4, RejectKeeps DEF RegisterSteps, store, inputs, TypeOK
<1> QED BY <1>2, <1>3, <1>4

\* The first step of a call under the stripe of d: it may change the bans, or
\* reserve a port for a device without one.
StartFrame(a, d) ==
    /\ ~HasLock(a) /\ LockFree(d)
    /\ UNCHANGED <<store, listener, told>>
    /\ \A b \in Actor \ {a} : task'[b] = task[b]
    /\ task'[a].at = "idle" \/ task'[a].device = d
    /\ \A e \in Device \ {d} : reserved'[e] = reserved[e] /\ (e \in banned' => e \in banned)
    /\ reserved'[d] = reserved[d] \/ sessionMap[d] = NoSession
    /\ d \in banned' => d \in banned \/ task'[a].at = "remove"
    /\ \A k \in Channel :
          /\ IsActive(k)' = IsActive(k) /\ registers'[k] >= registers[k]
          /\ k # a => /\ chan[k] = "closed" => chan'[k] = "closed"
                      /\ registers'[k] = registers[k]

LEMMA StartStep ==
    ASSUME Inv, TypeOK', NEW a \in Actor, NEW d \in Device, StartFrame(a, d), TaskInv(a)'
    PROVE  Inv'
<1> USE DEF StartFrame
<1>1. \A b \in Actor : HasLock(b) => task[b].device # d
  BY DEF LockFree
<1>2. Exclusion'
  BY ExclusionKept DEF Inv, HasLock
<1>3. SessionInv(d) /\ BanInv(d)
  BY DEF Inv
<1>4. Local(a, d)
  <2>1. \A e \in Device : sessionMap[e] # NoSession =>
           channelToDevice[ChannelOf(sessionMap[e])] = e
    BY DEF Inv, SessionInv
  <2> QED BY <2>1 DEF Local, Inv, TypeOK, store, IsActive
<1>5. Live(sessionMap[d])' = Live(sessionMap[d])
  BY DEF Live, store, SessionId, ChannelOf, Inv, TypeOK
<1>7. sessionMap[d] # NoSession =>
         /\ sess[sessionMap[d]].port = reserved[d] /\ sess[sessionMap[d]].port \in Port
         /\ sess[sessionMap[d]].status = "ONLINE"
         /\ Live(sessionMap[d]) => told[ChannelOf(sessionMap[d])] = reserved[d]
  BY <1>1, <1>3 DEF SessionInv, Doing, HasLock
<1>8. SessionInv(d)'
  BY <1>3, <1>5, <1>7 DEF SessionInv, Live, store
<1>9. BanInv(d)'
  <2>1. d \in banned => sessionMap[d] = NoSession
    BY <1>1, <1>3 DEF BanInv, Doing, HasLock
  <2>2. d \in banned' => sessionMap'[d] = NoSession \/ task'[a].at = "remove"
    BY <2>1 DEF store
  <2> QED BY <2>2 DEF BanInv, Doing
<1>10. \A k \in Channel : ChannelInv(k)'
  BY DEF Inv, ChannelInv, SessionByChannel, store
<1> QED BY <1>2, <1>4, <1>8, <1>9, <1>10, LocalStep DEF store

\* The session objects of a channel are numbered by its register messages, and
\* only the channel of a device may register it again.
LEMMA RegisterBeginKeeps ==
    ASSUME Inv, NEW c \in Channel, NEW d \in Device, RegisterBegin(c, d)
    PROVE  Inv'
<1> USE DEF RegisterBegin
<1>1. TypeOK /\ c \in Actor /\ ~HasLock(c) /\ task[c] = Idle
  BY DEF Inv, Actor, HasLock, Idle
<1>2. /\ registers' \in [Channel -> 0 .. MaxRegister]
      /\ registers'[c] = registers[c] + 1 /\ registers'[c] \in 1 .. MaxRegister
      /\ \A k \in Channel : registers'[k] \in Nat /\ registers[k] \in Nat
      /\ \A k \in Channel : registers'[k] >= registers[k] /\ (k # c => registers'[k] = registers[k])
  BY <1>1, BoundAssumption DEF TypeOK
<1>3. CASE /\ Admissible(c, d) /\ UNCHANGED chan
           /\ task' = [task EXCEPT ![c] = [Idle EXCEPT !.at = "allocate", !.op = "register",
                                                       !.device = d]]
  <2> USE <1>3
  <2>1. /\ task' \in [Actor -> Task] /\ task'[c].at = "allocate" /\ task'[c].device = d
        /\ \A b \in Actor \ {c} : task'[b] = task[b]
    BY <1>1 DEF TypeOK, Task, Idle
  <2>2. TypeOK'
    BY <1>1, <1>2, <2>1 DEF TypeOK, HasPort, store, mapping, Actor
  <2>3. StartFrame(c, d)
    BY <1>1, <1>2, <2>1 DEF StartFrame, IsActive, mapping, store
  <2>4. channelToDevice[c] \in {NoDevice, d}
    <3> DEFINE e == channelToDevice[c]
    <3> SUFFICES ASSUME e # NoDevice PROVE e = d
      OBVIOUS
    <3>1. e \in Device /\ SessionByChannel(c) # NoSession
      BY <1>1 DEF TypeOK, Inv, ChannelInv
    <3>2. SessionByChannel(c) = sessionMap[e]
      BY <3>1 DEF SessionByChannel
    <3>3. sess[sessionMap[e]].device = e
      BY <3>1, <3>2 DEF Inv, SessionInv
    <3> QED BY <3>1, <3>2, <3>3 DEF Admissible
  <2>5. sess'[<<c, registers'[c]>>].device = NoDevice
    <3>1. <<c, registers'[c]>> \in SessionId
      BY <1>2 DEF SessionId
    <3>2. ~(<<c, registers'[c]>>[2] <= registers[<<c, registers'[c]>>[1]])
      BY <1>2
    <3> QED BY <3>1, <3>2 DEF Inv, FreshInv, store
  <2>6. RegisterInv(c, d)'
    BY <1>2, <2>1, <2>4, <2>5 DEF RegisterInv, Admissible, store
  <2>7. TaskInv(c)'
    BY <2>1, <2>6 DEF TaskInv, RegisterSteps, UpdateSteps
  <2> QED BY <1>1, <2>2, <2>3, <2>7, StartStep
<1>4. CASE Reject(c)
  <2> USE <1>4 DEF Reject
  <2>1. /\ task' \in [Actor -> Task] /\ task'[c].at = "idle"
        /\ \A b \in Actor \ {c} : task'[b] = task[b]
    BY <1>1, FinishEffect
  <2>2. /\ chan' \in [Channel -> {"open", "closing", "closed", "gone"}]
        /\ \A k \in Channel : (chan'[k] \in {"open", "closing"}) = IsActive(k)
        /\ \A k \in Channel : chan[k] = "closed" => chan'[k] = "closed"
    BY <1>1, RequestCloseEffect
  <2>3. TypeOK'
    BY <1>1, <1>2, <2>1, <2>2 DEF TypeOK, HasPort, store, mapping, Actor
  <2>4. StartFrame(c, d)
    BY <1>1, <1>2, <2>1, <2>2 DEF StartFrame, IsActive, mapping, store
  <2>5. TaskInv(c)'
    BY <2>1 DEF TaskInv, RegisterSteps, UpdateSteps
  <2> QED BY <1>1, <2>3, <2>4, <2>5, StartStep
<1> QED BY <1>3, <1>4

\* The new session replaces the old one in both maps at once.
LEMMA InstallKeeps ==
    ASSUME Inv, NEW c \in Channel, NEW d \in Device, task[c].device = d, Install(c)
    PROVE  Inv'
<1> DEFINE s == <<c, registers[c]>>
           old == sessionMap[d]
           displaced == old # NoSession /\ ChannelOf(old) # c
<1> USE DEF Install
<1>0. \A k \in Channel : registers[k] \in Nat
  BY BoundAssumption DEF Inv, TypeOK
<1>1. /\ c \in Actor /\ task[c] \in Task /\ HasLock(c) /\ RegisterInv(c, d) /\ TypeOK
      /\ ~Doing(d, {"remove"}) /\ ~Doing(d, {"move", "stopOld"})
  BY Registers DEF RegisterSteps, Inv
<1>2. task[c].port \in Port /\ task[c].port = reserved[d] /\ listener[task[c].port] = d
  BY <1>1 DEF TypeOK, HasPort, RegisterInv
<1>3. s \in SessionId /\ ChannelOf(s) = c /\ s # NoSession /\ s[1] = c /\ s[2] = registers[c]
  BY <1>1, NoSessionAssumption DEF RegisterInv, SessionId, ChannelOf
<1>4. /\ task' \in [Actor -> Task] /\ task'[c].at = "idle"
      /\ \A b \in Actor \ {c} : task'[b] = task[b]
  BY <1>1, FinishEffect
<1>5. old # NoSession =>
         old \in SessionId /\ old # s /\ ChannelOf(old) \in Channel
           /\ channelToDevice[ChannelOf(old)] = d
  <2> SUFFICES ASSUME old # NoSession
               PROVE  /\ old \in SessionId /\ old # s /\ ChannelOf(old) \in Channel
                      /\ channelToDevice[ChannelOf(old)] = d
    OBVIOUS
  <2>1. old \in SessionId /\ ChannelOf(old) \in Channel
    BY <1>1 DEF TypeOK, SessionId, ChannelOf
  <2>2. channelToDevice[ChannelOf(old)] = d /\ sess[old].device = d
    BY DEF Inv, SessionInv
  <2>3. sess[s].device = NoDevice
    BY <1>1 DEF RegisterInv
  <2> HIDE DEF old, s
  <2> QED BY <2>1, <2>2, <2>3, NoneAssumption
<1>6. /\ chan' \in [Channel -> {"open", "closing", "closed", "gone"}]
      /\ \A k \in Channel : IsActive(k)' = IsActive(k)
      /\ \A k \in Channel : chan[k] = "closed" => chan'[k] = "closed"
  <2>1. CASE displaced
    BY <1>1, <1>5, <2>1, RequestCloseEffect DEF IsActive
  <2>2. CASE ~displaced
    BY <1>1, <2>2 DEF TypeOK, IsActive
  <2> QED BY <2>1, <2>2
<1>7. /\ sess' \in [SessionId -> Session]
      /\ sess'[s].device = d /\ sess'[s].port = task[c].port /\ sess'[s].status = "ONLINE"
      /\ \A t \in SessionId : t # s => sess'[t].device = sess[t].device
      /\ \A t \in SessionId : t # s /\ t # old => sess'[t] = sess[t]
  <2>1. [device |-> d, port |-> task[c].port, status |-> "ONLINE"] \in Session
    BY <1>2 DEF Session
  <2>2. \A t \in SessionId : [sess[t] EXCEPT !.status = "OFFLINE"] \in Session
    BY <1>1 DEF TypeOK, Session
  <2>3. \A t \in SessionId :
           [sess[t] EXCEPT !.status = "OFFLINE"].device = sess[t].device
    BY <1>1 DEF TypeOK, Session
  <2>4. \A t \in SessionId : sess[t] \in Session
    BY <1>1 DEF TypeOK
  <2> QED BY <1>3, <2>1, <2>2, <2>3, <2>4
<1>8. /\ sessionMap' \in [Device -> SessionId \cup {NoSession}]
      /\ sessionMap'[d] = s
      /\ \A e \in Device \ {d} : sessionMap'[e] = sessionMap[e]
  BY <1>1, <1>3 DEF TypeOK
<1>9. /\ channelToDevice' \in [Channel -> Device \cup {NoDevice}]
      /\ channelToDevice'[c] = d
      /\ \A k \in Channel \ {c} : channelToDevice'[k] =
            IF old # NoSession /\ k = ChannelOf(old) THEN NoDevice ELSE channelToDevice[k]
  BY <1>1 DEF TypeOK
<1>10. /\ told' \in [Channel -> Port \cup {NoPort}]
       /\ told'[c] = task[c].port /\ \A k \in Channel \ {c} : told'[k] = told[k]
  BY <1>1, <1>2 DEF TypeOK
<1>11. TypeOK'
  BY <1>1, <1>4, <1>6, <1>7, <1>8, <1>9, <1>10 DEF TypeOK, HasPort, mapping, inputs, Actor
<1>12. Exclusion'
  BY <1>1, <1>4, ExclusionKept DEF Inv, HasLock
<1>13. Local(c, d)
  <2>1. ASSUME NEW e \in Device \ {d}, sessionMap[e] # NoSession
        PROVE  /\ sess'[sessionMap[e]] = sess[sessionMap[e]]
               /\ channelToDevice'[ChannelOf(sessionMap[e])] = e
               /\ told'[ChannelOf(sessionMap[e])] = told[ChannelOf(sessionMap[e])]
    <3>1. /\ sessionMap[e] \in SessionId /\ ChannelOf(sessionMap[e]) \in Channel
          /\ channelToDevice[ChannelOf(sessionMap[e])] = e
      BY <1>1, <2>1 DEF Inv, SessionInv, TypeOK, SessionId, ChannelOf
    <3>2. ChannelOf(sessionMap[e]) # c
      BY <1>1, <3>1, NoneAssumption DEF RegisterInv
    <3>3. sessionMap[e] # s /\ sessionMap[e] # old
      BY <1>3, <1>5, <2>1, <3>1, <3>2
    <3>4. ~(old # NoSession /\ ChannelOf(sessionMap[e]) = ChannelOf(old))
      BY <1>5, <3>1
    <3> QED BY <1>7, <1>9, <1>10, <3>1, <3>2, <3>3, <3>4
  <2>2. \A k \in Channel : registers'[k] = registers[k] /\ registers[k] >= registers[k]
    BY <1>0 DEF inputs
  <2>3. \A k \in Channel \ {c} : channelToDevice'[k] \in {channelToDevice[k], NoDevice}
    BY <1>9
  <2>4. \A e \in Device \ {d} : sessionMap'[e] = sessionMap[e] /\ reserved'[e] = reserved[e]
    BY <1>8 DEF mapping
  <2>5. \A t \in SessionId : ChannelOf(t) # c => sess'[t].device = sess[t].device
    BY <1>3, <1>7
  <2> QED BY <1>1, <1>3, <1>4, <1>6, <1>8, <2>1, <2>2, <2>3, <2>4, <2>5 DEF Local
<1>14. TaskInv(c)'
  BY <1>4 DEF TaskInv, RegisterSteps, UpdateSteps
<1>15. SessionInv(d)' /\ BanInv(d)'
  <2>2. sess'[sessionMap'[d]].port = reserved'[d] /\ told'[ChannelOf(sessionMap'[d])] = reserved'[d]
    BY <1>2, <1>3, <1>7, <1>8, <1>10 DEF mapping
  <2>3. listener'[sess'[sessionMap'[d]].port] = d /\ sess'[sessionMap'[d]].port \in Port
    BY <1>2, <1>7, <1>8
  <2>4. SessionInv(d)'
    BY <1>3, <1>7, <1>8, <1>9, <2>2, <2>3 DEF SessionInv
  <2>5. BanInv(d)'
    BY <1>1 DEF BanInv, RegisterInv
  <2> QED BY <2>4, <2>5
<1>16. \A k \in Channel : k = c \/ channelToDevice'[k] = d => ChannelInv(k)'
  <2>1. ChannelInv(c)'
    BY <1>3, <1>8, <1>9 DEF ChannelInv, SessionByChannel
  <2>2. ASSUME NEW k \in Channel \ {c}, channelToDevice'[k] = d PROVE FALSE
    <3>1. channelToDevice[k] = d /\ ~(old # NoSession /\ k = ChannelOf(old))
      BY <1>9, <2>2, NoneAssumption
    <3>2. ChannelInv(k)
      BY DEF Inv
    <3> QED BY <3>1, <3>2, NoneAssumption DEF ChannelInv, SessionByChannel
  <2> QED BY <2>1, <2>2
<1>17. \A t \in SessionId : ChannelOf(t) = c /\ sess'[t].device # NoDevice
                             => sess'[t].device = sess[t].device \/ t[2] <= registers'[c]
  BY <1>0, <1>3, <1>7 DEF inputs
<1> QED BY <1>1, <1>11, <1>12, <1>13, <1>14, <1>15, <1>16, <1>17, LocalStep

-----------------------------------------------------------------------------
(* disconnectLocked. *)

\* A call that holds the stripe of its device is the only one working on it.
LEMMA Alone ==
    ASSUME Inv, NEW a \in Actor, HasLock(a), NEW b \in Actor, HasLock(b),
           task[b].device = task[a].device
    PROVE  b = a
BY DEF Inv, Exclusion

\* The second look of disconnected.
LEMMA EnterKeeps ==
    ASSUME Inv, NEW c \in Channel, NEW d \in Device, task[c].device = d, Enter(c)
    PROVE  Inv'
<1> USE DEF Enter
<1>0. \A k \in Channel : registers'[k] = registers[k] /\ registers[k] >= registers[k]
  BY BoundAssumption DEF Inv, TypeOK, inputs
<1>1. TypeOK /\ c \in Actor /\ ~HasLock(c) /\ EnterInv(c, d)
  BY DEF Inv, Actor, HasLock, TaskInv
<1>2. CASE SessionByChannel(c) = task[c].sess /\ GoTo(c, "remove") /\ UNCHANGED chan
  <2> USE <1>2
  <2>1. /\ task' \in [Actor -> Task] /\ task'[c].at = "remove" /\ task'[c].device = d
        /\ \A b \in Actor \ {c} : task'[b] = task[b]
    BY <1>1, GoToEffect DEF Step
  <2>2. TypeOK'
    BY <1>1, <2>1 DEF TypeOK, HasPort, store, mapping, inputs, Actor
  <2>3. StartFrame(c, d)
    BY <1>0, <1>1, <2>1 DEF StartFrame, IsActive, mapping, store
  <2>4. sessionMap[d] # NoSession /\ ChannelOf(sessionMap[d]) = c
    <3> DEFINE e == channelToDevice[c]
    <3>1. /\ e \in Device /\ sessionMap[e] # NoSession
          /\ ChannelOf(sessionMap[e]) = c /\ sessionMap[e] = task[c].sess
      BY <1>1, NoSessionAssumption DEF EnterInv, SessionByChannel, TypeOK
    <3>2. sess[task[c].sess].device = e
      BY <3>1 DEF Inv, SessionInv
    <3> QED BY <1>1, <3>1, <3>2 DEF EnterInv
  <2>5. TaskInv(c)'
    BY <1>1, <2>1, <2>4 DEF TaskInv, RegisterSteps, UpdateSteps, RemoveInv, EnterInv, store
  <2> QED BY <1>1, <2>2, <2>3, <2>5, StartStep
<1>3. CASE Finish(c) /\ chan' = [chan EXCEPT ![c] = "gone"]
  <2> USE <1>3
  <2>1. /\ task' \in [Actor -> Task] /\ task'[c].at = "idle"
        /\ \A b \in Actor \ {c} : task'[b] = task[b]
    BY <1>1, FinishEffect
  <2>2. TypeOK'
    BY <1>1, <2>1 DEF TypeOK, HasPort, store, mapping, inputs, Actor
  <2>3. /\ \A k \in Channel : IsActive(k)' = IsActive(k)
        /\ \A k \in Channel \ {c} : chan'[k] = chan[k]
    BY <1>1 DEF EnterInv, IsActive, TypeOK
  <2>4. StartFrame(c, d)
    BY <1>0, <1>1, <2>1, <2>3 DEF StartFrame, mapping, store
  <2>5. TaskInv(c)'
    BY <2>1 DEF TaskInv, RegisterSteps, UpdateSteps
  <2> QED BY <1>1, <2>2, <2>4, <2>5, StartStep
<1> QED BY <1>2, <1>3

LEMMA AfterDisconnectEffect ==
    ASSUME TypeOK, NEW a \in Actor, AfterDisconnect(a)
    PROVE  /\ task' \in [Actor -> Task]
           /\ \/ task'[a].at = "idle"
              \/ task'[a].at = "release" /\ task'[a].device = task[a].device
           /\ \A b \in Actor \ {a} : task'[b] = task[b]
BY GoToEffect, FinishEffect DEF AfterDisconnect, Step

\* A step of disconnectLocked, or after it, when the session is gone.
DownFrame(a, d) ==
    /\ HasLock(a) /\ task[a].device = d /\ sessionMap[d] = NoSession
    /\ UNCHANGED <<inputs, store, banned, told>>
    /\ \A b \in Actor \ {a} : task'[b] = task[b]
    /\ task'[a].at = "idle" \/ task'[a].device = d
    /\ \A e \in Device \ {d} :
          /\ reserved'[e] = reserved[e]
          /\ \A p \in Port : listener[p] = e => listener'[p] = e
    /\ \A k \in Channel :
          /\ IsActive(k)' => IsActive(k)
          /\ k # a /\ chan[k] = "closed" => chan'[k] = "closed"

LEMMA DownStep ==
    ASSUME Inv, TypeOK', NEW a \in Actor, NEW d \in Device, DownFrame(a, d), TaskInv(a)'
    PROVE  Inv'
<1> USE DEF DownFrame
<1>0. \A k \in Channel : registers'[k] = registers[k] /\ registers[k] >= registers[k]
  BY BoundAssumption DEF Inv, TypeOK, inputs
<1>1. Exclusion'
  BY ExclusionKept DEF Inv, HasLock
<1>2. Local(a, d)
  <2>1. \A e \in Device : sessionMap[e] # NoSession =>
           channelToDevice[ChannelOf(sessionMap[e])] = e
    BY DEF Inv, SessionInv
  <2> QED BY <1>0, <2>1 DEF Local, store
<1>3. SessionInv(d)' /\ BanInv(d)'
  BY DEF SessionInv, BanInv, Live, store
<1>4. \A k \in Channel : ChannelInv(k)'
  BY DEF Inv, ChannelInv, SessionByChannel, store
<1> QED BY <1>1, <1>2, <1>3, <1>4, LocalStep DEF store

\* removeSessionByChannel finds the session of the device, and takes it out of
\* both maps.
LEMMA RemoveKeeps ==
    ASSUME Inv, NEW a \in Actor, NEW d \in Device, task[a].device = d, Remove(a)
    PROVE  Inv'
<1> DEFINE s == sessionMap[d]
           c == ChannelOf(s)
<1> USE DEF Remove
<1>0. \A k \in Channel : registers'[k] = registers[k] /\ registers[k] >= registers[k]
  BY BoundAssumption DEF Inv, TypeOK, inputs
<1>1. TypeOK /\ HasLock(a) /\ RemoveInv(a, d) /\ SessionInv(d)
  BY DEF Inv, HasLock, TaskInv
<1>2. CASE s = NoSession /\ AfterDisconnect(a) /\ UNCHANGED store
  <2> USE <1>2
  <2>1. /\ task' \in [Actor -> Task]
        /\ \/ task'[a].at = "idle"
           \/ task'[a].at = "release" /\ task'[a].device = d
        /\ \A b \in Actor \ {a} : task'[b] = task[b]
    BY <1>1, AfterDisconnectEffect
  <2>2. TypeOK'
    BY <1>1, <2>1 DEF TypeOK, HasPort, store, mapping, inputs, Actor
  <2>3. DownFrame(a, d)
    BY <1>1, <2>1 DEF DownFrame, mapping, IsActive
  <2>4. TaskInv(a)'
    BY <2>1 DEF TaskInv, RegisterSteps, UpdateSteps, RemoveInv, store
  <2> QED BY <2>2, <2>3, <2>4, DownStep
<1>3. CASE /\ s # NoSession
           /\ task' = [task EXCEPT ![a].at = "stop", ![a].sess = s]
           /\ channelToDevice' = [channelToDevice EXCEPT ![c] = NoDevice]
           /\ IF channelToDevice[c] # NoDevice /\ SessionByChannel(c) # NoSession
              THEN /\ sessionMap' = [sessionMap EXCEPT ![channelToDevice[c]] = NoSession]
                   /\ sess' = [sess EXCEPT ![SessionByChannel(c)].status = "OFFLINE"]
              ELSE UNCHANGED <<sessionMap, sess>>
  <2>1. /\ s \in SessionId /\ c \in Channel /\ channelToDevice[c] = d
        /\ SessionByChannel(c) = s
    BY <1>1, <1>3, NoneAssumption DEF TypeOK, SessionInv, SessionByChannel, SessionId, ChannelOf
  <2>2. /\ task' \in [Actor -> Task] /\ task'[a].at = "stop"
        /\ task'[a].device = d /\ task'[a].sess = s
        /\ \A b \in Actor \ {a} : task'[b] = task[b]
    <3>1. task[a] \in Task /\ s \in SessionId \cup {NoSession}
      BY <1>1, <2>1 DEF TypeOK
    <3>2. task' = [task EXCEPT ![a] = [task[a] EXCEPT !.at = "stop", !.sess = s]]
      BY <1>3
    <3> HIDE DEF s, Remove
    <3>3. LET t == [task[a] EXCEPT !.at = "stop", !.sess = s]
          IN  t \in Task /\ t.at = "stop" /\ t.device = task[a].device /\ t.sess = s
      BY <3>1 DEF Task
    <3> QED BY <1>1, <3>2, <3>3 DEF TypeOK
  <2>3. /\ sessionMap' \in [Device -> SessionId \cup {NoSession}]
        /\ sessionMap'[d] = NoSession
        /\ \A e \in Device \ {d} : sessionMap'[e] = sessionMap[e]
    BY <1>1, <1>3, <2>1, NoneAssumption DEF TypeOK
  <2>4. /\ sess' \in [SessionId -> Session]
        /\ \A t \in SessionId : sess'[t].device = sess[t].device /\ (t # s => sess'[t] = sess[t])
    <3>1. sess' = [sess EXCEPT ![s].status = "OFFLINE"]
      BY <1>3, <2>1, NoneAssumption
    <3> QED BY <1>1, <2>1, <3>1 DEF TypeOK, Session
  <2>5. /\ channelToDevice' \in [Channel -> Device \cup {NoDevice}]
        /\ channelToDevice'[c] = NoDevice
        /\ \A k \in Channel \ {c} : channelToDevice'[k] = channelToDevice[k]
    BY <1>1, <1>3, <2>1 DEF TypeOK
  <2>6. TypeOK'
    BY <1>1, <2>2, <2>3, <2>4, <2>5 DEF TypeOK, HasPort, mapping, inputs, Actor
  <2>7. Exclusion'
    BY <1>1, <2>2, ExclusionKept DEF Inv, HasLock
  <2>8. Local(a, d)
    <3>1. ASSUME NEW e \in Device \ {d}, sessionMap[e] # NoSession
          PROVE  /\ sess'[sessionMap[e]] = sess[sessionMap[e]]
                 /\ channelToDevice'[ChannelOf(sessionMap[e])] = e
      <4>1. /\ sessionMap[e] \in SessionId /\ ChannelOf(sessionMap[e]) \in Channel
            /\ channelToDevice[ChannelOf(sessionMap[e])] = e
        BY <1>1, <3>1 DEF Inv, SessionInv, TypeOK, SessionId, ChannelOf
      <4> QED BY <2>1, <2>4, <2>5, <4>1
    <3>2. \A k \in Channel : channelToDevice'[k] \in {channelToDevice[k], NoDevice}
      BY <2>5
    <3>3. \A k \in Channel : IsActive(k)' => IsActive(k)
      BY DEF IsActive
    <3> QED BY <1>0, <1>1, <2>2, <2>3, <2>4, <3>1, <3>2, <3>3 DEF Local, mapping
  <2>9. TaskInv(a)'
    BY <2>1, <2>2, <2>3 DEF TaskInv, RegisterSteps, UpdateSteps, RemoveInv
  <2>10. SessionInv(d)' /\ BanInv(d)'
    BY <2>3 DEF SessionInv, BanInv, Live
  <2>11. \A k \in Channel : k = a \/ channelToDevice'[k] = d => ChannelInv(k)'
    <3>1. \A k \in Channel : channelToDevice'[k] # d
      <4> SUFFICES ASSUME NEW k \in Channel, channelToDevice'[k] = d PROVE FALSE
        OBVIOUS
      <4>1. k # c /\ channelToDevice[k] = d
        BY <2>5, NoneAssumption
      <4>2. ChannelInv(k)
        BY DEF Inv
      <4> QED BY <4>1, <4>2, NoneAssumption DEF ChannelInv, SessionByChannel
    <3>2. a \in Channel => c = a
      BY <1>1 DEF RemoveInv
    <3> QED BY <2>5, <3>1, <3>2 DEF ChannelInv
  <2> QED BY <2>4, <2>6, <2>7, <2>8, <2>9, <2>10, <2>11, LocalStep
<1> QED BY <1>2, <1>3

LEMMA StopKeeps ==
    ASSUME Inv, NEW a \in Actor, NEW d \in Device, task[a].device = d, Stop(a)
    PROVE  Inv'
<1> USE DEF Stop
<1>1. TypeOK /\ HasLock(a) /\ RemoveInv(a, d)
  BY DEF Inv, HasLock, TaskInv
<1>2. /\ task' \in [Actor -> Task] /\ task'[a].at = "offline"
      /\ task'[a].device = d /\ task'[a].sess = task[a].sess
      /\ \A b \in Actor \ {a} : task'[b] = task[b]
  BY <1>1, GoToEffect DEF Step
<1>3. /\ listener' \in [Port -> Device \cup {NoDevice}]
      /\ \A e \in Device \ {d} : \A p \in Port : listener[p] = e => listener'[p] = e
  BY <1>1, StopPortEffect
<1>4. TypeOK'
  BY <1>1, <1>2, <1>3 DEF TypeOK, HasPort, store, mapping, inputs, Actor
<1>5. DownFrame(a, d)
  BY <1>1, <1>2, <1>3 DEF DownFrame, RemoveInv, mapping, IsActive
<1>6. TaskInv(a)'
  BY <1>1, <1>2 DEF TaskInv, RegisterSteps, UpdateSteps, RemoveInv, store
<1> QED BY <1>4, <1>5, <1>6, DownStep

LEMMA OfflineKeeps ==
    ASSUME Inv, NEW a \in Actor, NEW d \in Device, task[a].device = d, Offline(a)
    PROVE  Inv'
<1> USE DEF Offline
<1>1. TypeOK /\ HasLock(a) /\ RemoveInv(a, d)
  BY DEF Inv, HasLock, TaskInv
<1>2. /\ task' \in [Actor -> Task]
      /\ \/ task'[a].at = "idle"
         \/ task'[a].at = "release" /\ task'[a].device = d
      /\ \A b \in Actor \ {a} : task'[b] = task[b]
  BY <1>1, AfterDisconnectEffect
<1>3. /\ chan' \in [Channel -> {"open", "closing", "closed", "gone"}]
      /\ \A k \in Channel : IsActive(k)' => IsActive(k)
      /\ \A k \in Channel \ {a} : chan[k] = "closed" => chan'[k] = "closed"
  BY <1>1 DEF TypeOK, IsActive
<1>4. TypeOK'
  BY <1>1, <1>2, <1>3 DEF TypeOK, HasPort, store, inputs, Actor
<1>5. DownFrame(a, d)
  BY <1>1, <1>2, <1>3 DEF DownFrame, RemoveInv
<1>6. TaskInv(a)'
  BY <1>1, <1>2 DEF TaskInv, RegisterSteps, UpdateSteps, RemoveInv, store
<1> QED BY <1>4, <1>5, <1>6, DownStep

LEMMA ReleaseKeeps ==
    ASSUME Inv, NEW a \in Actor, NEW d \in Device, task[a].device = d, Release(a)
    PROVE  Inv'
<1> USE DEF Release
<1>1. TypeOK /\ HasLock(a) /\ RemoveInv(a, d)
  BY DEF Inv, HasLock, TaskInv
<1>2. /\ task' \in [Actor -> Task] /\ task'[a].at = "idle"
      /\ \A b \in Actor \ {a} : task'[b] = task[b]
  BY <1>1, FinishEffect
<1>3. /\ reserved' \in [Device -> Port \cup {NoPort}]
      /\ \A e \in Device \ {d} : reserved'[e] = reserved[e]
      /\ online' \in [Device -> BOOLEAN]
  BY <1>1 DEF TypeOK, mapping
<1>4. TypeOK'
  BY <1>1, <1>2, <1>3 DEF TypeOK, HasPort, store, inputs, Actor
<1>5. DownFrame(a, d)
  BY <1>1, <1>2, <1>3 DEF DownFrame, RemoveInv, IsActive
<1>6. TaskInv(a)'
  BY <1>2 DEF TaskInv, RegisterSteps, UpdateSteps
<1> QED BY <1>4, <1>5, <1>6, DownStep

-----------------------------------------------------------------------------
(* Administration. *)

\* disconnect, ban and delete start disconnectLocked.
LEMMA StartTaskEffect ==
    ASSUME Inv, NEW a \in Admin, NEW op \in {"disconnect", "ban", "delete"}, NEW d \in Device,
           task[a] = Idle, LockFree(d), ops < MaxOps, ops' = ops + 1, StartTask(a, op, d),
           UNCHANGED <<chan, registers, store, listener, mapping, told>>,
           banned' \in {banned, banned \cup {d}}
    PROVE  Inv'
<1>0. \A k \in Channel : registers'[k] = registers[k] /\ registers[k] >= registers[k]
  BY BoundAssumption DEF Inv, TypeOK
<1>1. TypeOK /\ a \in Actor /\ ~HasLock(a) /\ a \notin Channel
  BY ActorAssumption DEF Inv, Actor, HasLock, Idle
<1>2. /\ task' \in [Actor -> Task] /\ task'[a].at = "remove" /\ task'[a].device = d
      /\ \A b \in Actor \ {a} : task'[b] = task[b]
  BY <1>1 DEF TypeOK, Task, Idle, StartTask
<1>3. ops' \in 0 .. MaxOps
  BY <1>1, BoundAssumption DEF TypeOK
<1>4. TypeOK'
  BY <1>1, <1>2, <1>3 DEF TypeOK, HasPort, store, mapping, Actor
<1>5. StartFrame(a, d)
  BY <1>0, <1>1, <1>2 DEF StartFrame, IsActive, mapping
<1>6. TaskInv(a)'
  BY <1>1, <1>2 DEF TaskInv, RegisterSteps, UpdateSteps, RemoveInv
<1> QED BY <1>1, <1>4, <1>5, <1>6, StartStep

LEMMA UnbanKeeps ==
    ASSUME Inv, NEW a \in Admin, NEW d \in Device, Unban(a, d)
    PROVE  Inv'
<1> USE DEF Unban, Call
<1>0. \A k \in Channel : registers'[k] = registers[k] /\ registers[k] >= registers[k]
  BY BoundAssumption DEF Inv, TypeOK
<1>1. TypeOK /\ a \in Actor /\ ~HasLock(a) /\ task'[a].at = "idle"
  BY DEF Inv, Actor, HasLock, Idle
<1>2. ops' \in 0 .. MaxOps
  BY <1>1, BoundAssumption DEF TypeOK
<1>3. TypeOK'
  BY <1>1, <1>2 DEF TypeOK, HasPort, store, mapping, Actor
<1>4. StartFrame(a, d)
  BY <1>0, <1>1 DEF StartFrame, IsActive, mapping
<1>5. TaskInv(a)'
  BY <1>1 DEF TaskInv, RegisterSteps, UpdateSteps
<1> QED BY <1>1, <1>3, <1>4, <1>5, StartStep

LEMMA PresetKeeps ==
    ASSUME Inv, NEW a \in Admin, NEW d \in Device, NEW p \in Port, Preset(a, d, p)
    PROVE  Inv'
<1> USE DEF Preset, Call
<1>0. \A k \in Channel : registers'[k] = registers[k] /\ registers[k] >= registers[k]
  BY BoundAssumption DEF Inv, TypeOK
<1>1. TypeOK /\ a \in Actor /\ ~HasLock(a) /\ task'[a].at = "idle"
  BY DEF Inv, Actor, HasLock, Idle
<1>2. ops' \in 0 .. MaxOps
  BY <1>1, BoundAssumption DEF TypeOK
<1>3. /\ reserved' \in [Device -> Port \cup {NoPort}]
      /\ \A e \in Device \ {d} : reserved'[e] = reserved[e]
  BY <1>1 DEF TypeOK
<1>4. TypeOK'
  BY <1>1, <1>2, <1>3 DEF TypeOK, HasPort, store, Actor
<1>5. sessionMap[d] = NoSession
  <2>1. ~Doing(d, {"move", "stopOld"})
    BY DEF Doing, LockFree, HasLock
  <2>2. sessionMap[d] # NoSession => sess[sessionMap[d]].port \in Port
    BY DEF Inv, SessionInv
  <2>3. sessionMap[d] # NoSession => sess[sessionMap[d]].port = reserved[d]
    BY <2>1 DEF Inv, SessionInv, Doing
  <2> QED BY <2>2, <2>3, PortAssumption
<1>6. StartFrame(a, d)
  BY <1>0, <1>1, <1>3, <1>5 DEF StartFrame, IsActive
<1>7. TaskInv(a)'
  BY <1>1 DEF TaskInv, RegisterSteps, UpdateSteps
<1> QED BY <1>1, <1>4, <1>6, <1>7, StartStep

LEMMA UpdatePortKeeps ==
    ASSUME Inv, NEW a \in Admin, NEW d \in Device, NEW p \in Port, UpdatePort(a, d, p)
    PROVE  Inv'
<1> USE DEF UpdatePort, Call
<1>0. \A k \in Channel : registers'[k] = registers[k] /\ registers[k] >= registers[k]
  BY BoundAssumption DEF Inv, TypeOK
<1>1. TypeOK /\ a \in Actor /\ ~HasLock(a)
  BY DEF Inv, Actor, HasLock, Idle
<1>2. ops' \in 0 .. MaxOps
  BY <1>1, BoundAssumption DEF TypeOK
<1>3. SessionActive(sessionMap[d]) = Live(sessionMap[d])
  <2>1. ~Doing(d, {"drain", "install"})
    BY DEF Doing, LockFree, HasLock
  <2> QED BY <2>1 DEF SessionActive, Live, Inv, SessionInv
<1>4. reserved[d] \in Port /\ reserved[d] # p /\ sessionMap[d] \in SessionId \cup {NoSession}
  BY <1>1 DEF TypeOK
<1>5. /\ task' \in [Actor -> Task]
      /\ task'[a].at = IF SessionActive(sessionMap[d]) THEN "bindNew" ELSE "save"
      /\ task'[a].flag = SessionActive(sessionMap[d])
      /\ task'[a].device = d /\ task'[a].port = p /\ task'[a].old = reserved[d]
      /\ task'[a].sess = sessionMap[d]
      /\ \A b \in Actor \ {a} : task'[b] = task[b]
  <2> DEFINE t == [at |-> IF SessionActive(sessionMap[d]) THEN "bindNew" ELSE "save",
                   op |-> "update", device |-> d, port |-> p, old |-> reserved[d],
                   flag |-> SessionActive(sessionMap[d]), sess |-> sessionMap[d]]
  <2>1. t \in Task
    BY <1>4 DEF Task, SessionActive
  <2>2. task' = [task EXCEPT ![a] = t]
    OBVIOUS
  <2> QED BY <1>1, <2>1, <2>2 DEF TypeOK
<1>6. TypeOK'
  BY <1>1, <1>2, <1>5 DEF TypeOK, HasPort, store, mapping, Actor
<1>7. StartFrame(a, d)
  BY <1>0, <1>1, <1>5 DEF StartFrame, IsActive, mapping
<1>8. Live(sessionMap[d])' = Live(sessionMap[d])
  BY DEF Live, store, IsActive
<1>9. UpdateInv(a, d)'
  <2>1. Live(sessionMap[d]) => sessionMap[d] # NoSession
    BY DEF Live
  <2>2. sessionMap' = sessionMap /\ reserved' = reserved
    BY DEF store, mapping
  <2> HIDE DEF UpdatePort
  <2> QED BY <1>3, <1>4, <1>5, <1>8, <2>1, <2>2 DEF UpdateInv
<1>10. TaskInv(a)'
  BY <1>5, <1>9 DEF TaskInv, RegisterSteps, UpdateSteps
<1> QED BY <1>1, <1>6, <1>7, <1>10, StartStep

\* A step of updatePort: it may give up a port of its own device that the
\* session is not at, and move the session to the port it asks for.
UpdateFrame(a, d) ==
    /\ HasLock(a) /\ task[a].device = d
    /\ UNCHANGED <<chan, inputs, sessionMap, channelToDevice, banned>>
    /\ \A b \in Actor \ {a} : task'[b] = task[b]
    /\ \/ task'[a].at = "idle"
       \/ task'[a].at \in UpdateSteps /\ task'[a].device = d
    /\ \A s \in SessionId :
          /\ sess'[s].device = sess[s].device /\ sess'[s].status = sess[s].status
          /\ s # sessionMap[d] => sess'[s] = sess[s]
    /\ \A e \in Device \ {d} :
          /\ reserved'[e] = reserved[e]
          /\ \A p \in Port : listener[p] = e => listener'[p] = e
          /\ sessionMap[e] # NoSession =>
                told'[ChannelOf(sessionMap[e])] = told[ChannelOf(sessionMap[e])]

LEMMA UpdateStep ==
    ASSUME Inv, TypeOK', NEW a \in Actor, NEW d \in Device, UpdateFrame(a, d),
           task[a].at \in UpdateSteps, task'[a].at # "idle" => UpdateInv(a, d)',
           sessionMap[d] # NoSession =>
              LET s == sessionMap[d] IN
              /\ sess'[s].port \in Port
              /\ \/ sess'[s].port = reserved'[d]
                 \/ task'[a].at = "move" /\ sess'[s].port = task'[a].old,
           Live(sessionMap[d]) =>
              LET s == sessionMap[d] IN
              /\ listener'[sess'[s].port] = d
              /\ told'[ChannelOf(s)] = reserved'[d] \/ task'[a].at \in {"move", "stopOld"}
    PROVE  Inv'
<1> USE DEF UpdateFrame
<1>0. \A k \in Channel : registers'[k] = registers[k] /\ registers[k] >= registers[k]
  BY BoundAssumption DEF Inv, TypeOK, inputs
<1>1. Exclusion'
  BY ExclusionKept DEF Inv, HasLock
<1>2. \A e \in Device : sessionMap[e] # NoSession =>
         /\ sessionMap[e] \in SessionId /\ channelToDevice[ChannelOf(sessionMap[e])] = e
         /\ e # d => sessionMap[e] # sessionMap[d]
  BY DEF Inv, SessionInv, TypeOK
<1>3. Local(a, d)
  BY <1>0, <1>2 DEF Local, IsActive
<1>4. TaskInv(a)'
  BY DEF TaskInv, RegisterSteps, UpdateSteps
<1>5. Live(sessionMap[d])' = Live(sessionMap[d])
  BY <1>2 DEF Live, IsActive
<1>6. SessionInv(d) /\ BanInv(d)
  BY DEF Inv
<1>7. sessionMap[d] # NoSession =>
         sess'[sessionMap[d]].device = d /\ sess'[sessionMap[d]].status = "ONLINE"
  <2>1. ~Doing(d, {"drain", "install"})
    BY Alone DEF Doing, HasLock, UpdateSteps
  <2> QED BY <1>2, <1>6, <2>1 DEF SessionInv
<1>8. SessionInv(d)'
  <2>1. Live(sessionMap[d])' => sessionMap[d] # NoSession
    BY DEF Live
  <2> QED BY <1>5, <1>6, <1>7, <2>1 DEF SessionInv, Doing
<1>9. BanInv(d)'
  <2>1. ~Doing(d, {"remove"})
    BY Alone DEF Doing, HasLock, UpdateSteps
  <2> QED BY <1>6, <2>1 DEF BanInv
<1>10. \A k \in Channel : ChannelInv(k)'
  BY DEF Inv, ChannelInv, SessionByChannel
<1> QED BY <1>1, <1>3, <1>4, <1>8, <1>9, <1>10, LocalStep

\* What a call of updatePort knows before each of its steps.
LEMMA Updates ==
    ASSUME Inv, NEW a \in Actor, NEW d \in Device, task[a].device = d,
           task[a].at \in UpdateSteps
    PROVE  /\ TypeOK /\ HasLock(a) /\ UpdateInv(a, d)
           /\ sessionMap[d] # NoSession =>
                 LET s == sessionMap[d] IN
                 /\ s \in SessionId /\ sess[s].port \in Port
                 /\ task[a].at = "stopOld" => sess[s].port = task[a].port
                 /\ task[a].at \in {"bindNew", "save"} => sess[s].port = task[a].old
           /\ Live(sessionMap[d]) =>
                 LET s == sessionMap[d] IN
                 /\ s # NoSession /\ task[a].flag /\ listener[sess[s].port] = d
                 /\ task[a].at \in {"bindNew", "save"} => told[ChannelOf(s)] = task[a].old
<1>1. TypeOK /\ HasLock(a) /\ UpdateInv(a, d) /\ SessionInv(d)
  BY DEF Inv, HasLock, UpdateSteps, TaskInv
<1>2. \A b \in Actor : task[b].at \in {"move", "stopOld"} /\ task[b].device = d => b = a
  BY <1>1, Alone DEF HasLock
<1>3. sessionMap[d] # NoSession => sessionMap[d] \in SessionId
  BY <1>1 DEF TypeOK
<1>4. Live(sessionMap[d]) => sessionMap[d] # NoSession
  BY DEF Live
<1> QED BY <1>1, <1>2, <1>3, <1>4 DEF SessionInv, UpdateInv, Doing, UpdateSteps

LEMMA UpdateBindKeeps ==
    ASSUME Inv, NEW a \in Admin, NEW d \in Device, task[a].device = d, UpdateBind(a)
    PROVE  Inv'
<1> USE DEF UpdateBind
<1>1. /\ a \in Actor /\ a \notin Channel /\ TypeOK /\ HasLock(a) /\ UpdateInv(a, d)
      /\ sessionMap[d] # NoSession =>
            LET s == sessionMap[d] IN sess[s].port \in Port /\ sess[s].port = task[a].old
      /\ Live(sessionMap[d]) =>
            LET s == sessionMap[d] IN
            listener[sess[s].port] = d /\ told[ChannelOf(s)] = task[a].old
  BY Updates, ActorAssumption DEF Actor, UpdateSteps
<1>2. task[a].port \in Port /\ reserved[d] = task[a].old
  BY <1>1 DEF UpdateInv
<1>3. /\ task' \in [Actor -> Task] /\ task'[a].at \in {"idle", "save"}
      /\ task'[a].at = "save" =>
            /\ task'[a].device = d /\ task'[a].port = task[a].port /\ task'[a].old = task[a].old
            /\ task'[a].flag = task[a].flag /\ task'[a].sess = task[a].sess
            /\ listener'[task[a].port] = d
      /\ \A b \in Actor \ {a} : task'[b] = task[b]
  <2>1. CASE GoTo(a, "save")
    BY <1>1, <1>2, <2>1, GoToEffect DEF Step, Bind, TypeOK, Finish, Idle
  <2>2. CASE Finish(a)
    BY <1>1, <2>2, FinishEffect
  <2> QED BY <2>1, <2>2
<1>4. /\ listener' \in [Port -> Device \cup {NoDevice}]
      /\ \A p \in Port : \A e \in Device : listener[p] = e => listener'[p] = e
  BY <1>1, <1>2, NoneAssumption DEF TypeOK, Bind
<1>5. TypeOK'
  BY <1>1, <1>3, <1>4 DEF TypeOK, HasPort, store, mapping, inputs, Actor
<1>6. UpdateFrame(a, d)
  BY <1>1, <1>3, <1>4 DEF UpdateFrame, UpdateSteps, store, mapping
<1>7. Live(sessionMap[d])' = Live(sessionMap[d])
  BY DEF Live, store, IsActive
<1>8. task'[a].at # "idle" => UpdateInv(a, d)'
  BY <1>1, <1>3, <1>7 DEF UpdateInv, store, mapping
<1>9. /\ sessionMap[d] # NoSession =>
            LET s == sessionMap[d] IN sess'[s].port \in Port /\ sess'[s].port = reserved'[d]
      /\ Live(sessionMap[d]) =>
            LET s == sessionMap[d] IN
            listener'[sess'[s].port] = d /\ told'[ChannelOf(s)] = reserved'[d]
  BY <1>1, <1>2, <1>4 DEF store, mapping, Live
<1> QED BY <1>1, <1>5, <1>6, <1>8, <1>9, UpdateStep DEF UpdateSteps

\* The reservation moves before the session does; if it does not move, the
\* listener for the new port goes and the old one is untouched.
LEMMA UpdateSaveKeeps ==
    ASSUME Inv, NEW a \in Admin, NEW d \in Device, task[a].device = d, UpdateSave(a)
    PROVE  Inv'
<1> USE DEF UpdateSave
<1>1. /\ a \in Actor /\ a \notin Channel /\ TypeOK /\ HasLock(a) /\ UpdateInv(a, d)
      /\ sessionMap[d] # NoSession =>
            LET s == sessionMap[d] IN sess[s].port \in Port /\ sess[s].port = task[a].old
      /\ Live(sessionMap[d]) =>
            LET s == sessionMap[d] IN
            /\ s # NoSession /\ task[a].flag
            /\ listener[sess[s].port] = d /\ told[ChannelOf(s)] = task[a].old
  BY Updates, ActorAssumption DEF Actor, UpdateSteps
<1>2. /\ task[a].port \in Port /\ task[a].old # task[a].port /\ reserved[d] = task[a].old
  BY <1>1 DEF UpdateInv
<1>3. Live(sessionMap[d])' = Live(sessionMap[d])
  BY DEF Live, store, IsActive
<1>4. CASE reserved' = [reserved EXCEPT ![d] = task[a].port] /\ GoTo(a, "move") /\ UNCHANGED listener
  <2> USE <1>4
  <2>1. /\ task' \in [Actor -> Task] /\ task'[a].at = "move"
        /\ task'[a].device = d /\ task'[a].port = task[a].port /\ task'[a].old = task[a].old
        /\ task'[a].flag = task[a].flag /\ task'[a].sess = task[a].sess
        /\ \A b \in Actor \ {a} : task'[b] = task[b]
    BY <1>1, GoToEffect DEF Step
  <2>2. /\ reserved' \in [Device -> Port \cup {NoPort}]
        /\ reserved'[d] = task[a].port
        /\ \A e \in Device \ {d} : reserved'[e] = reserved[e]
    BY <1>1, <1>2 DEF TypeOK
  <2>3. TypeOK'
    BY <1>1, <2>1, <2>2 DEF TypeOK, HasPort, store, inputs, Actor
  <2>4. UpdateFrame(a, d)
    BY <1>1, <2>1, <2>2 DEF UpdateFrame, UpdateSteps, store
  <2>5. UpdateInv(a, d)'
    BY <1>1, <1>3, <2>1, <2>2 DEF UpdateInv, store
  <2> QED BY <1>1, <2>1, <2>3, <2>4, <2>5, UpdateStep DEF UpdateSteps, store
<1>5. CASE /\ Finish(a) /\ UNCHANGED reserved
           /\ IF task[a].flag THEN StopPort(task[a].port, d) ELSE UNCHANGED listener
  <2> USE <1>5
  <2>1. /\ task' \in [Actor -> Task] /\ task'[a].at = "idle"
        /\ \A b \in Actor \ {a} : task'[b] = task[b]
    BY <1>1, FinishEffect
  <2>2. /\ listener' \in [Port -> Device \cup {NoDevice}]
        /\ \A p \in Port : \A e \in Device :
              listener[p] = e => listener'[p] = e \/ (p = task[a].port /\ e = d)
    BY <1>1, StopPortEffect DEF TypeOK
  <2>3. TypeOK'
    BY <1>1, <2>1, <2>2 DEF TypeOK, HasPort, store, inputs, Actor
  <2>4. UpdateFrame(a, d)
    BY <1>1, <2>1, <2>2 DEF UpdateFrame, store
  <2>5. /\ sessionMap[d] # NoSession =>
              LET s == sessionMap[d] IN sess'[s].port \in Port /\ sess'[s].port = reserved'[d]
        /\ Live(sessionMap[d]) =>
              LET s == sessionMap[d] IN
              listener'[sess'[s].port] = d /\ told'[ChannelOf(s)] = reserved'[d]
    BY <1>1, <1>2, <2>2 DEF store
  <2> QED BY <1>1, <2>1, <2>3, <2>4, <2>5, UpdateStep DEF UpdateSteps
<1> QED BY <1>4, <1>5

LEMMA UpdateMoveKeeps ==
    ASSUME Inv, NEW a \in Admin, NEW d \in Device, task[a].device = d, UpdateMove(a)
    PROVE  Inv'
<1> USE DEF UpdateMove
<1>1. /\ a \in Actor /\ a \notin Channel /\ TypeOK /\ HasLock(a) /\ UpdateInv(a, d)
      /\ Live(sessionMap[d]) => task[a].flag /\ sessionMap[d] \in SessionId
  BY Updates, ActorAssumption DEF Actor, UpdateSteps
<1>2. /\ task[a].port \in Port /\ reserved[d] = task[a].port /\ task[a].sess = sessionMap[d]
      /\ task[a].flag => listener[task[a].port] = d
  BY <1>1 DEF UpdateInv
<1>3. /\ task' \in [Actor -> Task] /\ task'[a].at = "stopOld"
      /\ task'[a].device = d /\ task'[a].port = task[a].port /\ task'[a].old = task[a].old
      /\ task'[a].flag = task[a].flag /\ task'[a].sess = task[a].sess
      /\ \A b \in Actor \ {a} : task'[b] = task[b]
  BY <1>1, GoToEffect DEF Step
<1>4. /\ sess' \in [SessionId -> Session]
      /\ \A s \in SessionId :
            /\ sess'[s].device = sess[s].device /\ sess'[s].status = sess[s].status
            /\ s # sessionMap[d] => sess'[s] = sess[s]
            /\ s = sessionMap[d] => sess'[s].port = task[a].port
  <2>1. CASE sessionMap[d] = NoSession
    BY <1>1, <1>2, <2>1, NoSessionAssumption DEF TypeOK
  <2>2. CASE sessionMap[d] # NoSession
    <3>1. sess' = [sess EXCEPT ![sessionMap[d]].port = task[a].port]
      BY <1>2, <2>2
    <3>2. \A s \in SessionId : sess[s] \in Session
      BY <1>1 DEF TypeOK
    <3>3. sess \in [SessionId -> Session]
      BY <1>1 DEF TypeOK
    <3> HIDE DEF UpdateMove
    <3> QED BY <1>2, <3>1, <3>2, <3>3 DEF Session
  <2> QED BY <2>1, <2>2
<1>5. TypeOK'
  BY <1>1, <1>3, <1>4 DEF TypeOK, HasPort, mapping, inputs, Actor
<1>6. UpdateFrame(a, d)
  BY <1>1, <1>3, <1>4 DEF UpdateFrame, UpdateSteps, mapping
<1>7. Live(sessionMap[d])' = Live(sessionMap[d])
  <2>1. sessionMap[d] # NoSession => sessionMap[d] \in SessionId
    BY <1>1 DEF TypeOK
  <2> QED BY <1>4, <2>1 DEF Live, IsActive
<1>8. UpdateInv(a, d)'
  BY <1>1, <1>3, <1>7 DEF UpdateInv, mapping
<1>9. /\ sessionMap[d] # NoSession =>
            LET s == sessionMap[d] IN sess'[s].port \in Port /\ sess'[s].port = reserved'[d]
      /\ Live(sessionMap[d]) =>
            LET s == sessionMap[d] IN listener'[sess'[s].port] = d
  <2>1. sessionMap[d] # NoSession => sessionMap[d] \in SessionId
    BY <1>1 DEF TypeOK
  <2>2. Live(sessionMap[d]) => sessionMap[d] # NoSession
    BY DEF Live
  <2> QED BY <1>1, <1>2, <1>4, <2>1, <2>2 DEF mapping
<1> QED BY <1>1, <1>3, <1>5, <1>6, <1>8, <1>9, UpdateStep DEF UpdateSteps

LEMMA UpdateStopOldKeeps ==
    ASSUME Inv, NEW a \in Admin, NEW d \in Device, task[a].device = d, UpdateStopOld(a)
    PROVE  Inv'
<1> USE DEF UpdateStopOld
<1>1. /\ a \in Actor /\ a \notin Channel /\ TypeOK /\ HasLock(a) /\ UpdateInv(a, d)
      /\ sessionMap[d] # NoSession =>
            LET s == sessionMap[d] IN
            s \in SessionId /\ sess[s].port \in Port /\ sess[s].port = task[a].port
      /\ Live(sessionMap[d]) =>
            LET s == sessionMap[d] IN
            s # NoSession /\ task[a].flag /\ listener[sess[s].port] = d
  BY Updates, ActorAssumption DEF Actor, UpdateSteps
<1>2. /\ task[a].port \in Port /\ task[a].old # task[a].port /\ reserved[d] = task[a].port
      /\ task[a].sess = sessionMap[d] /\ (task[a].flag => task[a].sess # NoSession)
  BY <1>1 DEF UpdateInv
<1>3. /\ task' \in [Actor -> Task] /\ task'[a].at = "idle"
      /\ \A b \in Actor \ {a} : task'[b] = task[b]
  BY <1>1, FinishEffect
<1>4. /\ listener' \in [Port -> Device \cup {NoDevice}]
      /\ \A p \in Port : \A e \in Device :
            listener[p] = e => listener'[p] = e \/ (p = task[a].old /\ e = d)
  BY <1>1, StopPortEffect
<1>5. /\ \A e \in Device : sessionMap[e] # NoSession =>
            /\ channelToDevice[ChannelOf(sessionMap[e])] = e
            /\ ChannelOf(sessionMap[e]) \in Channel
  BY <1>1 DEF Inv, SessionInv, TypeOK, SessionId, ChannelOf
<1>6. /\ told' \in [Channel -> Port \cup {NoPort}]
      /\ \A e \in Device \ {d} : sessionMap[e] # NoSession =>
            told'[ChannelOf(sessionMap[e])] = told[ChannelOf(sessionMap[e])]
      /\ task[a].flag => told'[ChannelOf(sessionMap[d])] = task[a].port
  BY <1>1, <1>2, <1>5 DEF TypeOK
<1>7. TypeOK'
  BY <1>1, <1>3, <1>4, <1>6 DEF TypeOK, HasPort, store, mapping, inputs, Actor
<1>8. UpdateFrame(a, d)
  BY <1>1, <1>3, <1>4, <1>6 DEF UpdateFrame, store, mapping
<1>9. /\ sessionMap[d] # NoSession =>
            LET s == sessionMap[d] IN sess'[s].port \in Port /\ sess'[s].port = reserved'[d]
      /\ Live(sessionMap[d]) =>
            LET s == sessionMap[d] IN
            listener'[sess'[s].port] = d /\ told'[ChannelOf(s)] = reserved'[d]
  BY <1>1, <1>2, <1>4, <1>6 DEF store, mapping
<1> QED BY <1>1, <1>3, <1>7, <1>8, <1>9, UpdateStep DEF UpdateSteps

-----------------------------------------------------------------------------
(* Steps without a stripe. *)

\* Channels die, and one that has died looks for its session.
LEMMA QuietStep ==
    ASSUME Inv, TypeOK', NEW c \in Channel,
           UNCHANGED <<inputs, store, listener, mapping, banned, told>>,
           \A b \in Actor \ {c} : task'[b] = task[b],
           UNCHANGED task \/ (task[c].at = "idle" /\ task'[c].at = "enter"),
           TaskInv(c)',
           \A k \in Channel : /\ IsActive(k)' => IsActive(k)
                              /\ k # c /\ chan[k] = "closed" => chan'[k] = "closed"
    PROVE  Inv'
<1>1. Exclusion'
  BY ExclusionKept, c \in Actor DEF Inv, HasLock, Actor
<1>2. \A e \in Device : Live(sessionMap[e])' => Live(sessionMap[e])
  BY DEF Live, store, Inv, TypeOK, SessionId, ChannelOf
<1>3. ASSUME NEW b \in Actor \ {c} PROVE TaskInv(b)'
  <2>1. task'[b] = task[b] /\ TaskInv(b)
    BY DEF Inv
  <2>2. task[b].at \in RegisterSteps => RegisterInv(b, task[b].device)'
    BY <1>2, <2>1 DEF TaskInv, RegisterInv, RegisterSteps, store, mapping, inputs
  <2>3. task[b].at \in UpdateSteps => UpdateInv(b, task[b].device)'
    BY <1>2, <2>1 DEF TaskInv, UpdateInv, UpdateSteps, store, mapping
  <2>4. task[b].at = "enter" => EnterInv(b, task[b].device)'
    BY <2>1 DEF TaskInv, EnterInv, store
  <2>5. task[b].at \in {"remove", "stop", "offline", "release"} => RemoveInv(b, task[b].device)'
    BY <2>1 DEF TaskInv, RemoveInv, store
  <2> QED BY <2>1, <2>2, <2>3, <2>4, <2>5 DEF TaskInv
<1>4. \A b \in Actor : task[b].at \in {"move", "stopOld", "remove"} => task'[b] = task[b]
  OBVIOUS
<1>5. ASSUME NEW e \in Device PROVE SessionInv(e)' /\ BanInv(e)'
  <2>1. SessionInv(e) /\ BanInv(e)
    BY DEF Inv
  <2>2. Doing(e, {"move", "stopOld"}) => Doing(e, {"move", "stopOld"})'
    BY <1>4 DEF Doing
  <2>3. Doing(e, {"remove"}) => Doing(e, {"remove"})'
    BY <1>4 DEF Doing
  <2>5. Doing(e, {"drain", "install"}) => Doing(e, {"drain", "install"})'
    BY DEF Doing
  <2>4. SessionInv(e)'
    BY <1>2, <1>4, <2>1, <2>2, <2>5 DEF SessionInv, store, mapping
  <2> QED BY <2>1, <2>3, <2>4 DEF BanInv, store
<1>6. \A k \in Channel : ChannelInv(k)'
  BY DEF Inv, ChannelInv, SessionByChannel, store
<1>7. FreshInv'
  BY DEF Inv, FreshInv, store, inputs
<1> QED BY <1>1, <1>3, <1>5, <1>6, <1>7 DEF Inv

LEMMA CloseChannelKeeps ==
    ASSUME Inv, NEW c \in Channel, CloseChannel(c)
    PROVE  Inv'
<1> USE DEF CloseChannel
<1>1. TypeOK' /\ c \in Actor
  BY DEF Inv, TypeOK, HasPort, store, mapping, inputs, Actor
<1>2. /\ \A k \in Channel : IsActive(k)' => IsActive(k)
      /\ \A k \in Channel : chan[k] = "closed" => chan'[k] = "closed"
  BY DEF Inv, TypeOK, IsActive
<1>3. Live(sessionMap[task[c].device])' => Live(sessionMap[task[c].device])
         \/ task[c].device \notin Device
  BY <1>2 DEF Live, store, Inv, TypeOK, SessionId, ChannelOf
<1>4. TaskInv(c)'
  <2>1. TaskInv(c)
    BY <1>1 DEF Inv
  <2>2. task[c].at \in RegisterSteps => RegisterInv(c, task[c].device)'
    BY <1>3, <2>1 DEF TaskInv, RegisterInv, RegisterSteps, store, mapping, inputs
  <2>3. task[c].at \in UpdateSteps => UpdateInv(c, task[c].device)'
    BY <1>3, <2>1 DEF TaskInv, UpdateInv, UpdateSteps, store, mapping
  <2>4. task[c].at = "enter" => EnterInv(c, task[c].device)'
    BY <1>2, <2>1 DEF TaskInv, EnterInv, store
  <2>5. task[c].at \in {"remove", "stop", "offline", "release"} => RemoveInv(c, task[c].device)'
    BY <1>2, <2>1 DEF TaskInv, RemoveInv, store
  <2> QED BY <2>1, <2>2, <2>3, <2>4, <2>5 DEF TaskInv
<1> QED BY <1>1, <1>2, <1>4, QuietStep

LEMMA ObserveKeeps ==
    ASSUME Inv, NEW c \in Channel, Observe(c)
    PROVE  Inv'
<1> DEFINE s == SessionByChannel(c)
<1> USE DEF Observe
<1>1. TypeOK /\ c \in Actor /\ task[c].at = "idle" /\ chan[c] = "closed"
  BY DEF Inv, Actor, Idle
<1>2. CASE s = NoSession /\ chan' = [chan EXCEPT ![c] = "gone"] /\ UNCHANGED task
  <2> USE <1>2
  <2>1. TypeOK'
    BY <1>1 DEF TypeOK, HasPort, store, mapping, inputs, Actor
  <2>2. /\ \A k \in Channel : IsActive(k)' => IsActive(k)
        /\ \A k \in Channel \ {c} : chan'[k] = chan[k]
    BY <1>1 DEF TypeOK, IsActive
  <2>3. TaskInv(c)'
    BY <1>1 DEF TaskInv, RegisterSteps, UpdateSteps
  <2> QED BY <2>1, <2>2, <2>3, QuietStep
<1>3. CASE /\ s # NoSession /\ UNCHANGED chan
           /\ task' = [task EXCEPT ![c] = [Idle EXCEPT !.at = "enter", !.op = "disconnected",
                                              !.device = sess[s].device, !.sess = s]]
  <2> USE <1>3
  <2>1. /\ s \in SessionId /\ ChannelOf(s) = c
        /\ \E e \in Device : s = sessionMap[e]
    BY <1>1 DEF SessionByChannel, TypeOK
  <2>2. sess[s].device \in Device
    BY <2>1 DEF Inv, SessionInv
  <2>3. /\ task' \in [Actor -> Task] /\ task'[c].at = "enter"
        /\ task'[c].device = sess[s].device /\ task'[c].sess = s
        /\ \A b \in Actor \ {c} : task'[b] = task[b]
    <3> DEFINE t == [Idle EXCEPT !.at = "enter", !.op = "disconnected",
                                 !.device = sess[s].device, !.sess = s]
    <3>1. /\ t \in Task /\ t.at = "enter" /\ t.device = sess[s].device /\ t.sess = s
      BY <2>1, <2>2 DEF Task, Idle
    <3> HIDE DEF t
    <3>2. task' = [task EXCEPT ![c] = t]
      BY DEF t
    <3> QED BY <1>1, <3>1, <3>2 DEF TypeOK
  <2>4. TypeOK'
    BY <1>1, <2>3 DEF TypeOK, HasPort, store, mapping, inputs, Actor
  <2>5. TaskInv(c)'
    BY <1>1, <2>1, <2>2, <2>3 DEF TaskInv, RegisterSteps, UpdateSteps, EnterInv, store
  <2> QED BY <1>1, <2>3, <2>4, <2>5, QuietStep DEF IsActive
<1> QED BY <1>2, <1>3

-----------------------------------------------------------------------------
(* The theorems. *)

LEMMA InitEstablishes ==
    ASSUME Init
    PROVE  Inv
<1> USE DEF Init
<1>1. TypeOK
  <2>1. NoSessionYet \in Session
    BY DEF NoSessionYet, Session
  <2>2. Idle \in Task
    BY DEF Idle, Task
  <2>3. Actor = Channel \cup Admin
    BY DEF Actor
  <2>4. \A c \in Channel : ~HasPort(c)
    BY DEF HasPort, Idle, Actor
  <2> QED BY <2>1, <2>2, <2>4, BoundAssumption DEF TypeOK
<1>2. \A a \in Actor : task[a].at = "idle" /\ ~HasLock(a)
  BY DEF Idle, HasLock
<1>3. Exclusion
  BY <1>2 DEF Exclusion
<1>4. \A a \in Actor : TaskInv(a)
  BY <1>2 DEF TaskInv, RegisterSteps, UpdateSteps
<1>5. \A d \in Device : SessionInv(d) /\ BanInv(d)
  BY DEF SessionInv, BanInv, Live
<1>6. \A c \in Channel : ChannelInv(c)
  BY DEF ChannelInv
<1>7. FreshInv
  BY DEF FreshInv, NoSessionYet
<1> QED BY <1>1, <1>3, <1>4, <1>5, <1>6, <1>7 DEF Inv

\* A call in progress works on a device.
LEMMA AtWork ==
    ASSUME Inv, NEW a \in Actor, task[a].at # "idle"
    PROVE  task[a].device \in Device
BY DEF Inv, TaskInv

LEMMA RegisteringKeeps ==
    ASSUME Inv, NEW c \in Channel, Registering(c)
    PROVE  Inv'
<1>1. task[c].device \in Device
  BY AtWork DEF Registering, Actor, Allocate, Probe, RegisterBind, RegisterOnline, Verify, Undo,
     Retire, Drain, Install
<1> QED
  BY <1>1, AllocateKeeps, ProbeKeeps, RegisterBindKeeps, RegisterOnlineKeeps, VerifyKeeps,
     UndoKeeps, RetireKeeps, DrainKeeps, InstallKeeps DEF Registering

LEMMA DisconnectingKeeps ==
    ASSUME Inv, NEW a \in Actor, Disconnecting(a)
    PROVE  Inv'
<1>1. task[a].device \in Device
  BY AtWork DEF Disconnecting, Remove, Stop, Offline
<1> QED BY <1>1, RemoveKeeps, StopKeeps, OfflineKeeps DEF Disconnecting

LEMMA AdministeringKeeps ==
    ASSUME Inv, NEW a \in Admin, Administering(a)
    PROVE  Inv'
<1>1. a \in Actor
  BY DEF Actor
<1>2. task[a].device \in Device
  BY <1>1, AtWork DEF Administering, Release, UpdateBind, UpdateSave, UpdateMove, UpdateStopOld
<1> QED
  BY <1>1, <1>2, ReleaseKeeps, UpdateBindKeeps, UpdateSaveKeeps, UpdateMoveKeeps,
     UpdateStopOldKeeps DEF Administering

LEMMA EnteringKeeps ==
    ASSUME Inv, NEW c \in Channel, Enter(c)
    PROVE  Inv'
<1>1. task[c].device \in Device
  BY AtWork DEF Enter, Actor
<1> QED BY <1>1, EnterKeeps

LEMMA CallKeeps ==
    ASSUME Inv, NEW a \in Admin, NEW d \in Device,
           \/ Disconnect(a, d) \/ Ban(a, d) \/ Unban(a, d) \/ DeleteMapping(a, d)
           \/ \E p \in Port : Preset(a, d, p) \/ UpdatePort(a, d, p)
    PROVE  Inv'
<1>1. CASE Disconnect(a, d)
  BY <1>1, StartTaskEffect DEF Disconnect, Call
<1>2. CASE Ban(a, d)
  BY <1>2, StartTaskEffect DEF Ban, Call
<1>3. CASE DeleteMapping(a, d)
  BY <1>3, StartTaskEffect DEF DeleteMapping, Call
<1> QED BY <1>1, <1>2, <1>3, UnbanKeeps, PresetKeeps, UpdatePortKeeps

LEMMA NextKeeps ==
    ASSUME Inv, [Next]_vars
    PROVE  Inv'
<1>1. CASE Proceed
  <2>1. ASSUME NEW c \in Channel, Registering(c) \/ Disconnecting(c) \/ Observe(c) \/ Enter(c)
        PROVE  Inv'
    BY <2>1, RegisteringKeeps, DisconnectingKeeps, ObserveKeeps, EnteringKeeps DEF Actor
  <2>2. ASSUME NEW a \in Admin, Disconnecting(a) \/ Administering(a) PROVE Inv'
    BY <2>2, DisconnectingKeeps, AdministeringKeeps DEF Actor
  <2> QED BY <1>1, <2>1, <2>2 DEF Proceed
<1>2. ASSUME NEW c \in Channel, CloseChannel(c) \/ \E d \in Claims[c] : RegisterBegin(c, d)
      PROVE  Inv'
  BY <1>2, CloseChannelKeeps, RegisterBeginKeeps, ClaimsAssumption
<1>3. CASE UNCHANGED vars
  <2> USE <1>3 DEF vars, inputs, store, mapping
  <2>1. TypeOK' /\ Exclusion'
    BY DEF Inv, TypeOK, HasPort, Exclusion, HasLock
  <2>2. ASSUME NEW a \in Actor PROVE TaskInv(a)'
    BY DEF Inv, TaskInv, RegisterInv, UpdateInv, EnterInv, RemoveInv, Live, IsActive
  <2>3. ASSUME NEW d \in Device PROVE SessionInv(d)' /\ BanInv(d)'
    BY DEF Inv, SessionInv, BanInv, Live, IsActive, Doing
  <2>4. ASSUME NEW c \in Channel PROVE ChannelInv(c)'
    BY DEF Inv, ChannelInv, SessionByChannel
  <2>5. FreshInv'
    BY DEF Inv, FreshInv
  <2> QED BY <2>1, <2>2, <2>3, <2>4, <2>5 DEF Inv
<1> QED BY <1>1, <1>2, <1>3, CallKeeps DEF Next

\* What the service keeps true at every instant, whatever calls, channels and
\* administrators do: the inductive invariant.
THEOREM LifecycleInvariant == Spec => []Inv
<1>1. Init => Inv
  BY InitEstablishes
<1>2. Inv /\ [Next]_vars => Inv'
  BY NextKeeps
<1> QED BY <1>1, <1>2, PTL DEF Spec

\* The variables of the service keep their types in every behaviour.
THEOREM LifecycleTypeCorrect == Spec => []TypeOK
<1>1. Inv => TypeOK
  BY DEF Inv
<1> QED BY <1>1, LifecycleInvariant, PTL

\* The port of the session of a live connection listens, for that device, also
\* while updatePort moves it.
THEOREM SessionListens == Spec => []ActiveSessionListens
<1>1. Inv => ActiveSessionListens
  BY DEF Inv, SessionInv, ActiveSessionListens, SessionActive, Live
<1> QED BY <1>1, LifecycleInvariant, PTL

\* The maps of SessionStore agree in both directions.
THEOREM StoreConsistent == Spec => []SessionReachable
<1>1. Inv => SessionReachable
  BY DEF Inv, SessionInv, ChannelInv, SessionReachable
<1> QED BY <1>1, LifecycleInvariant, PTL

\* Whoever gets the stripe of a banned device finds it without a session.
THEOREM BanHolds == Spec => []BannedStaysOut
<1>1. Inv => BannedStaysOut
  <2> SUFFICES ASSUME Inv, NEW d \in Device, d \in banned, LockFree(d)
               PROVE  sessionMap[d] = NoSession
    BY DEF BannedStaysOut, Inv, TypeOK
  <2>1. ~Doing(d, {"remove"})
    BY DEF Doing, LockFree, HasLock
  <2> QED BY <2>1 DEF Inv, BanInv
<1> QED BY <1>1, LifecycleInvariant, PTL

\* Between calls, the port a device was told is the one that is reserved for it
\* and that its session has.
THEOREM AckedPortIsReserved == Spec => []ToldItsPort
<1>1. Inv => ToldItsPort
  <2> SUFFICES ASSUME Inv, NEW d \in Device, LockFree(d), SessionActive(sessionMap[d])
               PROVE  /\ told[ChannelOf(sessionMap[d])] = reserved[d]
                      /\ sess[sessionMap[d]].port = reserved[d]
    BY DEF ToldItsPort
  <2>1. ~Doing(d, {"move", "stopOld"})
    BY DEF Doing, LockFree, HasLock
  <2>2. Live(sessionMap[d]) /\ sessionMap[d] # NoSession
    BY DEF SessionActive, Live
  <2> QED BY <2>1, <2>2 DEF Inv, SessionInv, Doing
<1> QED BY <1>1, LifecycleInvariant, PTL

\* Only Install and Remove change the map of sessions; Install puts a session
\* there, and a channel that removes one has closed before, so that the session
\* it removes, its own, is no longer live.
THEOREM LiveSessionStays == Spec => LiveSessionKept
<1> DEFINE Kept == \A d \in Device :
          SessionActive(sessionMap[d]) /\ sessionMap'[d] = NoSession
              => \E a \in Admin : task[a].at = "remove" /\ task[a].device = d
<1>1. ASSUME Inv, [Next]_vars PROVE [Kept]_vars
  <2> SUFFICES ASSUME NEW d \in Device, SessionActive(sessionMap[d]), sessionMap'[d] = NoSession
               PROVE  \E a \in Admin : task[a].at = "remove" /\ task[a].device = d
    OBVIOUS
  <2>1. sessionMap[d] # NoSession /\ IsActive(ChannelOf(sessionMap[d]))
    BY DEF SessionActive
  <2>2. ASSUME NEW c \in Channel, Install(c) PROVE FALSE
    <3>1. task[c].device \in Device /\ RegisterInv(c, task[c].device)
      BY <1>1, <2>2 DEF Install, Inv, TaskInv, RegisterSteps, Actor
    <3>2. <<c, registers[c]>> # NoSession
      BY <3>1, NoSessionAssumption DEF RegisterInv, SessionId
    <3> QED BY <1>1, <2>1, <2>2, <3>1, <3>2 DEF Install, Inv, TypeOK
  <2>3. ASSUME NEW a \in Actor, Remove(a) PROVE a \in Admin /\ task[a].at = "remove" /\ task[a].device = d
    <3> DEFINE e == task[a].device
    <3>1. e \in Device /\ RemoveInv(a, e) /\ task[a].at = "remove"
      BY <1>1, <2>3 DEF Remove, Inv, TaskInv
    <3>2. e = d
      BY <1>1, <2>1, <2>3, <3>1 DEF Remove, Inv, SessionInv, TypeOK, store
    <3>3. a \notin Channel
      BY <2>1, <3>1, <3>2 DEF RemoveInv, IsActive
    <3> QED BY <3>1, <3>2, <3>3 DEF Actor
  <2>4. sessionMap' # sessionMap
    BY <2>1
  <2>5. CASE Proceed
    <3>1. ASSUME NEW c \in Channel, Registering(c) PROVE Install(c)
      BY <2>4, <3>1 DEF Registering, Allocate, Probe, RegisterBind, RegisterOnline, Verify,
         Undo, Retire, Drain, store
    <3>2. ASSUME NEW a \in Actor, Disconnecting(a) PROVE Remove(a)
      BY <2>4, <3>2 DEF Disconnecting, Stop, Offline, store
    <3>3. ASSUME NEW c \in Channel, Observe(c) \/ Enter(c) PROVE FALSE
      BY <2>4, <3>3 DEF Observe, Enter, store
    <3>4. ASSUME NEW a \in Admin, Administering(a) PROVE FALSE
      BY <2>4, <3>4 DEF Administering, Release, UpdateBind, UpdateSave, UpdateMove,
         UpdateStopOld, store
    <3> QED BY <2>2, <2>3, <2>5, <3>1, <3>2, <3>3, <3>4 DEF Proceed, Actor
  <2> QED
    BY <1>1, <2>4, <2>5 DEF Next, vars, store, CloseChannel, RegisterBegin, Disconnect, Ban,
       Unban, DeleteMapping, Preset, UpdatePort
<1>2. [][Kept]_vars => LiveSessionKept
  BY PTL DEF LiveSessionKept
<1> QED BY <1>1, <1>2, LifecycleInvariant, PTL DEF Spec

\* Interleaved calls change the reservations as the abstract specification
\* allows: a device gets or moves to a port nobody holds, or gives its port up.
THEOREM LifecycleImplementsReservations == Spec => Implements
<1>1. Init => R!Init
  BY DEF Init, R!Init
<1>2. ASSUME Inv, [Next]_vars PROVE [R!Next]_reserved
  <2>1. ASSUME NEW d \in Device, NEW p \in Port, Unreserved(p),
               reserved' = [reserved EXCEPT ![d] = p]
        PROVE  R!Next
    BY <2>1 DEF R!Next, R!Assign, R!Held, Unreserved
  <2>2. ASSUME NEW d \in Device, reserved' = [reserved EXCEPT ![d] = NoPort]
        PROVE  [R!Next]_reserved
    <3>1. CASE reserved[d] = NoPort
      BY <1>2, <2>2, <3>1 DEF Inv, TypeOK
    <3>2. CASE reserved[d] # NoPort
      BY <2>2, <3>2 DEF R!Next, R!Release
    <3> QED BY <3>1, <3>2
  <2>3. ASSUME NEW a \in Actor, task[a].at # "idle" PROVE task[a].device \in Device
    BY <1>2, <2>3, AtWork
  <2>4. ASSUME NEW c \in Channel, Registering(c) PROVE [R!Next]_reserved
    <3>1. CASE Allocate(c)
      BY <2>1, <2>3, <3>1 DEF Allocate, Actor
    <3> QED
      BY <2>4, <3>1 DEF Registering, Probe, RegisterBind, RegisterOnline, Verify, Undo, Retire,
         Drain, Install, mapping
  <2>5. ASSUME NEW a \in Admin, Administering(a) PROVE [R!Next]_reserved
    <3>1. CASE Release(a)
      BY <2>2, <2>3, <3>1 DEF Release, Actor, mapping
    <3>2. CASE UpdateSave(a)
      <4>1. CASE UNCHANGED reserved
        BY <4>1
      <4>2. CASE Unreserved(task[a].port) /\ reserved' = [reserved EXCEPT ![task[a].device] = task[a].port]
        <5>1. a \in Actor /\ task[a].device \in Device /\ task[a].at = "save"
          BY <2>3, <3>2 DEF UpdateSave, Actor
        <5>2. task[a].port \in Port
          BY <1>2, <5>1 DEF Inv, TaskInv, UpdateInv, UpdateSteps
        <5> QED BY <2>1, <4>2, <5>1, <5>2
      <4> QED BY <3>2, <4>1, <4>2 DEF UpdateSave
    <3> QED
      BY <2>5, <3>1, <3>2 DEF Administering, UpdateBind, UpdateMove, UpdateStopOld, mapping
  <2>6. ASSUME NEW a \in Admin, NEW d \in Device, NEW p \in Port, Preset(a, d, p)
        PROVE  [R!Next]_reserved
    BY <2>1, <2>6 DEF Preset
  <2>7. ASSUME NEW a \in Actor, Disconnecting(a) PROVE UNCHANGED reserved
    BY <2>7 DEF Disconnecting, Remove, Stop, Offline, mapping
  <2>8. ASSUME NEW c \in Channel, Observe(c) \/ Enter(c) \/ CloseChannel(c) PROVE UNCHANGED reserved
    BY <2>8 DEF Observe, Enter, CloseChannel, mapping
  <2>9. CASE Proceed
    BY <2>4, <2>5, <2>7, <2>8, <2>9 DEF Proceed, Actor
  <2> QED
    BY <1>2, <2>6, <2>8, <2>9 DEF Next, vars, mapping, RegisterBegin, Disconnect, Ban, Unban,
       DeleteMapping, UpdatePort
<1> QED BY <1>1, <1>2, LifecycleInvariant, PTL DEF Spec, Implements, R!Spec

-----------------------------------------------------------------------------
(* Devices without a session (OfflineDevices): unless a registration was   *)
(* misled, a device listens at the port it is reserved or, in the middle   *)
(* of an update, at the other one, and a call that fails half way takes    *)
(* back what it has started.                                               *)

\* A call that holds the stripe of its device: a port that listened before the
\* registration had a session already, an update that starts a listener is one
\* of a session, and the port that is to be stopped is the reserved one.
HoldsInv(a) ==
    LET d == task[a].device IN
    /\ task[a].at \in {"bind", "online", "verify"} /\ task[a].flag /\ d \notin misled
          => sessionMap[d] # NoSession
    /\ task[a].at = "bindNew" => task[a].flag
    /\ task[a].at = "stop" => /\ sess[task[a].sess].device = d
                              /\ sess[task[a].sess].port = reserved[d]

Listening == {"online", "verify", "retire", "drain", "install", "stop"}
Shown == {"verify", "undo", "retire", "drain", "install", "stop", "offline"}

\* The second port of a device whose port is being changed: the new one until
\* the reservation moves, then the old one until it is stopped.
Moving(a, d, p) ==
    /\ task[a].device = d
    /\ \/ task[a].at = "save" /\ task[a].flag /\ task[a].port = p
       \/ task[a].at \in {"move", "stopOld"} /\ task[a].old = p

\* A device listens at its reserved port, and does so or is shown online, only
\* if it has a session, or while a call has one in the making or in the
\* undoing; it listens at another port only while an update lasts.
SilentInv(d) ==
    /\ \A p \in Port : listener[p] = d =>
          \/ p = reserved[d] /\ (sessionMap[d] # NoSession \/ Doing(d, Listening))
          \/ \E a \in Actor : Moving(a, d, p)
    /\ online[d] => sessionMap[d] # NoSession \/ Doing(d, Shown)

Silence ==
    /\ \A a \in Actor : HoldsInv(a)
    /\ \A d \in Device \ misled : SilentInv(d)

\* What SilentInv says of the device of the only call that works on it.
Own(a, d) ==
    LET doing(steps) == task[a].at \in steps /\ task[a].device = d IN
    d \notin misled =>
       /\ \A p \in Port : listener[p] = d =>
             \/ p = reserved[d] /\ (sessionMap[d] # NoSession \/ doing(Listening))
             \/ Moving(a, d, p)
       /\ online[d] => sessionMap[d] # NoSession \/ doing(Shown)

\* A step of a that leaves the devices other than d as silent as they were.
Elsewhere(a, d) ==
    /\ \/ HasLock(a) /\ task[a].device = d
       \/ ~HasLock(a) /\ LockFree(d)
    /\ \A b \in Actor \ {a} : task'[b] = task[b]
    /\ \A e \in Device \ {d} :
          /\ reserved'[e] = reserved[e] /\ online'[e] = online[e]
          /\ sessionMap'[e] = sessionMap[e]
          /\ \A p \in Port : listener'[p] = e => listener[p] = e
          /\ \A t \in SessionId : sess[t].device = e =>
                sess'[t].device = e /\ sess'[t].port = sess[t].port

\* Nobody else works on the device of a call that holds its stripe.
LEMMA OwnBefore ==
    ASSUME Inv, Silence, NEW a \in Actor, NEW d \in Device,
           (HasLock(a) /\ task[a].device = d) \/ LockFree(d)
    PROVE  Own(a, d)
<1>1. \A b \in Actor : HasLock(b) /\ task[b].device = d => b = a
  BY DEF Inv, Exclusion, LockFree
<1>2. \A steps \in {Listening, Shown} :
         Doing(d, steps) => task[a].at \in steps /\ task[a].device = d
  BY <1>1 DEF Doing, HasLock, Listening, Shown
<1>3. \A p \in Port : \A b \in Actor : Moving(b, d, p) => Moving(a, d, p)
  BY <1>1 DEF Moving, HasLock
<1> QED BY <1>2, <1>3 DEF Silence, SilentInv, Own

\* What is left to show of a step of one call.
LEMMA SilentStep ==
    ASSUME Inv, Inv', Silence, misled \subseteq misled', NEW a \in Actor, NEW d \in Device,
           Elsewhere(a, d), HoldsInv(a)', Own(a, d)'
    PROVE  Silence'
<1> USE DEF Elsewhere
<1>1. ASSUME NEW b \in Actor \ {a} PROVE HoldsInv(b)'
  <2>1. task'[b] = task[b] /\ HoldsInv(b) /\ TaskInv(b)
    BY DEF Silence, Inv
  <2>2. HasLock(b) => task[b].device # d /\ task[b].device \in Device
    BY <2>1 DEF Inv, Exclusion, LockFree, TaskInv, HasLock
  <2>3. task[b].at = "stop" => task[b].sess \in SessionId
    BY <2>1 DEF TaskInv, RemoveInv
  <2>4. CASE HasLock(b)
    BY <2>1, <2>2, <2>3, <2>4 DEF HoldsInv
  <2>5. CASE ~HasLock(b)
    BY <2>1, <2>5 DEF HoldsInv, HasLock
  <2> QED BY <2>4, <2>5
<1>2. ASSUME NEW e \in Device \ {d}, e \notin misled' PROVE SilentInv(e)'
  <2>1. \A steps \in {Listening, Shown} : Doing(e, steps) => Doing(e, steps)'
    BY DEF Doing, HasLock, Listening, Shown
  <2>2. \A p \in Port : \A b \in Actor : Moving(b, e, p) => Moving(b, e, p)'
    BY DEF Moving, HasLock
  <2>3. SilentInv(e)
    BY <1>2 DEF Silence
  <2> QED BY <2>1, <2>2, <2>3 DEF SilentInv
<1>3. d \notin misled' => SilentInv(d)'
  BY DEF Own, SilentInv, Doing
<1> QED BY <1>1, <1>2, <1>3 DEF Silence

\* Steps that begin a call, end one that has not begun to work, or are of the
\* channels.
LEMMA IdleStep ==
    ASSUME Inv, Silence, misled \subseteq misled', UNCHANGED <<sessionMap, listener, mapping>>,
           \A t \in SessionId : sess'[t].device = sess[t].device /\ sess'[t].port = sess[t].port,
           \A b \in Actor : \/ task'[b] = task[b]
                            \/ /\ task[b].at \in {"idle", "enter"}
                               /\ task'[b].at \in {"idle", "enter", "allocate", "remove"}
    PROVE  Silence'
<1> USE DEF mapping
<1>1. ASSUME NEW b \in Actor PROVE HoldsInv(b)'
  <2>1. HoldsInv(b) /\ TaskInv(b)
    BY DEF Silence, Inv
  <2>2. CASE task'[b] = task[b]
    <3>1. task[b].at = "stop" => task[b].sess \in SessionId
      BY <2>1 DEF TaskInv, RemoveInv
    <3> QED BY <2>1, <2>2, <3>1 DEF HoldsInv
  <2>3. CASE task'[b].at \in {"idle", "enter", "allocate", "remove"}
    BY <2>3 DEF HoldsInv
  <2> QED BY <2>2, <2>3
<1>2. ASSUME NEW e \in Device, e \notin misled' PROVE SilentInv(e)'
  <2>1. \A steps \in {Listening, Shown} : Doing(e, steps) => Doing(e, steps)'
    BY DEF Doing, Listening, Shown
  <2>2. \A p \in Port : \A b \in Actor : Moving(b, e, p) => Moving(b, e, p)'
    BY DEF Moving
  <2>3. SilentInv(e)
    BY <1>2 DEF Silence
  <2> QED BY <2>1, <2>2, <2>3 DEF SilentInv
<1> QED BY <1>1, <1>2 DEF Silence

\* register: what the call holds, and what it takes back.
LEMMA AllocateSilent ==
    ASSUME Inv, Inv', Silence, misled \subseteq misled', NEW c \in Channel, NEW d \in Device,
           task[c].device = d, Allocate(c)
    PROVE  Silence'
<1> USE DEF Allocate
<1>1. /\ c \in Actor /\ HasLock(c) /\ TypeOK
      /\ task[c].at \notin Listening \cup Shown
  BY DEF Inv, Actor, HasLock, Listening, Shown
<1>2. Own(c, d)
  BY <1>1, OwnBefore
<1>3. /\ \A b \in Actor \ {c} : task'[b] = task[b]
      /\ task'[c].at \in {"idle", "probe"}
  BY <1>1, FinishEffect DEF Reject, TypeOK, Task
<1>4. HoldsInv(c)'
  BY <1>3 DEF HoldsInv
<1>5. CASE UNCHANGED reserved
  <2>1. Elsewhere(c, d)
    BY <1>1, <1>3, <1>5 DEF Elsewhere, store
  <2>2. Own(c, d)'
    BY <1>1, <1>2, <1>5 DEF Own, Moving, store
  <2> QED BY <1>1, <1>4, <2>1, <2>2, SilentStep
<1>6. CASE /\ reserved[d] = NoPort
           /\ \E p \in Port : Unreserved(p) /\ reserved' = [reserved EXCEPT ![d] = p]
  <2>1. Elsewhere(c, d)
    BY <1>1, <1>3, <1>6 DEF Elsewhere, store, TypeOK
  <2>2. Own(c, d)'
    BY <1>1, <1>2, <1>6, PortAssumption DEF Own, Moving, store
  <2> QED BY <1>1, <1>4, <2>1, <2>2, SilentStep
<1> QED BY <1>5, <1>6

\* Whoever listens at the reserved port is the device itself, which then has a
\* session, or the registration is misled.
LEMMA ProbeSilent ==
    ASSUME Inv, Inv', Silence, misled \subseteq misled', NEW c \in Channel, NEW d \in Device,
           task[c].device = d, Probe(c), Misleading(c) => d \in misled'
    PROVE  Silence'
<1> USE DEF Probe
<1>1. /\ c \in Actor /\ HasLock(c) /\ TypeOK /\ TaskInv(c)
      /\ task[c].at \notin Listening \cup Shown
  BY DEF Inv, Actor, HasLock, Listening, Shown
<1>2. Own(c, d) /\ task[c].port = reserved[d] /\ task[c].port \in Port
  BY <1>1, OwnBefore DEF TaskInv, RegisterInv, RegisterSteps, TypeOK, HasPort
<1>3. /\ \A b \in Actor \ {c} : task'[b] = task[b]
      /\ task'[c].at = "bind" /\ task'[c].flag = (listener[task[c].port] # NoDevice)
  BY <1>1 DEF TypeOK, Task
<1>4. task'[c].flag /\ d \notin misled' => sessionMap[d] # NoSession
  <2> SUFFICES ASSUME listener[reserved[d]] # NoDevice, d \notin misled'
               PROVE  sessionMap[d] # NoSession
    BY <1>2, <1>3
  <2>1. listener[reserved[d]] = d /\ reserved[d] \in Port
    BY <1>2 DEF Misleading
  <2> QED BY <1>1, <1>2, <2>1 DEF Own, Moving
<1>5. Elsewhere(c, d) /\ Own(c, d)'
  BY <1>1, <1>2, <1>3 DEF Elsewhere, Own, Moving, store, mapping
<1>6. task'[c].device = d
  BY <1>1 DEF TypeOK, Task
<1>7. HoldsInv(c)'
  BY <1>3, <1>4, <1>6 DEF HoldsInv, store
<1> QED BY <1>1, <1>5, <1>7, SilentStep

LEMMA RegisterBindSilent ==
    ASSUME Inv, Inv', Silence, misled \subseteq misled', NEW c \in Channel, NEW d \in Device,
           task[c].device = d, RegisterBind(c)
    PROVE  Silence'
<1> USE DEF RegisterBind
<1>1. /\ c \in Actor /\ HasLock(c) /\ TypeOK /\ TaskInv(c) /\ HoldsInv(c)
      /\ task[c].at \notin Listening \cup Shown
  BY DEF Inv, Actor, HasLock, Listening, Shown, Silence
<1>2. Own(c, d) /\ task[c].port = reserved[d] /\ task[c].port \in Port
  BY <1>1, OwnBefore DEF TaskInv, RegisterInv, RegisterSteps, TypeOK, HasPort
<1>3. CASE GoTo(c, "online") /\ (Bind(task[c].port, d) \/ UNCHANGED listener)
  <2>1. /\ task'[c].at = "online" /\ task'[c].device = d /\ task'[c].flag = task[c].flag
        /\ \A b \in Actor \ {c} : task'[b] = task[b]
    BY <1>1, <1>3, GoToEffect DEF Step
  <2>2. \A p \in Port : \A e \in Device : listener'[p] = e =>
           listener[p] = e \/ (e = d /\ p = reserved[d])
    BY <1>1, <1>2, <1>3 DEF Bind, TypeOK
  <2>3. Elsewhere(c, d)
    BY <1>1, <2>1, <2>2 DEF Elsewhere, store, mapping
  <2>4. Own(c, d)'
    BY <1>1, <1>2, <2>1, <2>2 DEF Own, Moving, Listening, store, mapping
  <2>5. HoldsInv(c)'
    BY <1>1, <2>1 DEF HoldsInv, store
  <2> QED BY <1>1, <2>3, <2>4, <2>5, SilentStep
<1>4. CASE Reject(c) /\ UNCHANGED listener
  <2>1. task'[c].at = "idle" /\ \A b \in Actor \ {c} : task'[b] = task[b]
    BY <1>1, <1>4, FinishEffect DEF Reject
  <2>2. Elsewhere(c, d) /\ Own(c, d)'
    BY <1>1, <1>2, <1>4, <2>1 DEF Elsewhere, Own, Moving, store, mapping
  <2> QED BY <1>1, <2>1, <2>2, SilentStep DEF HoldsInv
<1> QED BY <1>3, <1>4

\* A listener that was started for the registration stops with it.
LEMMA RegisterOnlineSilent ==
    ASSUME Inv, Inv', Silence, misled \subseteq misled', NEW c \in Channel, NEW d \in Device,
           task[c].device = d, RegisterOnline(c)
    PROVE  Silence'
<1> USE DEF RegisterOnline
<1>1. /\ c \in Actor /\ HasLock(c) /\ TypeOK /\ TaskInv(c) /\ HoldsInv(c)
      /\ task[c].at \notin Shown
  BY DEF Inv, Actor, HasLock, Shown, Silence
<1>2. Own(c, d) /\ task[c].port = reserved[d] /\ task[c].port \in Port
  BY <1>1, OwnBefore DEF TaskInv, RegisterInv, RegisterSteps, TypeOK, HasPort
<1>3. CASE online' = [online EXCEPT ![d] = TRUE] /\ GoTo(c, "verify") /\ UNCHANGED listener
  <2>1. /\ task'[c].at = "verify" /\ task'[c].device = d /\ task'[c].flag = task[c].flag
        /\ \A b \in Actor \ {c} : task'[b] = task[b]
    BY <1>1, <1>3, GoToEffect DEF Step
  <2>2. Elsewhere(c, d)
    BY <1>1, <1>3, <2>1 DEF Elsewhere, store, TypeOK
  <2>3. Own(c, d)'
    BY <1>2, <1>3, <2>1 DEF Own, Moving, Listening, Shown, store
  <2>4. HoldsInv(c)'
    BY <1>1, <2>1 DEF HoldsInv, store
  <2> QED BY <1>1, <2>2, <2>3, <2>4, SilentStep
<1>4. CASE Reject(c) /\ (IF task[c].flag THEN UNCHANGED listener ELSE StopPort(task[c].port, d))
            /\ UNCHANGED online
  <2>1. task'[c].at = "idle" /\ \A b \in Actor \ {c} : task'[b] = task[b]
    BY <1>1, <1>4, FinishEffect DEF Reject
  <2>2. \A p \in Port : \A e \in Device : listener'[p] = e =>
           listener[p] = e /\ (e = d => p # reserved[d] \/ task[c].flag)
    BY <1>1, <1>2, <1>4, StopPortEffect
  <2>3. task[c].flag /\ d \notin misled => sessionMap[d] # NoSession
    BY <1>1 DEF HoldsInv
  <2>4. Elsewhere(c, d)
    BY <1>1, <1>4, <2>1, <2>2 DEF Elsewhere, store
  <2>5. Own(c, d)'
    BY <1>1, <1>2, <1>4, <2>2, <2>3 DEF Own, Moving, store
  <2> QED BY <1>1, <2>1, <2>4, <2>5, SilentStep DEF HoldsInv
<1> QED BY <1>3, <1>4

LEMMA VerifySilent ==
    ASSUME Inv, Inv', Silence, misled \subseteq misled', NEW c \in Channel, NEW d \in Device,
           task[c].device = d, Verify(c)
    PROVE  Silence'
<1> USE DEF Verify
<1>1. /\ c \in Actor /\ HasLock(c) /\ TypeOK /\ TaskInv(c) /\ HoldsInv(c)
  BY DEF Inv, Actor, HasLock, Silence
<1>2. Own(c, d) /\ task[c].port = reserved[d] /\ task[c].port \in Port
  BY <1>1, OwnBefore DEF TaskInv, RegisterInv, RegisterSteps, TypeOK, HasPort
<1>3. CASE GoTo(c, "retire") /\ UNCHANGED listener
  <2>1. /\ task'[c].at = "retire" /\ task'[c].device = d
        /\ \A b \in Actor \ {c} : task'[b] = task[b]
    BY <1>1, <1>3, GoToEffect DEF Step
  <2>2. Elsewhere(c, d) /\ Own(c, d)'
    BY <1>1, <1>2, <1>3, <2>1 DEF Elsewhere, Own, Moving, Listening, Shown, store, mapping
  <2> QED BY <1>1, <2>1, <2>2, SilentStep DEF HoldsInv
<1>4. CASE task[c].flag /\ Reject(c) /\ UNCHANGED listener
  <2>1. task'[c].at = "idle" /\ \A b \in Actor \ {c} : task'[b] = task[b]
    BY <1>1, <1>4, FinishEffect DEF Reject
  <2>2. d \notin misled => sessionMap[d] # NoSession
    BY <1>1, <1>4 DEF HoldsInv
  <2>3. Elsewhere(c, d) /\ Own(c, d)'
    BY <1>1, <1>2, <1>4, <2>1, <2>2 DEF Elsewhere, Own, Moving, store, mapping
  <2> QED BY <1>1, <2>1, <2>3, SilentStep DEF HoldsInv
<1>5. CASE StopPort(task[c].port, d) /\ GoTo(c, "undo")
  <2>1. /\ task'[c].at = "undo" /\ task'[c].device = d
        /\ \A b \in Actor \ {c} : task'[b] = task[b]
    BY <1>1, <1>5, GoToEffect DEF Step
  <2>2. \A p \in Port : \A e \in Device : listener'[p] = e =>
           listener[p] = e /\ (e = d => p # reserved[d])
    BY <1>1, <1>2, <1>5, StopPortEffect
  <2>3. Elsewhere(c, d)
    BY <1>1, <2>1, <2>2 DEF Elsewhere, store, mapping
  <2>4. Own(c, d)'
    BY <1>2, <2>1, <2>2 DEF Own, Moving, Shown, store, mapping
  <2> QED BY <1>1, <2>1, <2>3, <2>4, SilentStep DEF HoldsInv
<1> QED BY <1>3, <1>4, <1>5

LEMMA UndoSilent ==
    ASSUME Inv, Inv', Silence, misled \subseteq misled', NEW c \in Channel, NEW d \in Device,
           task[c].device = d, Undo(c)
    PROVE  Silence'
<1> USE DEF Undo
<1>1. /\ c \in Actor /\ HasLock(c) /\ TypeOK /\ task[c].at \notin Listening
  BY DEF Inv, Actor, HasLock, Listening
<1>2. Own(c, d)
  BY <1>1, OwnBefore
<1>3. task'[c].at = "idle" /\ \A b \in Actor \ {c} : task'[b] = task[b]
  BY <1>1, FinishEffect DEF Reject
<1>4. Elsewhere(c, d) /\ Own(c, d)'
  BY <1>1, <1>2, <1>3 DEF Elsewhere, Own, Moving, store, TypeOK
<1> QED BY <1>1, <1>3, <1>4, SilentStep DEF HoldsInv

LEMMA ReplaceSilent ==
    ASSUME Inv, Inv', Silence, misled \subseteq misled', NEW c \in Channel, NEW d \in Device,
           task[c].device = d, Retire(c) \/ Drain(c)
    PROVE  Silence'
<1>1. /\ c \in Actor /\ HasLock(c) /\ TypeOK
  BY DEF Inv, Actor, HasLock, Retire, Drain
<1>2. Own(c, d)
  BY <1>1, OwnBefore
<1>3. PICK x \in {"drain", "install"} : GoTo(c, x)
  BY DEF Retire, Drain
<1>4. /\ task'[c].at \in {"drain", "install"} /\ task'[c].device = d
      /\ \A b \in Actor \ {c} : task'[b] = task[b]
  BY <1>1, <1>3, GoToEffect DEF Step
<1>5. \A t \in SessionId : sess'[t].device = sess[t].device /\ sess'[t].port = sess[t].port
  BY <1>1 DEF Retire, Drain, store, TypeOK, Session
<1>6. Elsewhere(c, d) /\ Own(c, d)'
  BY <1>1, <1>2, <1>4, <1>5 DEF Retire, Drain, Elsewhere, Own, Moving, Listening, Shown, store, mapping
<1> QED BY <1>1, <1>4, <1>6, SilentStep DEF HoldsInv

LEMMA InstallSilent ==
    ASSUME Inv, Inv', Silence, misled \subseteq misled', NEW c \in Channel, NEW d \in Device,
           task[c].device = d, Install(c)
    PROVE  Silence'
<1> DEFINE s == <<c, registers[c]>>
<1>1. /\ c \in Actor /\ HasLock(c) /\ TypeOK /\ RegisterInv(c, d) /\ task[c].at = "install"
  BY DEF Inv, Actor, HasLock, TaskInv, RegisterSteps, Install
<1>2. Own(c, d)
  BY <1>1, OwnBefore
<1>3. s \in SessionId /\ s # NoSession /\ sess[s].device = NoDevice
  BY <1>1, NoSessionAssumption DEF RegisterInv, SessionId
<1>4. task'[c].at = "idle" /\ \A b \in Actor \ {c} : task'[b] = task[b]
  BY <1>1, FinishEffect DEF Install
<1>5. sessionMap' = [sessionMap EXCEPT ![d] = s] /\ UNCHANGED <<listener, mapping>>
  BY DEF Install
<1>6. \A t \in SessionId : t # s => sess'[t].device = sess[t].device /\ sess'[t].port = sess[t].port
  <2>1. \A t \in SessionId : t # s => sess'[t] \in {sess[t], [sess[t] EXCEPT !.status = "OFFLINE"]}
    BY DEF Install
  <2> QED BY <1>1, <2>1 DEF TypeOK, Session
<1>7. Elsewhere(c, d)
  BY <1>1, <1>3, <1>4, <1>5, <1>6, NoneAssumption DEF Elsewhere, mapping, TypeOK
<1>8. Own(c, d)'
  BY <1>1, <1>2, <1>3, <1>5 DEF Own, Moving, mapping, TypeOK
<1> QED BY <1>1, <1>4, <1>7, <1>8, SilentStep DEF HoldsInv

\* Whoever takes the session away stops its port before it lets go.
LEMMA RemoveSilent ==
    ASSUME Inv, Inv', Silence, misled \subseteq misled', NEW a \in Actor, NEW d \in Device,
           task[a].device = d, Remove(a)
    PROVE  Silence'
<1> DEFINE s == sessionMap[d]
<1>1. /\ HasLock(a) /\ TypeOK /\ SessionInv(d) /\ task[a].at = "remove"
      /\ task[a].at \notin Listening \cup Shown
  BY DEF Inv, HasLock, Remove, Listening, Shown
<1>2. Own(a, d)
  BY <1>1, OwnBefore
<1>3. CASE s = NoSession /\ AfterDisconnect(a) /\ UNCHANGED store
  <2>1. /\ task'[a].at \in {"idle", "release"} /\ \A b \in Actor \ {a} : task'[b] = task[b]
    BY <1>1, <1>3, AfterDisconnectEffect
  <2>2. Elsewhere(a, d) /\ Own(a, d)'
    BY <1>1, <1>2, <1>3, <2>1 DEF Remove, Elsewhere, Own, Moving, store, mapping
  <2> QED BY <2>1, <2>2, SilentStep DEF HoldsInv
<1>4. CASE s # NoSession
  <2>1. /\ s \in SessionId /\ channelToDevice[ChannelOf(s)] = d
        /\ sess[s].device = d /\ sess[s].port = reserved[d]
    BY <1>1, <1>4, Alone DEF SessionInv, TypeOK, HasLock, Remove
  <2>2. task' = [task EXCEPT ![a] = [task[a] EXCEPT !.at = "stop", !.sess = s]]
    BY <1>4 DEF Remove
  <2>3. /\ task'[a].at = "stop" /\ task'[a].device = d /\ task'[a].sess = s
        /\ \A b \in Actor \ {a} : task'[b] = task[b]
    BY <1>1, <2>2 DEF TypeOK, Task
  <2>4. /\ \A e \in Device \ {d} : sessionMap'[e] = sessionMap[e]
        /\ \A t \in SessionId : sess'[t].device = sess[t].device /\ sess'[t].port = sess[t].port
    <3>1. \/ UNCHANGED <<sessionMap, sess>>
          \/ /\ sessionMap' = [sessionMap EXCEPT ![d] = NoSession]
             /\ sess' = [sess EXCEPT ![SessionByChannel(ChannelOf(s))].status = "OFFLINE"]
      BY <1>4, <2>1 DEF Remove
    <3>2. \A t \in SessionId : sess[t] \in Session
      BY <1>1 DEF TypeOK
    <3> QED BY <1>1, <3>1, <3>2 DEF TypeOK, Session
  <2>5. UNCHANGED <<listener, mapping>>
    BY DEF Remove
  <2>6. Elsewhere(a, d)
    BY <1>1, <2>3, <2>4, <2>5 DEF Elsewhere, mapping
  <2>7. Own(a, d)'
    BY <1>1, <1>2, <2>3, <2>5 DEF Own, Moving, Listening, Shown, mapping
  <2>8. HoldsInv(a)'
    BY <2>1, <2>3, <2>4, <2>5 DEF HoldsInv, mapping
  <2> QED BY <2>6, <2>7, <2>8, SilentStep
<1> QED BY <1>3, <1>4 DEF Remove

LEMMA StopSilent ==
    ASSUME Inv, Inv', Silence, misled \subseteq misled', NEW a \in Actor, NEW d \in Device,
           task[a].device = d, Stop(a)
    PROVE  Silence'
<1> USE DEF Stop
<1>1. HasLock(a) /\ TypeOK /\ HoldsInv(a)
  BY DEF Inv, HasLock, Silence
<1>2. Own(a, d) /\ sess[task[a].sess].port = reserved[d]
  BY <1>1, OwnBefore DEF HoldsInv
<1>3. /\ task'[a].at = "offline" /\ task'[a].device = d
      /\ \A b \in Actor \ {a} : task'[b] = task[b]
  BY <1>1, GoToEffect DEF Step
<1>4. \A p \in Port : \A e \in Device : listener'[p] = e =>
         listener[p] = e /\ (e = d => p # reserved[d])
  BY <1>1, <1>2, StopPortEffect
<1>5. Elsewhere(a, d)
  BY <1>1, <1>3, <1>4 DEF Elsewhere, store, mapping
<1>6. Own(a, d)'
  BY <1>2, <1>3, <1>4 DEF Own, Moving, Shown, store, mapping
<1> QED BY <1>3, <1>5, <1>6, SilentStep DEF HoldsInv

LEMMA OfflineSilent ==
    ASSUME Inv, Inv', Silence, misled \subseteq misled', NEW a \in Actor, NEW d \in Device,
           task[a].device = d, Offline(a)
    PROVE  Silence'
<1> USE DEF Offline
<1>1. HasLock(a) /\ TypeOK /\ task[a].at \notin Listening
  BY DEF Inv, HasLock, Listening
<1>2. Own(a, d)
  BY <1>1, OwnBefore
<1>3. task'[a].at \in {"idle", "release"} /\ \A b \in Actor \ {a} : task'[b] = task[b]
  BY <1>1, AfterDisconnectEffect
<1>4. Elsewhere(a, d) /\ Own(a, d)'
  BY <1>1, <1>2, <1>3 DEF Elsewhere, Own, Moving, store, TypeOK
<1> QED BY <1>3, <1>4, SilentStep DEF HoldsInv

\* A reservation is given up, or made, while the device has no session.
LEMMA ReleaseSilent ==
    ASSUME Inv, Inv', Silence, misled \subseteq misled', NEW a \in Actor, NEW d \in Device,
           task[a].device = d, Release(a)
    PROVE  Silence'
<1> USE DEF Release
<1>1. /\ HasLock(a) /\ TypeOK /\ sessionMap[d] = NoSession
      /\ task[a].at \notin Listening \cup Shown
  BY DEF Inv, HasLock, Listening, Shown, TaskInv, RemoveInv
<1>2. Own(a, d)
  BY <1>1, OwnBefore
<1>3. task'[a].at = "idle" /\ \A b \in Actor \ {a} : task'[b] = task[b]
  BY <1>1, FinishEffect
<1>4. Elsewhere(a, d)
  BY <1>1, <1>3 DEF Elsewhere, store, mapping, TypeOK
<1>5. Own(a, d)'
  BY <1>1, <1>2 DEF Own, Moving, store, mapping, TypeOK
<1> QED BY <1>3, <1>4, <1>5, SilentStep DEF HoldsInv

LEMMA PresetSilent ==
    ASSUME Inv, Inv', Silence, misled \subseteq misled', NEW a \in Admin, NEW d \in Device,
           NEW p \in Port, Preset(a, d, p)
    PROVE  Silence'
<1> USE DEF Preset, Call
<1>1. a \in Actor /\ TypeOK /\ task[a].at = "idle" /\ ~HasLock(a)
  BY DEF Inv, Actor, HasLock, Idle
<1>2. Own(a, d)
  BY OwnBefore, <1>1
<1>3. Elsewhere(a, d)
  BY <1>1 DEF Elsewhere, store, TypeOK
<1>4. Own(a, d)'
  BY <1>1, <1>2, PortAssumption DEF Own, Moving, store
<1> QED BY <1>1, <1>3, <1>4, SilentStep DEF HoldsInv

\* updatePort: both ports listen from the start of the new listener to the stop
\* of the old one, and the device has its session all the time.
LEMMA UpdatePortSilent ==
    ASSUME Inv, Inv', Silence, misled \subseteq misled', NEW a \in Admin, NEW d \in Device,
           NEW p \in Port, UpdatePort(a, d, p)
    PROVE  Silence'
<1> USE DEF UpdatePort, Call
<1>1. a \in Actor /\ TypeOK /\ task[a].at = "idle" /\ ~HasLock(a)
  BY DEF Inv, Actor, HasLock, Idle
<1>2. Own(a, d)
  BY OwnBefore, <1>1
<1>3. /\ task'[a].at \in {"bindNew", "save"} /\ (task'[a].at = "bindNew" => task'[a].flag)
      /\ \A b \in Actor \ {a} : task'[b] = task[b]
  BY <1>1 DEF TypeOK, SessionActive
<1>4. Elsewhere(a, d)
  BY <1>1, <1>3 DEF Elsewhere, store, mapping
<1>5. Own(a, d)'
  BY <1>1, <1>2 DEF Own, Moving, Listening, Shown, store, mapping
<1>6. HoldsInv(a)'
  BY <1>3 DEF HoldsInv
<1> QED BY <1>1, <1>4, <1>5, <1>6, SilentStep

LEMMA UpdateBindSilent ==
    ASSUME Inv, Inv', Silence, misled \subseteq misled', NEW a \in Admin, NEW d \in Device,
           task[a].device = d, UpdateBind(a)
    PROVE  Silence'
<1> USE DEF UpdateBind
<1>1. /\ a \in Actor /\ TypeOK /\ HasLock(a) /\ UpdateInv(a, d) /\ task[a].flag
      /\ task[a].at \notin Listening \cup Shown
  BY Updates DEF Actor, UpdateSteps, Silence, HoldsInv, Listening, Shown
<1>2. Own(a, d)
  BY <1>1, OwnBefore
<1>3. task[a].port \in Port
  BY <1>1 DEF UpdateInv
<1>4. CASE GoTo(a, "save") /\ (Bind(task[a].port, d) \/ UNCHANGED listener)
  <2>1. /\ task'[a].at = "save" /\ task'[a].device = d /\ task'[a].flag
        /\ task'[a].port = task[a].port
        /\ \A b \in Actor \ {a} : task'[b] = task[b]
    BY <1>1, <1>4, GoToEffect DEF Step
  <2>2. \A p \in Port : \A e \in Device : listener'[p] = e =>
           listener[p] = e \/ (e = d /\ p = task[a].port)
    BY <1>1, <1>3, <1>4 DEF Bind, TypeOK
  <2>3. Elsewhere(a, d)
    BY <1>1, <2>1, <2>2 DEF Elsewhere, store, mapping
  <2>4. Own(a, d)'
    BY <1>1, <1>2, <2>1, <2>2 DEF Own, Moving, store, mapping
  <2>5. HoldsInv(a)'
    BY <2>1 DEF HoldsInv
  <2> QED BY <1>1, <2>3, <2>4, <2>5, SilentStep
<1>5. CASE Finish(a) /\ UNCHANGED listener
  <2>1. task'[a].at = "idle" /\ \A b \in Actor \ {a} : task'[b] = task[b]
    BY <1>1, <1>5, FinishEffect
  <2>2. Elsewhere(a, d) /\ Own(a, d)'
    BY <1>1, <1>2, <1>5, <2>1 DEF Elsewhere, Own, Moving, store, mapping
  <2> QED BY <1>1, <2>1, <2>2, SilentStep DEF HoldsInv
<1> QED BY <1>4, <1>5

LEMMA UpdateSaveSilent ==
    ASSUME Inv, Inv', Silence, misled \subseteq misled', NEW a \in Admin, NEW d \in Device,
           task[a].device = d, UpdateSave(a)
    PROVE  Silence'
<1> USE DEF UpdateSave
<1>1. /\ a \in Actor /\ TypeOK /\ HasLock(a) /\ UpdateInv(a, d)
      /\ task[a].at \notin Listening \cup Shown
  BY Updates DEF Actor, UpdateSteps, Listening, Shown
<1>2. Own(a, d)
  BY <1>1, OwnBefore
<1>3. /\ task[a].port \in Port /\ reserved[d] = task[a].old
      /\ task[a].flag => sessionMap[d] # NoSession
  BY <1>1 DEF UpdateInv
<1>4. CASE /\ reserved' = [reserved EXCEPT ![d] = task[a].port] /\ GoTo(a, "move")
           /\ UNCHANGED listener
  <2>1. /\ task'[a].at = "move" /\ task'[a].device = d /\ task'[a].old = task[a].old
        /\ \A b \in Actor \ {a} : task'[b] = task[b]
    BY <1>1, <1>4, GoToEffect DEF Step
  <2>2. /\ reserved'[d] = task[a].port
        /\ \A e \in Device \ {d} : reserved'[e] = reserved[e]
    BY <1>1, <1>4 DEF TypeOK
  <2>3. Elsewhere(a, d)
    BY <1>1, <1>4, <2>1, <2>2 DEF Elsewhere, store
  <2>4. Own(a, d)'
    BY <1>1, <1>2, <1>3, <1>4, <2>1, <2>2 DEF Own, Moving, store
  <2> QED BY <1>1, <2>1, <2>3, <2>4, SilentStep DEF HoldsInv
<1>5. CASE /\ Finish(a) /\ UNCHANGED reserved
           /\ IF task[a].flag THEN StopPort(task[a].port, d) ELSE UNCHANGED listener
  <2>1. task'[a].at = "idle" /\ \A b \in Actor \ {a} : task'[b] = task[b]
    BY <1>1, <1>5, FinishEffect
  <2>2. \A p \in Port : \A e \in Device : listener'[p] = e =>
           listener[p] = e /\ (e = d /\ task[a].flag => p # task[a].port)
    BY <1>1, <1>3, <1>5, StopPortEffect
  <2>3. Elsewhere(a, d)
    BY <1>1, <1>5, <2>1, <2>2 DEF Elsewhere, store
  <2>4. Own(a, d)'
    BY <1>1, <1>2, <1>5, <2>1, <2>2 DEF Own, Moving, store
  <2> QED BY <1>1, <2>1, <2>3, <2>4, SilentStep DEF HoldsInv
<1> QED BY <1>4, <1>5

LEMMA UpdateMoveSilent ==
    ASSUME Inv, Inv', Silence, misled \subseteq misled', NEW a \in Admin, NEW d \in Device,
           task[a].device = d, UpdateMove(a)
    PROVE  Silence'
<1> USE DEF UpdateMove
<1>1. /\ a \in Actor /\ TypeOK /\ HasLock(a) /\ task[a].at \notin Listening \cup Shown
      /\ task[a].sess = sessionMap[d] /\ sessionMap[d] \in SessionId \cup {NoSession}
  BY Updates DEF Actor, UpdateSteps, Listening, Shown, UpdateInv, TypeOK
<1>2. Own(a, d)
  BY <1>1, OwnBefore
<1>3. /\ task'[a].at = "stopOld" /\ task'[a].device = d /\ task'[a].old = task[a].old
      /\ \A b \in Actor \ {a} : task'[b] = task[b]
  BY <1>1, GoToEffect DEF Step
<1>4. \A e \in Device \ {d} : \A t \in SessionId : sess[t].device = e =>
         sess'[t].device = e /\ sess'[t].port = sess[t].port
  <2>1. sessionMap[d] # NoSession => sess[sessionMap[d]].device = d
    BY DEF Inv, SessionInv
  <2>2. \A t \in SessionId : t # sessionMap[d] => sess'[t] = sess[t]
    BY <1>1 DEF TypeOK
  <2> QED BY <1>1, <2>1, <2>2, NoSessionAssumption
<1>5. Elsewhere(a, d)
  BY <1>1, <1>3, <1>4 DEF Elsewhere, mapping
<1>6. Own(a, d)'
  BY <1>1, <1>2, <1>3 DEF Own, Moving, mapping
<1> QED BY <1>1, <1>3, <1>5, <1>6, SilentStep DEF HoldsInv

LEMMA UpdateStopOldSilent ==
    ASSUME Inv, Inv', Silence, misled \subseteq misled', NEW a \in Admin, NEW d \in Device,
           task[a].device = d, UpdateStopOld(a)
    PROVE  Silence'
<1> USE DEF UpdateStopOld
<1>1. /\ a \in Actor /\ TypeOK /\ HasLock(a) /\ task[a].at \notin Listening \cup Shown
  BY Updates DEF Actor, UpdateSteps, Listening, Shown
<1>2. Own(a, d)
  BY <1>1, OwnBefore
<1>3. task'[a].at = "idle" /\ \A b \in Actor \ {a} : task'[b] = task[b]
  BY <1>1, FinishEffect
<1>4. \A p \in Port : \A e \in Device : listener'[p] = e =>
         listener[p] = e /\ (e = d => p # task[a].old)
  BY <1>1, StopPortEffect
<1>5. Elsewhere(a, d)
  BY <1>1, <1>3, <1>4 DEF Elsewhere, store, mapping
<1>6. Own(a, d)'
  BY <1>1, <1>2, <1>4 DEF Own, Moving, store, mapping
<1> QED BY <1>1, <1>3, <1>5, <1>6, SilentStep DEF HoldsInv

LEMMA NextSilent ==
    ASSUME Inv, Inv', Silence, [OfflineNext]_offlineVars
    PROVE  Silence'
<1>0. /\ [Next]_vars /\ misled \subseteq misled'
      /\ \A c \in Channel : Probe(c) /\ Misleading(c) => task[c].device \in misled'
  <2>1. ASSUME NEW c \in Channel, Probe(c)
        PROVE  task[c].at = "probe" /\ task'[c].at = "bind"
    <3>1. c \in Actor /\ TypeOK
      BY DEF Inv, Actor
    <3>2. task \in [Actor -> Task]
      BY <3>1 DEF TypeOK
    <3> QED BY <2>1, <3>1, <3>2 DEF Probe, Task
  <2>2. CASE OfflineNext
    BY <2>1, <2>2 DEF OfflineNext
  <2>3. CASE UNCHANGED offlineVars
    BY <2>1, <2>3 DEF offlineVars, vars
  <2> QED BY <2>2, <2>3
<1>1. ASSUME NEW c \in Channel, Registering(c) PROVE Silence'
  <2>1. task[c].device \in Device
    BY <1>1, AtWork DEF Registering, Actor, Allocate, Probe, RegisterBind, RegisterOnline, Verify,
       Undo, Retire, Drain, Install
  <2> QED BY <1>0, <1>1, <2>1, AllocateSilent, ProbeSilent, RegisterBindSilent, RegisterOnlineSilent,
             VerifySilent, UndoSilent, ReplaceSilent, InstallSilent DEF Registering
<1>2. ASSUME NEW a \in Actor, Disconnecting(a) PROVE Silence'
  <2>1. task[a].device \in Device
    BY <1>2, AtWork DEF Disconnecting, Remove, Stop, Offline
  <2> QED BY <1>0, <1>2, <2>1, RemoveSilent, StopSilent, OfflineSilent DEF Disconnecting
<1>3. ASSUME NEW a \in Admin, Administering(a) PROVE Silence'
  <2>1. a \in Actor /\ task[a].device \in Device
    BY <1>3, AtWork DEF Administering, Actor, Release, UpdateBind, UpdateSave, UpdateMove,
       UpdateStopOld
  <2> QED BY <1>0, <1>3, <2>1, ReleaseSilent, UpdateBindSilent, UpdateSaveSilent,
             UpdateMoveSilent, UpdateStopOldSilent DEF Administering
<1>4. ASSUME NEW c \in Channel,
             Observe(c) \/ Enter(c) \/ CloseChannel(c) \/ \E d \in Device : RegisterBegin(c, d)
      PROVE  Silence'
  <2> DEFINE Idles == /\ task'[c].at \in {"idle", "enter", "allocate", "remove"}
                      /\ \A b \in Actor \ {c} : task'[b] = task[b]
  <2>1. c \in Actor /\ TypeOK
    BY DEF Inv, Actor
  <2>2. CASE CloseChannel(c)
    BY <1>0, <2>2, IdleStep DEF CloseChannel, store
  <2>3. CASE Observe(c)
    <3>1. task[c].at = "idle" /\ (Idles \/ UNCHANGED task)
      <4> DEFINE s == SessionByChannel(c)
                 t == [Idle EXCEPT !.at = "enter", !.op = "disconnected",
                                   !.device = sess[s].device, !.sess = s]
      <4>1. t.at = "enter"
        BY DEF Idle
      <4>2. task[c].at = "idle" /\ (UNCHANGED task \/ task' = [task EXCEPT ![c] = t])
        BY <2>3 DEF Observe, Idle
      <4> HIDE DEF t
      <4> QED BY <2>1, <4>1, <4>2 DEF TypeOK
    <3> QED BY <1>0, <2>1, <2>3, <3>1, IdleStep DEF Observe, store
  <2>4. CASE Enter(c)
    <3>1. task[c].at = "enter" /\ Idles
      BY <2>1, <2>4, GoToEffect, FinishEffect DEF Enter, Step
    <3> QED BY <1>0, <2>1, <2>4, <3>1, IdleStep DEF Enter, store
  <2>5. CASE \E d \in Device : RegisterBegin(c, d)
    <3>1. task[c].at = "idle"
      BY <2>5 DEF RegisterBegin, Idle
    <3>2. Idles
      BY <2>1, <2>5, FinishEffect DEF RegisterBegin, Reject, Idle, TypeOK
    <3> QED BY <1>0, <2>1, <2>5, <3>1, <3>2, IdleStep DEF RegisterBegin, store
  <2> QED BY <1>4, <2>2, <2>3, <2>4, <2>5
<1>5. ASSUME NEW a \in Admin, NEW d \in Device,
             Disconnect(a, d) \/ Ban(a, d) \/ Unban(a, d) \/ DeleteMapping(a, d)
      PROVE  Silence'
  <2>1. a \in Actor /\ TypeOK /\ task[a].at = "idle"
    BY <1>5 DEF Inv, Actor, Disconnect, Ban, Unban, DeleteMapping, Call, Idle
  <2>2. task'[a] = task[a] \/ task'[a].at = "remove"
    BY <1>5, <2>1 DEF Disconnect, Ban, Unban, DeleteMapping, StartTask, Idle, TypeOK
  <2>3. \A b \in Actor \ {a} : task'[b] = task[b]
    BY <1>5, <2>1 DEF Disconnect, Ban, Unban, DeleteMapping, StartTask, TypeOK
  <2> QED
    BY <1>0, <1>5, <2>1, <2>2, <2>3, IdleStep DEF Disconnect, Ban, Unban, DeleteMapping, store
<1>6. ASSUME NEW a \in Admin, NEW d \in Device, NEW p \in Port,
             Preset(a, d, p) \/ UpdatePort(a, d, p)
      PROVE  Silence'
  BY <1>0, <1>6, PresetSilent, UpdatePortSilent
<1>7. CASE UNCHANGED vars
  BY <1>0, <1>7, IdleStep DEF vars, store
<1>8. CASE Proceed
  BY <1>1, <1>2, <1>3, <1>4, <1>8 DEF Proceed, Actor
<1> QED BY <1>0, <1>1, <1>4, <1>5, <1>6, <1>7, <1>8, ClaimsAssumption DEF Next

\* Between calls a device without a session neither listens nor is shown
\* online, whichever step of a registration, a disconnection or a change of
\* its port has failed: register (DeviceLifecycleService), unless it was misled
\* by a listener that updatePort started for another device, and updatePort
\* take back what they have started.
THEOREM DevicesGoSilent == OfflineSpec => []OfflineIsSilent
<1>1. OfflineInit => Init /\ Silence
  <2> SUFFICES ASSUME OfflineInit PROVE Init /\ Silence
    OBVIOUS
  <2>1. \A a \in Actor : HoldsInv(a)
    BY DEF OfflineInit, Init, HoldsInv, Idle
  <2>2. \A d \in Device : SilentInv(d)
    <3> SUFFICES ASSUME NEW d \in Device PROVE SilentInv(d)
      OBVIOUS
    <3>1. ~online[d]
      BY Zenon DEF OfflineInit, Init
    <3>2. ASSUME NEW p \in Port PROVE listener[p] # d
      BY NoneAssumption DEF OfflineInit, Init
    <3> QED BY <3>1, <3>2 DEF SilentInv
  <2> QED BY <2>1, <2>2 DEF Silence, OfflineInit
<1>2. [OfflineNext]_offlineVars => [Next]_vars
  BY DEF OfflineNext, offlineVars
<1>3. OfflineSpec => []Inv
  BY <1>1, <1>2, LifecycleInvariant, PTL DEF OfflineSpec, Spec
<1>4. Inv /\ Inv' /\ Silence /\ [OfflineNext]_offlineVars => Silence'
  BY NextSilent
<1>5. Silence => OfflineIsSilent
  <2> SUFFICES ASSUME Silence, NEW d \in Device \ misled, LockFree(d), sessionMap[d] = NoSession
               PROVE  ~online[d] /\ \A p \in Port : listener[p] # d
    BY DEF OfflineIsSilent
  <2>1. /\ ~Doing(d, Listening) /\ ~Doing(d, Shown)
        /\ \A p \in Port : \A a \in Actor : ~Moving(a, d, p)
    BY DEF Doing, Moving, LockFree, HasLock, Listening, Shown
  <2> QED BY <2>1 DEF Silence, SilentInv
<1> QED BY <1>1, <1>3, <1>4, <1>5, PTL DEF OfflineSpec

-----------------------------------------------------------------------------
(* Part 2: external connections and heartbeats.                            *)

\* Bound to a session, and found by whoever stops the port: below the current
\* listener before the entry is made, in portConnectionMap afterwards.
Attached(e) ==
    \/ ext[e].at = "register" /\ ext[e].listening
    \/ ext[e].at \in {"recheck", "idle"} /\ ext[e].tcp = "up" /\ ext[e].bound

\* How far channelActive has come.
StageInv(e) ==
    LET x == ext[e] IN
    /\ x.tcp = "none" => x.port = NoPort /\ x.at = "idle" /\ ~x.listening /\ ~x.registered
    /\ x.tcp # "none" => x.port \in Port /\ x.owner \in Device
    /\ x.tcp = "none" \/ x.at \in {"lookup", "bind"}
          => x.sess = NoSession /\ ~x.cleaned /\ ~x.registered
    /\ x.at \in {"bind", "register", "recheck"} \/ x.sess # NoSession => x.device \in Device
    /\ x.at \in {"register", "recheck"} => x.bound
    /\ x.cleaned => x.at = "idle"
    /\ x.bound <=> x.sess # NoSession /\ ~x.cleaned

\* The entries of a connection, and what its device knows of its end.
EntryInv(e) ==
    LET x == ext[e] IN
    /\ x.sess # NoSession => sess[x.sess].device = x.device
    /\ x.listening => listener[x.port] = x.owner
    /\ Attached(e) => x.listening
    /\ Attached(e) /\ x.at # "register" => x.registered
    /\ x.tcp = "done" => x.cleaned
    /\ x.cleaned /\ x.sess # NoSession /\ IsActive(ChannelOf(x.sess))
          => x.notified \/ x.byClient

\* The device that was looked up, unless the port was taken from it before its
\* session was looked at, is the one whose listener accepted the connection.
OwnerInv(e) ==
    LET x == ext[e] IN
    ~x.moved => /\ x.at = "bind" => reserved[x.device] = x.port
                /\ Attached(e) => x.device = x.owner

\* The connection of the current session is at the port of the session, up to
\* an update that is moving it.
AtPort(e) ==
    LET x == ext[e] IN
    \/ x.port = sess[x.sess].port
    \/ \E a \in Actor : /\ task[a].device = x.device
                        /\ \/ task[a].at = "move" /\ x.port = task[a].port
                           \/ task[a].at = "stopOld" /\ x.port = task[a].old

PortInv(e) ==
    Attached(e) /\ ~ext[e].moved /\ sessionMap[ext[e].device] = ext[e].sess => AtPort(e)

\* Whoever is being removed still has its connections, which stop with its port;
\* whoever is being replaced has none that its heartbeats did not let in.
Removed(e) ==
    \E a \in Actor : /\ task[a].at = "stop" /\ task[a].device = ext[e].device
                     /\ task[a].sess = ext[e].sess /\ ext[e].port = sess[ext[e].sess].port

HoldInv(e) ==
    LET x == ext[e] IN
    Open(e) /\ ~x.moved /\ Quiet(x.device) =>
        \/ Removed(e)
        \/ /\ sessionMap[x.device] = x.sess
           /\ Doing(x.device, {"install"}) => ChannelOf(x.sess) \in Beating

\* A heartbeat is of a device that had a session on the channel.
BeatInv(c) ==
    /\ beat[c] # NoBeat => c \in Beating /\ beat[c].device \in Device
    /\ beat[c].device # NoDevice =>
          \E t \in SessionId : ChannelOf(t) = c /\ sess[t].device = beat[c].device
    /\ beat[c].sess # NoSession => sess[beat[c].sess].device = beat[c].device

\* The session that is being replaced stays OFFLINE without heartbeats.
RetiredInv(d) ==
    LET s == sessionMap[d] IN
    /\ Quiet(d) /\ Doing(d, {"drain", "install"})
    /\ s # NoSession /\ ChannelOf(s) \notin Beating
    => sess[s].status = "OFFLINE"

ConnInv ==
    /\ Inv /\ ConnTypeOK
    /\ \A e \in External : StageInv(e) /\ EntryInv(e) /\ OwnerInv(e) /\ PortInv(e) /\ HoldInv(e)
    /\ \A c \in Channel : BeatInv(c)
    /\ \A d \in Device : RetiredInv(d)

-----------------------------------------------------------------------------
(* What a step of the lifecycle does to what the connections depend on. *)

\* Channels close, a port changes hands only after it was stopped, a session
\* object belongs to one device for ever and goes ONLINE only when it is new.
Effect ==
    /\ \A k \in Channel : IsActive(k)' => IsActive(k)
    /\ \A p \in Port : listener[p] # NoDevice /\ listener'[p] # NoDevice
                          => listener'[p] = listener[p]
    /\ \A t \in SessionId : sess[t].device # NoDevice =>
          /\ sess'[t].device = sess[t].device
          /\ sess'[t].status = "ONLINE" => sess[t].status = "ONLINE"
    /\ \A d \in Device : \/ sessionMap'[d] \in {sessionMap[d], NoSession}
                         \/ /\ sessionMap'[d] \in SessionId
                            /\ sess[sessionMap'[d]].device = NoDevice

\* A step that moves no session and no call at a step the connections know of.
Plain ==
    /\ UNCHANGED <<sess, sessionMap>>
    /\ \A a \in Actor :
          /\ task[a].at \in {"move", "stopOld", "stop"} => task'[a] = task[a]
          /\ task'[a].at \in {"drain", "install"} => task'[a] = task[a]

\* The call of a moves on, and no other.
Moves(a) == \A b \in Actor \ {a} : task'[b] = task[b]

\* The ports a step may touch.
PortStep == UNCHANGED listener \/ \E p \in Port, d \in Device : Bind(p, d) \/ StopPort(p, d)

LEMMA PlainStep ==
    ASSUME TypeOK, NEW a \in Actor, Moves(a),
           task[a].at \notin {"move", "stopOld", "stop"},
           task'[a].at \notin {"drain", "install"},
           UNCHANGED <<sess, sessionMap>>, PortStep,
           \A k \in Channel : IsActive(k)' => IsActive(k)
    PROVE  Effect /\ Plain
<1>1. \A p \in Port : listener[p] # NoDevice /\ listener'[p] # NoDevice
                          => listener'[p] = listener[p]
  BY DEF PortStep, Bind, StopPort, TypeOK
<1> QED BY <1>1 DEF Effect, Plain, Moves

\* The bookkeeping of the next steps: where a call goes.
LEMMA GoesTo ==
    ASSUME TypeOK, NEW a \in Actor, NEW x \in Step, GoTo(a, x)
    PROVE  Moves(a) /\ task'[a].at = x
BY GoToEffect DEF Moves

LEMMA Finishes ==
    ASSUME TypeOK, NEW a \in Actor, Finish(a)
    PROVE  Moves(a) /\ task'[a].at = "idle"
BY FinishEffect DEF Moves

LEMMA Rejects ==
    ASSUME TypeOK, NEW c \in Channel, c \in Actor, Reject(c)
    PROVE  /\ Moves(c) /\ task'[c].at = "idle"
           /\ \A k \in Channel : IsActive(k)' => IsActive(k)
BY Finishes, RequestCloseEffect DEF Reject, IsActive

LEMMA RegisteringPlain ==
    ASSUME Inv, NEW c \in Channel, NEW d \in Device, task[c].device = d,
           \/ Allocate(c) \/ Probe(c) \/ RegisterBind(c) \/ RegisterOnline(c) \/ Verify(c) \/ Undo(c)
    PROVE  Effect /\ Plain
<1>1. c \in Actor /\ TypeOK /\ (HasPort(c) => task[c].port \in Port)
  BY DEF Actor, Inv, TypeOK
<1>2. UNCHANGED chan => \A k \in Channel : IsActive(k)' => IsActive(k)
  BY DEF IsActive
<1>3. CASE Allocate(c)
  <2>1. CASE Reject(c)
    BY <1>1, <1>3, <2>1, Rejects, PlainStep DEF Allocate, store, PortStep
  <2>2. CASE \E p \in Port \cup {NoPort} :
                task' = [task EXCEPT ![c].at = "probe", ![c].port = p] /\ UNCHANGED chan
    <3>1. Moves(c) /\ task'[c].at = "probe"
      BY <1>1, <2>2 DEF TypeOK, Task, Moves
    <3> QED BY <1>1, <1>2, <1>3, <2>2, <3>1, PlainStep DEF Allocate, store, PortStep
  <2>3. reserved[d] \in Port \cup {NoPort}
    BY <1>1 DEF TypeOK
  <2> QED BY <1>3, <2>1, <2>2, <2>3 DEF Allocate
<1>4. CASE Probe(c)
  <2>1. Moves(c) /\ task'[c].at = "bind"
    BY <1>1, <1>4 DEF Probe, TypeOK, Task, Moves
  <2> QED BY <1>1, <1>2, <1>4, <2>1, PlainStep DEF Probe, store, PortStep
<1>5. CASE RegisterBind(c)
  <2>1. CASE Reject(c)
    BY <1>1, <1>5, <2>1, Rejects, PlainStep DEF RegisterBind, store, PortStep, HasPort
  <2>2. CASE GoTo(c, "online") /\ UNCHANGED chan
    <3>1. Moves(c) /\ task'[c].at = "online"
      BY <1>1, <2>2, GoesTo DEF Step
    <3> QED BY <1>1, <1>2, <1>5, <2>2, <3>1, PlainStep DEF RegisterBind, store, PortStep, HasPort
  <2> QED BY <1>5, <2>1, <2>2 DEF RegisterBind
<1>6. CASE RegisterOnline(c)
  <2>1. CASE Reject(c)
    BY <1>1, <1>6, <2>1, Rejects, PlainStep DEF RegisterOnline, store, PortStep, HasPort
  <2>2. CASE GoTo(c, "verify") /\ UNCHANGED chan
    <3>1. Moves(c) /\ task'[c].at = "verify"
      BY <1>1, <2>2, GoesTo DEF Step
    <3> QED BY <1>1, <1>2, <1>6, <2>2, <3>1, PlainStep DEF RegisterOnline, store, PortStep, HasPort
  <2> QED BY <1>6, <2>1, <2>2 DEF RegisterOnline
<1>7. CASE Verify(c)
  <2>1. CASE Reject(c)
    BY <1>1, <1>7, <2>1, Rejects, PlainStep DEF Verify, store, PortStep, HasPort
  <2>2. CASE (\E x \in {"retire", "undo"} : GoTo(c, x)) /\ UNCHANGED chan
    <3>1. Moves(c) /\ task'[c].at \in {"retire", "undo"}
      BY <1>1, <2>2, GoesTo DEF Step
    <3> QED BY <1>1, <1>2, <1>7, <2>2, <3>1, PlainStep DEF Verify, store, PortStep, HasPort
  <2> QED BY <1>7, <2>1, <2>2 DEF Verify
<1>8. CASE Undo(c)
  BY <1>1, <1>8, Rejects, PlainStep DEF Undo, store, PortStep
<1> QED BY <1>3, <1>4, <1>5, <1>6, <1>7, <1>8

LEMMA DisconnectingPlain ==
    ASSUME Inv, NEW a \in Actor, Offline(a) \/ Release(a)
    PROVE  Effect /\ Plain
<1>1. TypeOK
  BY DEF Inv
<1>2. CASE Offline(a)
  <2>1. Moves(a) /\ task'[a].at \in {"idle", "release"}
    BY <1>1, <1>2, AfterDisconnectEffect DEF Offline, Moves
  <2>2. \A k \in Channel : IsActive(k)' => IsActive(k)
    BY <1>2 DEF Offline, IsActive
  <2> QED BY <1>1, <1>2, <2>1, <2>2, PlainStep DEF Offline, store, PortStep
<1>3. CASE Release(a)
  <2>1. \A k \in Channel : IsActive(k)' => IsActive(k)
    BY <1>3 DEF Release, IsActive
  <2> QED BY <1>1, <1>3, <2>1, Finishes, PlainStep DEF Release, store, PortStep
<1> QED BY <1>2, <1>3

LEMMA ChannelPlain ==
    ASSUME Inv, NEW c \in Channel,
           \/ Observe(c) \/ Enter(c) \/ CloseChannel(c)
           \/ \E d \in Device : RegisterBegin(c, d)
    PROVE  Effect /\ Plain
<1>1. TypeOK /\ c \in Actor /\ (task[c] = Idle => task[c].at = "idle")
  BY DEF Inv, Actor, Idle
<1>2. CASE Observe(c)
  <2>1. Moves(c) /\ task[c].at = "idle" /\ task'[c].at \in {"idle", "enter"}
    <3>1. CASE UNCHANGED task
      BY <1>1, <1>2, <3>1 DEF Observe, Moves
    <3>2. CASE task' = [task EXCEPT ![c] = [Idle EXCEPT !.at = "enter", !.op = "disconnected",
                                               !.device = sess[SessionByChannel(c)].device,
                                               !.sess = SessionByChannel(c)]]
      BY <1>1, <1>2, <3>2 DEF Observe, TypeOK, Idle, Moves
    <3> QED BY <1>2, <3>1, <3>2 DEF Observe
  <2>2. \A k \in Channel : IsActive(k)' => IsActive(k)
    BY <1>2 DEF Observe, IsActive, Inv, TypeOK
  <2> QED BY <1>1, <1>2, <2>1, <2>2, PlainStep DEF Observe, store, PortStep
<1>3. CASE Enter(c)
  <2>1. Moves(c) /\ task'[c].at \in {"idle", "remove"}
    BY <1>1, <1>3, GoesTo, Finishes DEF Enter, Step
  <2>2. \A k \in Channel : IsActive(k)' => IsActive(k)
    BY <1>3 DEF Enter, IsActive, Inv, TypeOK
  <2> QED BY <1>1, <1>3, <2>1, <2>2, PlainStep DEF Enter, store, PortStep
<1>4. CASE CloseChannel(c)
  <2>1. \A k \in Channel : IsActive(k)' => IsActive(k)
    BY <1>4 DEF CloseChannel, IsActive, Inv, TypeOK
  <2> QED BY <1>4, <2>1 DEF CloseChannel, store, Effect, Plain
<1>5. ASSUME NEW d \in Device, RegisterBegin(c, d) PROVE Effect /\ Plain
  <2>1. task[c].at = "idle"
    BY <1>1, <1>5 DEF RegisterBegin
  <2>2. CASE Reject(c)
    BY <1>1, <1>5, <2>1, <2>2, Rejects, PlainStep DEF RegisterBegin, store, PortStep
  <2>3. CASE /\ task' = [task EXCEPT ![c] = [Idle EXCEPT !.at = "allocate", !.op = "register",
                                                         !.device = d]]
             /\ UNCHANGED chan
    <3>1. Moves(c) /\ task'[c].at = "allocate"
      BY <1>1, <2>3 DEF TypeOK, Idle, Moves
    <3>2. \A k \in Channel : IsActive(k)' => IsActive(k)
      BY <2>3 DEF IsActive
    <3> QED BY <1>1, <1>5, <2>1, <3>1, <3>2, PlainStep DEF RegisterBegin, store, PortStep
  <2> QED BY <1>5, <2>2, <2>3 DEF RegisterBegin
<1> QED BY <1>2, <1>3, <1>4, <1>5

LEMMA CallPlain ==
    ASSUME Inv, NEW a \in Admin, NEW d \in Device,
           \/ Disconnect(a, d) \/ Ban(a, d) \/ Unban(a, d) \/ DeleteMapping(a, d)
           \/ \E p \in Port : Preset(a, d, p) \/ UpdatePort(a, d, p)
    PROVE  Effect /\ Plain
<1>1. TypeOK /\ a \in Actor /\ task[a].at = "idle"
  BY DEF Inv, Actor, Disconnect, Ban, Unban, DeleteMapping, Preset, UpdatePort, Call, Idle
<1>2. /\ UNCHANGED <<chan, store, listener>>
      /\ \A k \in Channel : IsActive(k)' => IsActive(k)
  BY DEF Disconnect, Ban, Unban, DeleteMapping, Preset, UpdatePort, IsActive
<1>3. Moves(a) /\ task'[a].at \in {"idle", "remove", "bindNew", "save"}
  <2>1. CASE UNCHANGED task
    BY <1>1, <2>1 DEF Moves
  <2>2. CASE \E op \in {"disconnect", "ban", "delete"} : StartTask(a, op, d)
    BY <1>1, <2>2 DEF StartTask, Idle, TypeOK, Moves
  <2>3. ASSUME NEW p \in Port, UpdatePort(a, d, p)
        PROVE  Moves(a) /\ task'[a].at \in {"bindNew", "save"}
    BY <1>1, <2>3 DEF UpdatePort, TypeOK, Moves
  <2> QED BY <2>1, <2>2, <2>3 DEF Disconnect, Ban, Unban, DeleteMapping, Preset
<1> QED BY <1>1, <1>2, <1>3, PlainStep DEF store, PortStep

LEMMA UpdatePlain ==
    ASSUME Inv, NEW a \in Admin, UpdateBind(a) \/ UpdateSave(a)
    PROVE  Effect /\ Plain
<1>1. TypeOK /\ a \in Actor /\ task[a].device \in Device /\ task[a].port \in Port
  BY DEF Inv, Actor, UpdateBind, UpdateSave, TaskInv, UpdateInv, UpdateSteps
<1>2. \A k \in Channel : IsActive(k)' => IsActive(k)
  BY DEF UpdateBind, UpdateSave, IsActive
<1>3. Moves(a) /\ task'[a].at \in {"idle", "save", "move"}
  BY <1>1, GoesTo, Finishes DEF UpdateBind, UpdateSave, Step
<1> QED BY <1>1, <1>2, <1>3, PlainStep DEF UpdateBind, UpdateSave, store, PortStep

-----------------------------------------------------------------------------
(* The steps that the connections notice. *)

\* A step that leaves the ports of the sessions to whoever is moving them.
Steady ==
    /\ \A t \in SessionId : sess[t].device # NoDevice => sess'[t].port = sess[t].port
    /\ \A a \in Actor : task[a].at \in {"move", "stopOld"} => task'[a] = task[a]

LEMMA RetireFacts ==
    ASSUME Inv, NEW c \in Channel, NEW d \in Device, task[c].device = d, Retire(c)
    PROVE  /\ Effect /\ Steady /\ Moves(c) /\ task[c].at = "retire" /\ UNCHANGED sessionMap
           /\ task'[c].at \in {"drain", "install"} /\ task'[c].device = d
           /\ sessionMap[d] # NoSession =>
                 task'[c].at = "drain" /\ sess'[sessionMap[d]].status = "OFFLINE"
<1> DEFINE s == sessionMap[d]
<1>1. c \in Actor /\ TypeOK /\ task[c].at = "retire" /\ UNCHANGED <<chan, sessionMap, listener>>
  BY DEF Inv, Actor, Retire
<1>2. \/ s = NoSession /\ GoTo(c, "install") /\ UNCHANGED sess
      \/ /\ s # NoSession /\ s \in SessionId
         /\ sess' = [sess EXCEPT ![s].status = "OFFLINE"]
         /\ GoTo(c, "drain")
  BY <1>1 DEF Retire, TypeOK
<1>3. /\ Moves(c) /\ task'[c].at \in {"drain", "install"} /\ task'[c].device = d
      /\ s # NoSession => task'[c].at = "drain"
  BY <1>1, <1>2, GoToEffect DEF Step, Moves
<1>4. /\ s # NoSession => sess'[s].status = "OFFLINE"
      /\ \A t \in SessionId : /\ sess'[t].device = sess[t].device /\ sess'[t].port = sess[t].port
                              /\ sess'[t].status = "ONLINE" => sess[t].status = "ONLINE"
  <2>1. sess \in [SessionId -> Session]
    BY <1>1 DEF TypeOK
  <2>2. CASE UNCHANGED sess /\ s = NoSession
    BY <2>2
  <2>3. CASE s \in SessionId /\ sess' = [sess EXCEPT ![s].status = "OFFLINE"]
    BY <2>1, <2>3 DEF Session
  <2> QED BY <1>2, <2>2, <2>3
<1>5. Effect
  BY <1>1, <1>4 DEF Effect, IsActive
<1>6. Steady
  BY <1>1, <1>3, <1>4 DEF Steady, Moves
<1> QED BY <1>1, <1>3, <1>4, <1>5, <1>6

LEMMA DrainFacts ==
    ASSUME Inv, NEW c \in Channel, NEW d \in Device, task[c].device = d, Drain(c)
    PROVE  /\ Effect /\ Steady /\ Moves(c) /\ UNCHANGED <<sess, sessionMap>>
           /\ task[c].at = "drain" /\ task'[c].at = "install" /\ task'[c].device = d
           /\ Drained(task[c].port)
<1>1. c \in Actor /\ TypeOK /\ task[c].at = "drain" /\ UNCHANGED <<chan, store, listener>>
  BY DEF Inv, Actor, Drain
<1>2. Moves(c) /\ task'[c].at = "install" /\ task'[c].device = d
  BY <1>1, GoToEffect DEF Step, Moves, Drain
<1>3. Drained(task[c].port)
  BY <1>1, <1>2 DEF Drained
<1>4. Effect /\ Steady
  BY <1>1, <1>2 DEF Effect, Steady, Moves, IsActive, store
<1> QED BY <1>1, <1>2, <1>3, <1>4 DEF store

LEMMA InstallFacts ==
    ASSUME Inv, NEW c \in Channel, NEW d \in Device, task[c].device = d, Install(c)
    PROVE  /\ Effect /\ Steady /\ Moves(c) /\ task[c].at = "install" /\ task'[c].at = "idle"
           /\ sessionMap'[d] \in SessionId /\ sess[sessionMap'[d]].device = NoDevice
           /\ \A e \in Device \ {d} : sessionMap'[e] = sessionMap[e]
<1> DEFINE s == <<c, registers[c]>>
           old == sessionMap[d]
<1>1. c \in Actor /\ TypeOK /\ task[c].at = "install" /\ UNCHANGED listener
  BY DEF Inv, Actor, Install
<1>2. s \in SessionId /\ sess[s].device = NoDevice
  BY <1>1 DEF Inv, TaskInv, RegisterInv, RegisterSteps, SessionId
<1>3. Moves(c) /\ task'[c].at = "idle"
  BY <1>1, Finishes DEF Install
<1>4. sessionMap' = [sessionMap EXCEPT ![d] = s]
  BY DEF Install
<1>5. sessionMap'[d] = s /\ \A e \in Device \ {d} : sessionMap'[e] = sessionMap[e]
  BY <1>1, <1>4 DEF TypeOK
<1>6. \A t \in SessionId \ {s} : \/ sess'[t] = sess[t]
                                 \/ sess'[t] = [sess[t] EXCEPT !.status = "OFFLINE"]
  BY DEF Install
<1>7. \A t \in SessionId \ {s} :
         /\ sess'[t].device = sess[t].device /\ sess'[t].port = sess[t].port
         /\ sess'[t].status = "ONLINE" => sess[t].status = "ONLINE"
  <2>1. \A t \in SessionId : sess[t] \in Session
    BY <1>1 DEF TypeOK
  <2> HIDE DEF s
  <2> QED BY <1>6, <2>1 DEF Session
<1>8. \A k \in Channel : IsActive(k)' => IsActive(k)
  BY <1>1, RequestCloseEffect DEF Install, IsActive, TypeOK, RequestClose
<1> HIDE DEF s
<1>9. Effect
  BY <1>1, <1>2, <1>5, <1>7, <1>8 DEF Effect
<1>10. Steady
  BY <1>1, <1>2, <1>3, <1>7 DEF Steady, Moves
<1> QED BY <1>1, <1>2, <1>3, <1>5, <1>9, <1>10

LEMMA RemoveFacts ==
    ASSUME Inv, NEW a \in Actor, NEW d \in Device, task[a].device = d, Remove(a)
    PROVE  /\ Effect /\ Steady /\ Moves(a) /\ task[a].at = "remove"
           /\ \/ Plain
              \/ /\ sessionMap[d] # NoSession /\ sessionMap'[d] = NoSession
                 /\ \A e \in Device \ {d} : sessionMap'[e] = sessionMap[e]
                 /\ task'[a].at = "stop" /\ task'[a].device = d /\ task'[a].sess = sessionMap[d]
<1> DEFINE s == sessionMap[d]
           c == ChannelOf(s)
<1>1. TypeOK /\ task[a].at = "remove" /\ UNCHANGED <<chan, listener>>
  BY DEF Inv, Remove
<1>2. \A k \in Channel : IsActive(k)' => IsActive(k)
  BY <1>1 DEF IsActive
<1>3. CASE AfterDisconnect(a) /\ UNCHANGED store
  <2>1. Moves(a) /\ task'[a].at \in {"idle", "release"}
    BY <1>1, <1>3, AfterDisconnectEffect DEF Moves
  <2>2. Effect /\ Plain
    BY <1>1, <1>2, <1>3, <2>1, PlainStep DEF store, PortStep
  <2>3. Steady
    BY <2>2 DEF Plain, Steady
  <2> QED BY <1>1, <2>1, <2>2, <2>3
<1>4. CASE /\ s # NoSession
           /\ task' = [task EXCEPT ![a].at = "stop", ![a].sess = s]
           /\ IF channelToDevice[c] # NoDevice /\ SessionByChannel(c) # NoSession
              THEN /\ sessionMap' = [sessionMap EXCEPT ![channelToDevice[c]] = NoSession]
                   /\ sess' = [sess EXCEPT ![SessionByChannel(c)].status = "OFFLINE"]
              ELSE UNCHANGED <<sessionMap, sess>>
  <2>1. s \in SessionId /\ channelToDevice[c] = d /\ SessionByChannel(c) = s
    BY <1>1, <1>4, NoneAssumption DEF TypeOK, Inv, SessionInv, SessionByChannel
  <2>2. /\ sessionMap' = [sessionMap EXCEPT ![d] = NoSession]
        /\ sess' = [sess EXCEPT ![s].status = "OFFLINE"]
    BY <1>4, <2>1, NoneAssumption
  <2>3. Moves(a) /\ task'[a].at = "stop" /\ task'[a].device = d /\ task'[a].sess = s
    <3>1. task[a] \in Task /\ task \in [Actor -> Task]
      BY <1>1 DEF TypeOK
    <3> HIDE DEF s, c
    <3>2. task' = [task EXCEPT ![a] = [task[a] EXCEPT !.at = "stop", !.sess = s]]
      BY <1>4
    <3>3. LET t == [task[a] EXCEPT !.at = "stop", !.sess = s]
          IN  t.at = "stop" /\ t.device = task[a].device /\ t.sess = s
      BY <3>1 DEF Task
    <3> QED BY <3>1, <3>2, <3>3 DEF Moves
  <2>4. sessionMap'[d] = NoSession /\ \A e \in Device \ {d} : sessionMap'[e] = sessionMap[e]
    BY <1>1, <2>2 DEF TypeOK
  <2>5. \A t \in SessionId :
           /\ sess'[t].device = sess[t].device /\ sess'[t].port = sess[t].port
           /\ sess'[t].status = "ONLINE" => sess[t].status = "ONLINE"
    <3>1. sess \in [SessionId -> Session]
      BY <1>1 DEF TypeOK
    <3> HIDE DEF s, c
    <3> QED BY <2>2, <3>1 DEF Session
  <2>6. Effect
    BY <1>1, <1>2, <2>4, <2>5 DEF Effect
  <2>7. Steady
    BY <1>1, <2>3, <2>5 DEF Steady, Moves
  <2> QED BY <1>1, <1>4, <2>3, <2>4, <2>6, <2>7
<1> QED BY <1>3, <1>4 DEF Remove

LEMMA StopFacts ==
    ASSUME Inv, NEW a \in Actor, Stop(a)
    PROVE  /\ Effect /\ Steady /\ Moves(a) /\ UNCHANGED <<sess, sessionMap>>
           /\ task[a].at = "stop" /\ task'[a].at = "offline"
           /\ StopPort(sess[task[a].sess].port, task[a].device)
<1>1. /\ TypeOK /\ task[a].at = "stop" /\ UNCHANGED <<chan, store>>
      /\ StopPort(sess[task[a].sess].port, task[a].device)
  BY DEF Inv, Stop
<1>2. Moves(a) /\ task'[a].at = "offline"
  BY <1>1, GoesTo DEF Step, Stop
<1>3. Effect
  BY <1>1 DEF Effect, IsActive, store, StopPort
<1>4. Steady
  BY <1>1, <1>2 DEF Steady, Moves, store
<1> QED BY <1>1, <1>2, <1>3, <1>4 DEF store

LEMMA UpdateMoveFacts ==
    ASSUME Inv, NEW a \in Actor, NEW d \in Device, task[a].device = d, UpdateMove(a)
    PROVE  /\ Effect /\ Moves(a) /\ UNCHANGED <<sessionMap, listener, reserved>>
           /\ task[a].at = "move" /\ task'[a].at = "stopOld" /\ task'[a].device = d
           /\ task'[a].old = task[a].old
           /\ task[a].sess = sessionMap[d] /\ task[a].port = reserved[d]
           /\ \A t \in SessionId : t # sessionMap[d] => sess'[t] = sess[t]
           /\ sessionMap[d] # NoSession => sess'[sessionMap[d]].port = task[a].port
<1> DEFINE s == task[a].sess
<1>1. TypeOK /\ task[a].at = "move" /\ UNCHANGED <<chan, sessionMap, listener, reserved>>
  BY DEF Inv, UpdateMove, mapping
<1>2. Moves(a) /\ task'[a].at = "stopOld" /\ task'[a].device = d /\ task'[a].old = task[a].old
  BY <1>1, GoToEffect DEF Step, UpdateMove, Moves
<1>3. s = sessionMap[d] /\ task[a].port = reserved[d] /\ task[a].port \in Port
  BY <1>1 DEF Inv, TaskInv, UpdateInv, UpdateSteps
<1>4. s \in SessionId \cup {NoSession}
  BY <1>1, <1>3 DEF TypeOK
<1>5. /\ \A t \in SessionId :
            /\ t # s => sess'[t] = sess[t]
            /\ sess'[t].device = sess[t].device /\ sess'[t].status = sess[t].status
      /\ s # NoSession => sess'[s].port = task[a].port
  <2>1. sess \in [SessionId -> Session]
    BY <1>1 DEF TypeOK
  <2>2. IF s = NoSession THEN UNCHANGED sess ELSE sess' = [sess EXCEPT ![s].port = task[a].port]
    BY DEF UpdateMove
  <2> HIDE DEF s
  <2> QED BY <1>4, <2>1, <2>2 DEF Session
<1>6. Effect
  BY <1>1, <1>5 DEF Effect, IsActive
<1> QED BY <1>1, <1>2, <1>3, <1>5, <1>6

LEMMA UpdateStopOldFacts ==
    ASSUME Inv, NEW a \in Actor, UpdateStopOld(a)
    PROVE  /\ Effect /\ Moves(a) /\ UNCHANGED <<sess, sessionMap>>
           /\ task[a].at = "stopOld" /\ task'[a].at = "idle"
           /\ StopPort(task[a].old, task[a].device)
<1>1. /\ TypeOK /\ task[a].at = "stopOld" /\ UNCHANGED <<chan, store>>
      /\ StopPort(task[a].old, task[a].device)
  BY DEF Inv, UpdateStopOld
<1>2. Moves(a) /\ task'[a].at = "idle"
  BY <1>1, Finishes DEF UpdateStopOld
<1>3. Effect
  BY <1>1 DEF Effect, IsActive, store, StopPort
<1> QED BY <1>1, <1>2, <1>3 DEF store

\* Every step is one of these.
LEMMA Cases ==
    ASSUME Inv, [Next]_vars
    PROVE  \/ Effect /\ Plain
           \/ \E c \in Channel : Retire(c) \/ Drain(c) \/ Install(c)
           \/ \E a \in Actor : Remove(a) \/ Stop(a) \/ UpdateMove(a) \/ UpdateStopOld(a)
<1>1. ASSUME NEW c \in Channel, Registering(c)
      PROVE  (Effect /\ Plain) \/ Retire(c) \/ Drain(c) \/ Install(c)
  <2>1. task[c].device \in Device
    BY <1>1, AtWork DEF Registering, Actor, Allocate, Probe, RegisterBind, RegisterOnline, Verify,
       Undo, Retire, Drain, Install
  <2> QED BY <1>1, <2>1, RegisteringPlain DEF Registering
<1>2. ASSUME NEW a \in Actor, Disconnecting(a)
      PROVE  (Effect /\ Plain) \/ Remove(a) \/ Stop(a)
  BY <1>2, DisconnectingPlain DEF Disconnecting
<1>3. ASSUME NEW a \in Admin, Administering(a)
      PROVE  (Effect /\ Plain) \/ UpdateMove(a) \/ UpdateStopOld(a)
  BY <1>3, DisconnectingPlain, UpdatePlain DEF Administering, Actor
<1>4. CASE Proceed
  <2>1. Channel \subseteq Actor /\ Admin \subseteq Actor
    BY DEF Actor
  <2> QED BY <1>1, <1>2, <1>3, <1>4, <2>1, ChannelPlain DEF Proceed
<1>5. CASE UNCHANGED vars
  BY <1>5 DEF vars, store, Effect, Plain, IsActive
<1> QED BY <1>4, <1>5, ChannelPlain, CallPlain, ClaimsAssumption DEF Next

-----------------------------------------------------------------------------
(* What the lifecycle does to the connections. *)

\* A step of the lifecycle seen from one connection.
Hit(p) == p # NoPort /\ (Stopped(p) \/ Drained(p))

Torn(e) ==
    LET x == ext[e]
        y == ext'[e]
    IN
    /\ y.at = x.at /\ y.port = x.port /\ y.owner = x.owner /\ y.device = x.device
    /\ y.sess = x.sess /\ y.bound = x.bound /\ y.cleaned = x.cleaned
    /\ y.notified = x.notified /\ y.byClient = x.byClient
    /\ y.moved = Moved(x)
    /\ y.registered = (x.registered /\ ~Hit(x.port))
    /\ y.tcp = IF Hit(x.port) THEN Closing(x) ELSE x.tcp
    /\ y.listening = (x.listening /\ ~(x.port # NoPort /\ Stopped(x.port)))

LEMMA TeardownEffect ==
    ASSUME ext \in [External -> Connection], Teardown
    PROVE  ext' \in [External -> Connection] /\ \A e \in External : Torn(e)
<1> SUFFICES ASSUME NEW e \in External PROVE ext'[e] \in Connection /\ Torn(e)
  BY DEF Teardown
<1> DEFINE x == ext[e]
           m == Moved(x)
           z == [x EXCEPT !.moved = m]
           p == x.port
<1> DEFINE Tcp == {"none", "up", "closing", "down", "done"}
           At == {"idle", "lookup", "bind", "register", "recheck"}
<1>1. Connection =
        [tcp : Tcp, at : At,
         port : Port \cup {NoPort}, owner : Device \cup {NoDevice},
         device : Device \cup {NoDevice}, sess : SessionId \cup {NoSession},
         listening : BOOLEAN, bound : BOOLEAN, registered : BOOLEAN,
         cleaned : BOOLEAN, notified : BOOLEAN, moved : BOOLEAN, byClient : BOOLEAN]
  BY DEF Connection
<1>2. "closing" \in Tcp
  OBVIOUS
<1>3. ext'[e] = IF p = NoPort THEN z
                ELSE IF Stopped(p)
                     THEN [z EXCEPT !.tcp = Closing(z), !.registered = FALSE, !.listening = FALSE]
                ELSE IF Drained(p)
                     THEN [z EXCEPT !.tcp = Closing(z), !.registered = FALSE]
                ELSE z
  <2>1. ext'[e] = LET w == [ext[e] EXCEPT !.moved = Moved(ext[e])] IN
        IF w.port = NoPort THEN w
        ELSE IF Stopped(w.port)
             THEN [w EXCEPT !.tcp = Closing(w), !.registered = FALSE, !.listening = FALSE]
        ELSE IF Drained(w.port)
             THEN [w EXCEPT !.tcp = Closing(w), !.registered = FALSE]
        ELSE w
    BY DEF Teardown
  <2>2. z.port = p
    BY <1>1
  <2> QED BY <2>1, <2>2
<1>4. x \in Connection /\ m \in BOOLEAN
  BY <1>1 DEF Moved
<1> HIDE DEF Tcp, At, m, x
<1>5. /\ z \in Connection /\ z.tcp = x.tcp /\ z.registered = x.registered
      /\ z.listening = x.listening /\ z.moved = m
      /\ z.at = x.at /\ z.port = x.port /\ z.owner = x.owner /\ z.device = x.device
      /\ z.sess = x.sess /\ z.bound = x.bound /\ z.cleaned = x.cleaned
      /\ z.notified = x.notified /\ z.byClient = x.byClient
      /\ x.registered \in BOOLEAN /\ x.listening \in BOOLEAN
  BY <1>1, <1>4
<1> HIDE DEF z
<1>6. Closing(z) = Closing(x) /\ Closing(x) \in Tcp
  BY <1>1, <1>2, <1>4, <1>5 DEF Closing
<1>7. CASE p # NoPort /\ Stopped(p)
  <2> DEFINE y == [z EXCEPT !.tcp = Closing(x), !.registered = FALSE, !.listening = FALSE]
  <2>1. ext'[e] = y
    BY <1>3, <1>6, <1>7
  <2>2. /\ y \in Connection /\ y.tcp = Closing(x) /\ y.registered = FALSE /\ y.listening = FALSE
        /\ y.at = z.at /\ y.port = z.port /\ y.owner = z.owner /\ y.device = z.device
        /\ y.sess = z.sess /\ y.bound = z.bound /\ y.cleaned = z.cleaned
        /\ y.notified = z.notified /\ y.byClient = z.byClient /\ y.moved = z.moved
    BY <1>1, <1>5, <1>6
  <2> HIDE DEF y
  <2> QED BY <1>5, <1>7, <2>1, <2>2 DEF Torn, Hit, x, m
<1>8. CASE p # NoPort /\ ~Stopped(p) /\ Drained(p)
  <2> DEFINE y == [z EXCEPT !.tcp = Closing(x), !.registered = FALSE]
  <2>1. ext'[e] = y
    BY <1>3, <1>6, <1>8
  <2>2. /\ y \in Connection /\ y.tcp = Closing(x) /\ y.registered = FALSE
        /\ y.listening = z.listening
        /\ y.at = z.at /\ y.port = z.port /\ y.owner = z.owner /\ y.device = z.device
        /\ y.sess = z.sess /\ y.bound = z.bound /\ y.cleaned = z.cleaned
        /\ y.notified = z.notified /\ y.byClient = z.byClient /\ y.moved = z.moved
    BY <1>1, <1>5, <1>6
  <2> HIDE DEF y
  <2> QED BY <1>5, <1>8, <2>1, <2>2 DEF Torn, Hit, x, m
<1>9. CASE p = NoPort \/ ~(Stopped(p) \/ Drained(p))
  <2>1. ext'[e] = z
    BY <1>3, <1>9
  <2> QED BY <1>5, <1>9, <2>1 DEF Torn, Hit, x, m
<1> QED BY <1>7, <1>8, <1>9

\* A connection that data may flow on, or soon may, is its owner's.
LEMMA AttachedFacts ==
    ASSUME ConnInv, NEW e \in External, Attached(e)
    PROVE  /\ ext[e].port \in Port /\ ext[e].port # NoPort
           /\ ext[e].device \in Device /\ ext[e].sess \in SessionId
           /\ ext[e].sess # NoSession /\ ext[e].bound /\ ext[e].listening
           /\ sess[ext[e].sess].device = ext[e].device
           /\ ~ext[e].moved => listener[ext[e].port] = ext[e].device
<1> DEFINE x == ext[e]
<1>1. StageInv(e) /\ EntryInv(e) /\ OwnerInv(e) /\ x.sess \in SessionId \cup {NoSession}
  BY DEF ConnInv, ConnTypeOK, Connection
<1>2. x.tcp # "none" /\ x.bound /\ x.listening
  BY <1>1 DEF Attached, StageInv, EntryInv
<1>3. x.port \in Port /\ x.port # NoPort /\ x.sess # NoSession
  BY <1>1, <1>2, PortAssumption DEF StageInv
<1> QED BY <1>1, <1>2, <1>3 DEF StageInv, EntryInv, OwnerInv

\* Whoever stops or drains a port misses nobody.
LEMMA StillAttached ==
    ASSUME ConnInv, NEW e \in External, Torn(e), Attached(e)'
    PROVE  /\ Attached(e) /\ ~Stopped(ext[e].port)
           /\ ext[e].at # "register" => ext'[e].registered /\ ~Drained(ext[e].port)
<1> DEFINE x == ext[e]
<1>1. EntryInv(e) /\ StageInv(e)
  BY DEF ConnInv
<1>2. CASE x.at = "register" /\ ext'[e].listening
  <2>1. Attached(e) /\ x.listening
    BY <1>2 DEF Torn, Attached
  <2>2. x.port # NoPort
    BY <2>1, AttachedFacts
  <2> QED BY <1>2, <2>1, <2>2 DEF Torn
<1>3. CASE x.at \in {"recheck", "idle"} /\ ext'[e].tcp = "up" /\ x.bound
  <2>1. x.tcp = "up"
    BY <1>3 DEF Torn, Closing
  <2>2. Attached(e)
    BY <1>3, <2>1 DEF Attached
  <2>3. x.registered /\ x.port # NoPort
    BY <1>1, <1>3, <2>2, AttachedFacts DEF EntryInv
  <2>4. ~Hit(x.port)
    BY <1>3, <2>1, <2>3 DEF Torn, Closing
  <2> QED BY <2>2, <2>3, <2>4 DEF Torn, Hit
<1> QED BY <1>2, <1>3 DEF Attached, Torn

LEMMA TornKeeps ==
    ASSUME ConnInv, Inv', Effect, NEW e \in External, Torn(e)
    PROVE  StageInv(e)' /\ EntryInv(e)' /\ OwnerInv(e)'
<1> DEFINE x == ext[e]
<1>1. StageInv(e) /\ EntryInv(e) /\ OwnerInv(e) /\ x \in Connection /\ TypeOK
  BY DEF ConnInv, ConnTypeOK
<1>2. ext'[e].tcp = x.tcp \/ (x.tcp = "up" /\ ext'[e].tcp = "closing")
  BY DEF Torn, Closing
<1>3. StageInv(e)'
  BY <1>1, <1>2 DEF StageInv, Torn
<1>4. x.sess \in SessionId \cup {NoSession} /\ (x.port # NoPort => x.port \in Port)
  BY <1>1 DEF Connection
<1>5. x.sess # NoSession => sess'[x.sess].device = x.device
  BY <1>1, <1>4, NoneAssumption DEF StageInv, EntryInv, Effect
<1>6. ext'[e].listening => listener'[x.port] = x.owner
  <2> SUFFICES ASSUME ext'[e].listening PROVE listener'[x.port] = x.owner
    OBVIOUS
  <2>1. x.listening /\ x.tcp # "none" /\ x.port \in Port /\ x.port # NoPort /\ x.owner \in Device
    BY <1>1, PortAssumption DEF Torn, StageInv
  <2>2. ~Stopped(x.port) /\ listener[x.port] = x.owner
    BY <1>1, <2>1 DEF Torn, EntryInv
  <2> QED BY <2>1, <2>2, NoneAssumption DEF Effect, Stopped
<1>7. Attached(e)' => ext'[e].listening /\ (x.at # "register" => ext'[e].registered)
  <2> SUFFICES ASSUME Attached(e)'
               PROVE  ext'[e].listening /\ (x.at # "register" => ext'[e].registered)
    OBVIOUS
  <2>1. Attached(e) /\ ~Stopped(x.port) /\ (x.at # "register" => ext'[e].registered)
    BY StillAttached
  <2> QED BY <2>1, AttachedFacts DEF Torn
<1>8. x.cleaned /\ x.sess # NoSession /\ chan'[ChannelOf(x.sess)] \in {"open", "closing"}
         => x.notified \/ x.byClient
  <2>1. x.sess # NoSession => ChannelOf(x.sess) \in Channel
    BY <1>4 DEF SessionId, ChannelOf
  <2>2. \A k \in Channel : IsActive(k)' => IsActive(k)
    BY DEF Effect
  <2> QED BY <1>1, <2>1, <2>2 DEF EntryInv, IsActive
<1>9. EntryInv(e)'
  BY <1>1, <1>2, <1>5, <1>6, <1>7, <1>8 DEF EntryInv, Torn, IsActive, ChannelOf
<1>10. OwnerInv(e)'
  BY <1>1, StillAttached DEF OwnerInv, Torn, Moved
<1> QED BY <1>3, <1>9, <1>10

LEMMA QuietKept ==
    ASSUME TypeOK, Effect, NEW d \in Device, Quiet(d)'
    PROVE  Quiet(d)
<1> SUFFICES ASSUME NEW t \in SessionId, sess[t].device = d, ChannelOf(t) \in Beating
             PROVE  t = sessionMap[d]
  BY DEF Quiet
<1>1. sess'[t].device = d
  BY NoneAssumption DEF Effect
<1>2. t = sessionMap'[d]
  BY <1>1 DEF Quiet
<1> QED BY <1>1, <1>2, NoSessionAssumption, NoneAssumption DEF Effect

-----------------------------------------------------------------------------
(* The port of the current session, and the connections that are there. *)

\* A session that is current after a step was so before.
LEMMA CurrentBefore ==
    ASSUME TypeOK, Effect, NEW d \in Device, NEW s \in SessionId, sess[s].device = d,
           sessionMap'[d] = s
    PROVE  sessionMap[d] = s
BY NoSessionAssumption, NoneAssumption DEF Effect

LEMMA PortKept ==
    ASSUME ConnInv, [Next]_vars, Effect, NEW e \in External, Torn(e)
    PROVE  PortInv(e)'
<1> DEFINE x == ext[e]
           d == x.device
           s == x.sess
<1> SUFFICES ASSUME Attached(e)', ~ext'[e].moved, sessionMap'[d] = s
             PROVE  AtPort(e)'
  BY DEF PortInv, Torn
<1>1. Inv /\ TypeOK /\ PortInv(e)
  BY DEF ConnInv, ConnTypeOK
<1>2. Attached(e) /\ ~Stopped(x.port) /\ ~x.moved
  BY StillAttached DEF Torn, Moved
<1>3. /\ x.port \in Port /\ d \in Device /\ s \in SessionId /\ s # NoSession
      /\ sess[s].device = d /\ listener[x.port] = d
  BY <1>2, AttachedFacts
<1>4. sessionMap[d] = s
  BY <1>1, <1>3, CurrentBefore
<1>5. AtPort(e)
  BY <1>1, <1>2, <1>4 DEF PortInv
<1>6. ext'[e].port = x.port /\ ext'[e].device = d /\ ext'[e].sess = s
  BY DEF Torn
<1>7. ASSUME NEW a \in Actor, task[a].device = d, task'[a].at = "stopOld", task'[a].device = d,
             x.port = task'[a].old
      PROVE  AtPort(e)'
  BY <1>6, <1>7 DEF AtPort
<1>8. CASE Steady
  <2>1. sess'[s].port = sess[s].port
    BY <1>3, <1>8, NoneAssumption DEF Steady
  <2>2. ASSUME NEW a \in Actor, task[a].at \in {"move", "stopOld"} PROVE task'[a] = task[a]
    BY <1>8, <2>2 DEF Steady
  <2> QED BY <1>5, <1>6, <2>1, <2>2 DEF AtPort
<1>9. ASSUME NEW a \in Actor, UpdateMove(a) PROVE AtPort(e)'
  <2> DEFINE f == task[a].device
  <2>1. f \in Device
    BY <1>1, <1>9, AtWork DEF UpdateMove
  <2>2. /\ Moves(a) /\ task[a].at = "move" /\ task'[a].at = "stopOld" /\ task'[a].device = f
        /\ task'[a].old = task[a].old /\ task[a].port = reserved[f]
        /\ \A t \in SessionId : t # sessionMap[f] => sess'[t] = sess[t]
        /\ sessionMap[f] # NoSession => sess'[sessionMap[f]].port = task[a].port
    BY <1>1, <1>9, <2>1, UpdateMoveFacts
  <2>3. CASE f = d
    <3>1. sess'[s].port = task[a].port
      BY <1>3, <1>4, <2>2, <2>3
    <3>2. CASE x.port = task[a].port
      BY <1>6, <3>1, <3>2 DEF AtPort
    <3>3. CASE x.port = task[a].old
      BY <1>7, <2>2, <2>3, <3>3
    <3>4. \A b \in Actor : task[b].at \in {"move", "stopOld"} /\ task[b].device = d => b = a
      BY <1>1, <2>2, <2>3, Alone DEF HasLock
    <3>5. sess[s].port \in {task[a].port, task[a].old}
      BY <1>1, <1>3, <1>4, <2>2, <2>3, <3>4 DEF Inv, SessionInv
    <3>6. x.port \in {task[a].port, task[a].old}
      BY <1>5, <3>4, <3>5 DEF AtPort
    <3> QED BY <3>2, <3>3, <3>6
  <2>4. CASE f # d
    <3>1. sess'[s] = sess[s]
      <4>1. sessionMap[f] # s
        BY <1>1, <1>3, <2>1, <2>4 DEF Inv, SessionInv
      <4> QED BY <1>3, <2>2, <4>1
    <3>2. ASSUME NEW b \in Actor, task[b].device = d PROVE task'[b] = task[b]
      BY <2>2, <2>4, <3>2 DEF Moves
    <3> QED BY <1>5, <1>6, <3>1, <3>2 DEF AtPort
  <2> QED BY <2>3, <2>4
<1>10. ASSUME NEW a \in Actor, UpdateStopOld(a) PROVE AtPort(e)'
  <2>1. /\ Moves(a) /\ UNCHANGED <<sess, sessionMap>> /\ task[a].at = "stopOld"
        /\ StopPort(task[a].old, task[a].device)
    BY <1>1, <1>10, UpdateStopOldFacts
  <2>2. ~(task[a].device = d /\ x.port = task[a].old)
    BY <1>2, <1>3, <2>1, NoneAssumption DEF StopPort, Stopped
  <2>3. ASSUME NEW b \in Actor, task[b].at = "move" \/ b # a PROVE task'[b] = task[b]
    BY <2>1, <2>3 DEF Moves
  <2> QED BY <1>5, <1>6, <2>1, <2>2, <2>3 DEF AtPort
<1>11. Steady \/ \E a \in Actor : UpdateMove(a) \/ UpdateStopOld(a)
  <2>1. Plain => Steady
    BY DEF Plain, Steady
  <2>2. ASSUME NEW c \in Channel, Retire(c) \/ Drain(c) \/ Install(c) PROVE Steady
    <3>1. task[c].device \in Device
      BY <1>1, <2>2, AtWork DEF Retire, Drain, Install, Actor
    <3> QED BY <1>1, <2>2, <3>1, RetireFacts, DrainFacts, InstallFacts
  <2>3. ASSUME NEW a \in Actor, Remove(a) \/ Stop(a) PROVE Steady
    <3>1. task[a].device \in Device
      BY <1>1, <2>3, AtWork DEF Remove, Stop
    <3> QED BY <1>1, <2>3, <3>1, RemoveFacts, StopFacts
  <2> QED BY <1>1, <2>1, <2>2, <2>3, Cases
<1> QED BY <1>8, <1>9, <1>10, <1>11

LEMMA HoldKept ==
    ASSUME ConnInv, [Next]_vars, Effect, NEW e \in External, Torn(e)
    PROVE  HoldInv(e)'
<1> DEFINE x == ext[e]
<1>0. PICK d, s : d = x.device /\ s = x.sess
  OBVIOUS
<1> SUFFICES ASSUME Open(e)', ~ext'[e].moved, Quiet(d)'
             PROVE  \/ Removed(e)'
                    \/ /\ sessionMap'[d] = s
                       /\ Doing(d, {"install"})' => ChannelOf(s) \in Beating
  <2>1. ext'[e].device = d /\ ext'[e].sess = s
    BY <1>0 DEF Torn
  <2> QED BY <2>1 DEF HoldInv, Quiet, Doing, ChannelOf
<1>1. Inv /\ TypeOK /\ HoldInv(e) /\ PortInv(e)
  BY DEF ConnInv, ConnTypeOK
<1>2. Attached(e) /\ ~Stopped(x.port) /\ ~Drained(x.port) /\ ~x.moved /\ Open(e)
  <2>1. Attached(e)'
    BY DEF Open, Attached
  <2>2. x.at = "idle" /\ x.bound
    BY DEF Open, Torn
  <2>3. Attached(e) /\ ~Stopped(x.port) /\ ~Drained(x.port)
    BY <2>1, <2>2, StillAttached
  <2> QED BY <2>2, <2>3 DEF Torn, Moved, Open, Attached
<1>3. /\ x.port \in Port /\ d \in Device /\ s \in SessionId /\ s # NoSession
      /\ sess[s].device = d /\ listener[x.port] = d
  BY <1>0, <1>2, AttachedFacts
<1>4. Quiet(d)
  BY <1>1, <1>3, QuietKept
<1>5. \/ Removed(e)
      \/ sessionMap[d] = s /\ (Doing(d, {"install"}) => ChannelOf(s) \in Beating)
  BY <1>0, <1>1, <1>2, <1>4 DEF HoldInv
<1>6. ext'[e].port = x.port /\ ext'[e].device = d /\ ext'[e].sess = s /\ sess'[s].device = d
  BY <1>0, <1>3, NoneAssumption DEF Torn, Effect
\* One that is being removed.
<1>7. ASSUME NEW a \in Actor, task[a].at = "stop", task[a].device = d, task[a].sess = s,
             x.port = sess[s].port
      PROVE  Removed(e)'
  <2>1. ASSUME task'[a] = task[a], sess'[s].port = sess[s].port PROVE Removed(e)'
    BY <1>6, <1>7, <2>1 DEF Removed
  <2>2. sessionMap[d] = NoSession
    BY <1>1, <1>7 DEF Inv, TaskInv, RemoveInv
  <2>3. CASE Plain
    BY <1>7, <2>1, <2>3 DEF Plain
  <2>4. ASSUME NEW b \in Actor, b # a, Moves(b), Steady PROVE Removed(e)'
    BY <1>3, <2>1, <2>4, NoneAssumption DEF Moves, Steady
  <2>5. ASSUME NEW b \in Actor, Stop(b) PROVE Removed(e)'
    <3>1. CASE b = a
      <4>1. StopPort(x.port, d)
        BY <1>1, <1>7, <2>5, <3>1, StopFacts
      <4> QED BY <1>2, <1>3, <4>1, NoneAssumption DEF StopPort, Stopped
    <3>2. CASE b # a
      BY <1>1, <2>4, <2>5, <3>2, StopFacts
    <3> QED BY <3>1, <3>2
  <2>6. ASSUME NEW b \in Actor, UpdateStopOld(b) PROVE Removed(e)'
    <3>1. Moves(b) /\ UNCHANGED sess /\ task[b].at = "stopOld"
      BY <1>1, <2>6, UpdateStopOldFacts
    <3> QED BY <1>7, <2>1, <3>1 DEF Moves
  <2>7. ASSUME NEW b \in Actor, UpdateMove(b) PROVE Removed(e)'
    <3> DEFINE f == task[b].device
    <3>1. f \in Device
      BY <1>1, <2>7, AtWork DEF UpdateMove
    <3>2. /\ Moves(b) /\ task[b].at = "move"
          /\ \A t \in SessionId : t # sessionMap[f] => sess'[t] = sess[t]
      BY <1>1, <2>7, <3>1, UpdateMoveFacts
    <3>3. sessionMap[f] # s
      BY <1>1, <1>3, <2>2, <3>1 DEF Inv, SessionInv
    <3> QED BY <1>3, <1>7, <2>1, <3>2, <3>3 DEF Moves
  <2>8. ASSUME NEW b \in Actor, Remove(b) PROVE Removed(e)'
    <3>1. task[b].device \in Device
      BY <1>1, <2>8, AtWork DEF Remove
    <3>2. Moves(b) /\ Steady /\ task[b].at = "remove"
      BY <1>1, <2>8, <3>1, RemoveFacts
    <3> QED BY <1>7, <2>4, <3>2
  <2>9. ASSUME NEW c \in Channel, Retire(c) \/ Drain(c) \/ Install(c) PROVE Removed(e)'
    <3>1. task[c].device \in Device /\ c \in Actor
      BY <1>1, <2>9, AtWork DEF Retire, Drain, Install, Actor
    <3>2. Moves(c) /\ Steady /\ task[c].at \in {"retire", "drain", "install"}
      BY <1>1, <2>9, <3>1, RetireFacts, DrainFacts, InstallFacts
    <3> QED BY <1>7, <2>4, <3>1, <3>2
  <2> QED BY <1>1, <2>3, <2>5, <2>6, <2>7, <2>8, <2>9, Cases
\* One of the current session.
<1>8. ASSUME sessionMap[d] = s, Doing(d, {"install"}) => ChannelOf(s) \in Beating
      PROVE  \/ Removed(e)'
             \/ /\ sessionMap'[d] = s
                /\ Doing(d, {"install"})' => ChannelOf(s) \in Beating
  <2>1. AtPort(e)
    BY <1>0, <1>1, <1>2, <1>8 DEF PortInv
  <2>2. ASSUME sessionMap'[d] = s,
               \A b \in Actor : task'[b].at = "install" /\ task'[b].device = d => task'[b] = task[b]
        PROVE  sessionMap'[d] = s /\ (Doing(d, {"install"})' => ChannelOf(s) \in Beating)
    BY <1>8, <2>2 DEF Doing
  <2>3. CASE Plain
    BY <1>8, <2>2, <2>3 DEF Plain
  <2>4. ASSUME NEW b \in Actor, Moves(b), sessionMap'[d] = s,
               task'[b].at # "install" \/ task'[b].device # d
        PROVE  sessionMap'[d] = s /\ (Doing(d, {"install"})' => ChannelOf(s) \in Beating)
    BY <2>2, <2>4 DEF Moves
  <2>5. ASSUME NEW b \in Actor, Stop(b) \/ UpdateStopOld(b)
        PROVE  sessionMap'[d] = s /\ (Doing(d, {"install"})' => ChannelOf(s) \in Beating)
    BY <1>1, <1>8, <2>4, <2>5, StopFacts, UpdateStopOldFacts
  <2>6. ASSUME NEW b \in Actor, UpdateMove(b)
        PROVE  sessionMap'[d] = s /\ (Doing(d, {"install"})' => ChannelOf(s) \in Beating)
    <3>1. task[b].device \in Device
      BY <1>1, <2>6, AtWork DEF UpdateMove
    <3> QED BY <1>1, <1>8, <2>4, <2>6, <3>1, UpdateMoveFacts
  \* Nobody else is at work on the device of whoever holds its stripe.
  <2>7. ASSUME NEW b \in Actor, HasLock(b), task[b].device = d,
               task[b].at \notin {"move", "stopOld"}
        PROVE  x.port = sess[s].port /\ sess[s].port = reserved[d]
    <3>1. \A a \in Actor : ~(task[a].device = d /\ task[a].at \in {"move", "stopOld"})
      BY <1>1, <2>7, Alone DEF HasLock
    <3> QED BY <1>1, <1>3, <1>8, <2>1, <3>1, <1>0 DEF AtPort, Inv, SessionInv
  <2>8. ASSUME NEW c \in Channel, Retire(c)
        PROVE  sessionMap'[d] = s /\ (Doing(d, {"install"})' => ChannelOf(s) \in Beating)
    <3> DEFINE f == task[c].device
    <3>1. f \in Device /\ c \in Actor
      BY <1>1, <2>8, AtWork DEF Retire, Actor
    <3>2. /\ Moves(c) /\ UNCHANGED sessionMap /\ task'[c].device = f
          /\ sessionMap[f] # NoSession => task'[c].at = "drain"
      BY <1>1, <2>8, <3>1, RetireFacts
    <3> QED BY <1>3, <1>8, <2>4, <3>1, <3>2
  <2>9. ASSUME NEW c \in Channel, Drain(c)
        PROVE  sessionMap'[d] = s /\ (Doing(d, {"install"})' => ChannelOf(s) \in Beating)
    <3> DEFINE f == task[c].device
    <3>1. f \in Device /\ c \in Actor
      BY <1>1, <2>9, AtWork DEF Drain, Actor
    <3>2. /\ Moves(c) /\ UNCHANGED sessionMap /\ task[c].at = "drain" /\ task'[c].device = f
          /\ Drained(task[c].port)
      BY <1>1, <2>9, <3>1, DrainFacts
    <3>3. task[c].port = reserved[f]
      BY <1>1, <3>1, <3>2 DEF Inv, TaskInv, RegisterInv, RegisterSteps
    <3>4. f # d
      BY <1>2, <2>7, <3>1, <3>2, <3>3 DEF HasLock
    <3> QED BY <1>8, <2>4, <3>1, <3>2, <3>4
  <2>10. ASSUME NEW c \in Channel, Install(c)
         PROVE  sessionMap'[d] = s /\ (Doing(d, {"install"})' => ChannelOf(s) \in Beating)
    <3> DEFINE f == task[c].device
    <3>1. f \in Device /\ c \in Actor
      BY <1>1, <2>10, AtWork DEF Install, Actor
    <3>2. /\ Moves(c) /\ task[c].at = "install" /\ task'[c].at = "idle"
          /\ sessionMap'[f] \in SessionId /\ sess[sessionMap'[f]].device = NoDevice
          /\ \A g \in Device \ {f} : sessionMap'[g] = sessionMap[g]
      BY <1>1, <2>10, <3>1, InstallFacts
    <3>3. f # d
      <4> SUFFICES ASSUME f = d PROVE FALSE
        OBVIOUS
      <4>1. ChannelOf(s) \in Beating
        BY <1>8, <3>1, <3>2 DEF Doing
      <4>2. s = sessionMap'[d]
        BY <1>3, <1>6, <4>1 DEF Quiet
      <4> QED BY <1>3, <3>2, <4>2, NoneAssumption
    <3>4. sessionMap'[d] = s
      BY <1>3, <1>8, <3>2, <3>3
    <3> QED BY <2>4, <3>1, <3>2, <3>4
  <2>11. ASSUME NEW b \in Actor, Remove(b)
         PROVE  \/ Removed(e)'
                \/ sessionMap'[d] = s /\ (Doing(d, {"install"})' => ChannelOf(s) \in Beating)
    <3> DEFINE f == task[b].device
    <3>1. f \in Device
      BY <1>1, <2>11, AtWork DEF Remove
    <3>2. /\ Moves(b) /\ Steady /\ task[b].at = "remove"
          /\ \/ Plain
             \/ /\ \A g \in Device \ {f} : sessionMap'[g] = sessionMap[g]
                /\ task'[b].at = "stop" /\ task'[b].device = f /\ task'[b].sess = sessionMap[f]
      BY <1>1, <2>11, <3>1, RemoveFacts
    <3>3. CASE Plain
      BY <2>3, <3>3
    <3>4. CASE ~Plain /\ f # d
      BY <1>3, <1>8, <2>4, <3>2, <3>4
    <3>5. CASE ~Plain /\ f = d
      <4>1. x.port = sess[s].port
        BY <2>7, <3>2, <3>5 DEF HasLock
      <4>2. sess'[s].port = sess[s].port
        BY <1>3, <3>2, NoneAssumption DEF Steady
      <4> QED BY <1>6, <1>8, <3>2, <3>5, <4>1, <4>2 DEF Removed
    <3> QED BY <3>3, <3>4, <3>5
  <2> QED BY <1>1, <2>3, <2>5, <2>6, <2>8, <2>9, <2>10, <2>11, Cases
<1> QED BY <1>0, <1>5, <1>7, <1>8 DEF Removed

LEMMA RetiredKept ==
    ASSUME ConnInv, [Next]_vars, Effect, NEW d \in Device
    PROVE  RetiredInv(d)'
<1> DEFINE s == sessionMap'[d]
<1> SUFFICES ASSUME Quiet(d)', Doing(d, {"drain", "install"})', s # NoSession,
                    ChannelOf(s) \notin Beating
             PROVE  sess'[s].status = "OFFLINE"
  BY DEF RetiredInv, ChannelOf
<1>1. Inv /\ TypeOK /\ RetiredInv(d) /\ Quiet(d)
  BY QuietKept DEF ConnInv, ConnTypeOK
<1>2. PICK b \in Actor : task'[b].at \in {"drain", "install"} /\ task'[b].device = d
  BY DEF Doing
<1>3. ASSUME s = sessionMap[d], Doing(d, {"drain", "install"}) PROVE sess'[s].status = "OFFLINE"
  <2>1. s \in SessionId /\ sess[s].device = d /\ sess[s].status = "OFFLINE"
    BY <1>1, <1>3 DEF RetiredInv, Inv, SessionInv, TypeOK
  <2>2. sess'[s].status \in {"ONLINE", "OFFLINE"}
    BY <2>1, NextKeeps, <1>1 DEF Inv, TypeOK, Session
  <2> QED BY <2>1, <2>2, NoneAssumption DEF Effect
<1>4. ASSUME NEW c \in Channel, Retire(c) PROVE sess'[s].status = "OFFLINE"
  <2> DEFINE f == task[c].device
  <2>1. f \in Device /\ c \in Actor
    BY <1>1, <1>4, AtWork DEF Retire, Actor
  <2>2. /\ Moves(c) /\ UNCHANGED sessionMap /\ task'[c].device = f
        /\ sessionMap[f] # NoSession => sess'[sessionMap[f]].status = "OFFLINE"
    BY <1>1, <1>4, <2>1, RetireFacts
  <2>3. CASE b = c
    BY <1>2, <2>2, <2>3
  <2>4. CASE b # c
    BY <1>2, <1>3, <2>2, <2>4 DEF Moves, Doing
  <2> QED BY <2>3, <2>4
<1>5. ASSUME NEW c \in Channel, Drain(c) PROVE sess'[s].status = "OFFLINE"
  <2> DEFINE f == task[c].device
  <2>1. f \in Device /\ c \in Actor
    BY <1>1, <1>5, AtWork DEF Drain, Actor
  <2>2. Moves(c) /\ UNCHANGED sessionMap /\ task'[c].device = f /\ task[c].at = "drain"
    BY <1>1, <1>5, <2>1, DrainFacts
  <2>3. Doing(d, {"drain", "install"})
    BY <1>2, <2>1, <2>2 DEF Moves, Doing
  <2> QED BY <1>3, <2>2, <2>3
<1>6. ASSUME NEW a \in Actor, Moves(a), task'[a].at \notin {"drain", "install"}
      PROVE  Doing(d, {"drain", "install"}) /\ b # a /\ task'[b] = task[b]
  BY <1>2, <1>6 DEF Moves, Doing
<1>7. ASSUME NEW c \in Channel, Install(c) PROVE sess'[s].status = "OFFLINE"
  <2> DEFINE f == task[c].device
  <2>1. f \in Device /\ c \in Actor
    BY <1>1, <1>7, AtWork DEF Install, Actor
  <2>2. /\ Moves(c) /\ task[c].at = "install" /\ task'[c].at = "idle"
        /\ \A g \in Device \ {f} : sessionMap'[g] = sessionMap[g]
    BY <1>1, <1>7, <2>1, InstallFacts
  <2>3. f # d
    <3>1. b # c /\ task'[b] = task[b]
      BY <1>6, <2>1, <2>2
    <3> QED BY <1>1, <1>2, <2>1, <2>2, <3>1, Alone DEF HasLock
  <2> QED BY <1>3, <1>6, <2>1, <2>2, <2>3
<1>8. ASSUME NEW a \in Actor, Remove(a) PROVE sess'[s].status = "OFFLINE"
  <2> DEFINE f == task[a].device
  <2>1. f \in Device
    BY <1>1, <1>8, AtWork DEF Remove
  <2>2. /\ Moves(a)
        /\ \/ Plain
           \/ /\ sessionMap'[f] = NoSession
              /\ \A g \in Device \ {f} : sessionMap'[g] = sessionMap[g]
              /\ task'[a].at = "stop"
    BY <1>1, <1>8, <2>1, RemoveFacts
  <2>3. CASE Plain
    BY <1>2, <1>3, <2>3 DEF Plain, Doing
  <2>4. CASE ~Plain
    BY <1>3, <1>6, <2>2, <2>4
  <2> QED BY <2>3, <2>4
<1>9. ASSUME NEW a \in Actor, Stop(a) \/ UpdateStopOld(a) PROVE sess'[s].status = "OFFLINE"
  BY <1>1, <1>3, <1>6, <1>9, StopFacts, UpdateStopOldFacts
<1>10. ASSUME NEW a \in Actor, UpdateMove(a) PROVE sess'[s].status = "OFFLINE"
  <2>1. task[a].device \in Device
    BY <1>1, <1>10, AtWork DEF UpdateMove
  <2>2. Moves(a) /\ UNCHANGED sessionMap /\ task'[a].at = "stopOld"
    BY <1>1, <1>10, <2>1, UpdateMoveFacts
  <2> QED BY <1>3, <1>6, <2>2
<1>11. CASE Plain
  BY <1>2, <1>3, <1>11 DEF Plain, Doing
<1> QED BY <1>1, <1>4, <1>5, <1>7, <1>8, <1>9, <1>10, <1>11, Cases

LEMMA EveryEffect ==
    ASSUME Inv, [Next]_vars
    PROVE  Effect
<1>1. ASSUME NEW c \in Channel, Retire(c) \/ Drain(c) \/ Install(c) PROVE Effect
  <2>1. task[c].device \in Device
    BY <1>1, AtWork DEF Retire, Drain, Install, Actor
  <2> QED BY <1>1, <2>1, RetireFacts, DrainFacts, InstallFacts
<1>2. ASSUME NEW a \in Actor, Remove(a) \/ Stop(a) \/ UpdateMove(a) \/ UpdateStopOld(a)
      PROVE  Effect
  <2>1. task[a].device \in Device
    BY <1>2, AtWork DEF Remove, Stop, UpdateMove, UpdateStopOld
  <2> QED BY <1>2, <2>1, RemoveFacts, StopFacts, UpdateMoveFacts, UpdateStopOldFacts
<1> QED BY <1>1, <1>2, Cases

LEMMA LifecycleKeeps ==
    ASSUME ConnInv, Lifecycle
    PROVE  ConnInv'
<1>1. Inv /\ ConnTypeOK /\ [Next]_vars /\ Teardown /\ UNCHANGED beat
  BY DEF ConnInv, Lifecycle
<1>2. Inv' /\ Effect
  BY <1>1, NextKeeps, EveryEffect
<1>3. ext' \in [External -> Connection] /\ \A e \in External : Torn(e)
  BY <1>1, TeardownEffect DEF ConnTypeOK
<1>4. ConnTypeOK'
  <2>1. TypeOK'
    BY <1>2 DEF Inv
  <2>2. \A e \in External : ext'[e].cleaned => ~ext'[e].bound /\ ~ext'[e].registered
    BY <1>1, <1>3 DEF ConnTypeOK, Torn
  <2> QED BY <1>1, <1>3, <2>1, <2>2 DEF ConnTypeOK
<1>5. \A e \in External : StageInv(e)' /\ EntryInv(e)' /\ OwnerInv(e)' /\ PortInv(e)' /\ HoldInv(e)'
  BY <1>1, <1>2, <1>3, TornKeeps, PortKept, HoldKept
<1>6. ASSUME NEW c \in Channel PROVE BeatInv(c)'
  <2>1. BeatInv(c) /\ beat[c] \in Beat
    BY <1>1 DEF ConnInv, ConnTypeOK
  <2>2. \A t \in SessionId : \A d \in Device : sess[t].device = d => sess'[t].device = d
    BY <1>2, NoneAssumption DEF Effect
  <2>3. beat[c].sess # NoSession => beat[c].sess \in SessionId
    BY <2>1 DEF Beat
  <2>4. beat[c].device # NoDevice \/ beat[c].sess # NoSession => beat[c].device \in Device
    BY <2>1 DEF BeatInv, NoBeat
  <2> QED BY <1>1, <2>1, <2>2, <2>3, <2>4 DEF BeatInv, ChannelOf
<1>7. \A d \in Device : RetiredInv(d)'
  BY <1>1, <1>2, RetiredKept
<1> QED BY <1>2, <1>4, <1>5, <1>6, <1>7 DEF ConnInv

-----------------------------------------------------------------------------
(* Heartbeats. *)

\* The lifecycle does not mind a session that is set ONLINE.
LEMMA OnlineKeeps ==
    ASSUME Inv, NEW s \in SessionId, sess' = [sess EXCEPT ![s].status = "ONLINE"],
           UNCHANGED <<chan, inputs, sessionMap, channelToDevice, listener, mapping, banned,
                       told, task>>
    PROVE  /\ Inv'
           /\ \A t \in SessionId : /\ sess'[t].device = sess[t].device
                                   /\ sess'[t].port = sess[t].port
                                   /\ t # s => sess'[t].status = sess[t].status
<1>1. TypeOK
  BY DEF Inv
<1>2. /\ sess' \in [SessionId -> Session] /\ sess'[s].status = "ONLINE"
      /\ \A t \in SessionId : /\ sess'[t].device = sess[t].device
                              /\ sess'[t].port = sess[t].port
                              /\ t # s => sess'[t].status = sess[t].status
  BY <1>1 DEF TypeOK, Session
<1>3. TypeOK' /\ Exclusion'
  BY <1>1, <1>2 DEF TypeOK, Inv, Exclusion, HasLock, HasPort, inputs, mapping
<1>4. ASSUME NEW a \in Actor PROVE TaskInv(a)'
  <2> DEFINE d == task[a].device
  <2>1. TaskInv(a)
    BY DEF Inv
  <2>2. task[a].at \in RegisterSteps => RegisterInv(a, d)'
    BY <1>2, <2>1 DEF TaskInv, RegisterInv, Live, IsActive, inputs, mapping, SessionId
  <2>3. task[a].at \in UpdateSteps => UpdateInv(a, d)'
    BY <2>1 DEF TaskInv, UpdateInv, Live, IsActive, mapping
  <2>4. task[a].at = "enter" => EnterInv(a, d)'
    BY <1>2, <2>1 DEF TaskInv, EnterInv
  <2>5. task[a].at \in {"remove", "stop", "offline", "release"} => RemoveInv(a, d)'
    BY <2>1 DEF TaskInv, RemoveInv
  <2> QED BY <2>1, <2>2, <2>3, <2>4, <2>5 DEF TaskInv
<1>5. ASSUME NEW d \in Device PROVE SessionInv(d)' /\ BanInv(d)'
  <2>1. SessionInv(d) /\ BanInv(d) /\ sessionMap[d] \in SessionId \cup {NoSession}
    BY <1>1 DEF Inv, TypeOK
  <2>2. sessionMap[d] # NoSession /\ sess[sessionMap[d]].status = "ONLINE"
           => sess'[sessionMap[d]].status = "ONLINE"
    BY <1>2, <2>1
  <2> QED BY <1>2, <2>1, <2>2 DEF SessionInv, BanInv, Live, IsActive, Doing, mapping
<1>6. \A c \in Channel : ChannelInv(c)'
  BY DEF Inv, ChannelInv, SessionByChannel
<1>7. FreshInv'
  BY <1>2 DEF Inv, FreshInv, inputs
<1> QED BY <1>2, <1>3, <1>4, <1>5, <1>6, <1>7 DEF Inv

LEMMA HeartbeatSetKeeps ==
    ASSUME ConnInv, NEW c \in Beating, HeartbeatSet(c)
    PROVE  ConnInv'
<1> DEFINE s == beat[c].sess
<1>1. /\ Inv /\ ConnTypeOK /\ c \in Channel /\ BeatInv(c) /\ beat[c] \in Beat /\ s # NoSession
      /\ beat' = [beat EXCEPT ![c] = NoBeat]
      /\ sess' = [sess EXCEPT ![s].status = "ONLINE"]
      /\ UNCHANGED <<chan, inputs, sessionMap, channelToDevice, listener, mapping, banned, told,
                     task, ext>>
  BY BeatingAssumption DEF ConnInv, ConnTypeOK, HeartbeatSet
<1>2. s \in SessionId /\ sess[s].device = beat[c].device /\ beat[c].device \in Device
  BY <1>1 DEF BeatInv, Beat, NoBeat
<1>3. /\ Inv'
      /\ \A t \in SessionId : /\ sess'[t].device = sess[t].device /\ sess'[t].port = sess[t].port
                              /\ t # s => sess'[t].status = sess[t].status
  BY <1>1, <1>2, OnlineKeeps
<1>4. beat' \in [Channel -> Beat] /\ beat'[c] = NoBeat /\ \A k \in Channel \ {c} : beat'[k] = beat[k]
  BY <1>1 DEF ConnTypeOK, Beat, NoBeat
<1>5. ConnTypeOK'
  <2>1. TypeOK'
    BY <1>3 DEF Inv
  <2> QED BY <1>1, <1>4, <2>1 DEF ConnTypeOK
<1>6. ASSUME NEW e \in External
      PROVE  StageInv(e)' /\ EntryInv(e)' /\ OwnerInv(e)' /\ PortInv(e)' /\ HoldInv(e)'
  <2>1. /\ StageInv(e) /\ EntryInv(e) /\ OwnerInv(e) /\ PortInv(e) /\ HoldInv(e)
        /\ ext[e].sess \in SessionId \cup {NoSession}
    BY <1>1 DEF ConnInv, ConnTypeOK, Connection
  <2>2. Attached(e)' = Attached(e) /\ Open(e)' = Open(e)
    BY <1>1 DEF Attached, Open
  <2>3. StageInv(e)' /\ OwnerInv(e)'
    BY <1>1, <2>1, <2>2 DEF StageInv, OwnerInv, mapping
  <2>4. EntryInv(e)'
    BY <1>1, <1>3, <2>1, <2>2 DEF EntryInv, IsActive
  <2>5. Attached(e) \/ Open(e) => ext[e].sess \in SessionId
    BY <2>1 DEF StageInv, Attached, Open
  <2>6. PortInv(e)'
    BY <1>1, <1>3, <2>1, <2>2, <2>5 DEF PortInv, AtPort
  <2>7. Quiet(ext[e].device)' => Quiet(ext[e].device)
    BY <1>1, <1>3 DEF Quiet
  <2>8. HoldInv(e)'
    BY <1>1, <1>3, <2>1, <2>2, <2>5, <2>7 DEF HoldInv, Removed, Doing
  <2> QED BY <2>3, <2>4, <2>6, <2>8
<1>7. ASSUME NEW k \in Channel PROVE BeatInv(k)'
  <2>1. BeatInv(k) /\ beat[k] \in Beat
    BY <1>1 DEF ConnInv, ConnTypeOK
  <2>2. CASE k = c
    BY <1>4, <2>2 DEF BeatInv, NoBeat
  <2>3. CASE k # c
    BY <1>3, <1>4, <2>1, <2>3 DEF BeatInv, Beat
  <2> QED BY <2>2, <2>3
<1>8. ASSUME NEW d \in Device PROVE RetiredInv(d)'
  <2>1. RetiredInv(d) /\ (sessionMap[d] # NoSession =>
           sessionMap[d] \in SessionId /\ sess[sessionMap[d]].device = d)
    BY <1>1 DEF ConnInv, Inv, SessionInv, ConnTypeOK, TypeOK
  <2>2. Quiet(d)' => Quiet(d)
    BY <1>1, <1>3 DEF Quiet
  <2>3. Quiet(d) /\ s = sessionMap[d] => ChannelOf(s) \in Beating
    <3>1. PICK t \in SessionId : ChannelOf(t) = c /\ sess[t].device = beat[c].device
      BY <1>1, <1>2, NoneAssumption DEF BeatInv
    <3> QED BY <1>2, <2>1, <3>1, NoSessionAssumption DEF Quiet
  <2>4. CASE s = sessionMap[d]
    BY <1>1, <2>2, <2>3, <2>4 DEF RetiredInv
  <2>5. CASE s # sessionMap[d]
    BY <1>1, <1>3, <2>1, <2>2, <2>5 DEF RetiredInv, Doing
  <2> QED BY <2>4, <2>5
<1> QED BY <1>3, <1>5, <1>6, <1>7, <1>8 DEF ConnInv

\* What a step that leaves the lifecycle alone does not disturb.
LEMMA Undisturbed ==
    ASSUME ConnInv, UNCHANGED vars
    PROVE  /\ Inv' /\ TypeOK'
           /\ \A d \in Device : RetiredInv(d)'
           /\ \A e \in External : ext'[e] = ext[e] =>
                 StageInv(e)' /\ EntryInv(e)' /\ OwnerInv(e)' /\ PortInv(e)' /\ HoldInv(e)'
           /\ \A c \in Channel : beat'[c] = beat[c] => BeatInv(c)'
<1>1. Inv'
  BY NextKeeps DEF ConnInv
<1>2. UNCHANGED <<chan, sess, sessionMap, listener, reserved, task>>
  BY DEF vars, store, mapping
<1>3. ASSUME NEW d \in Device PROVE RetiredInv(d)'
  BY <1>2 DEF ConnInv, RetiredInv, Quiet, Doing
<1>4. ASSUME NEW e \in External, ext'[e] = ext[e]
      PROVE  StageInv(e)' /\ EntryInv(e)' /\ OwnerInv(e)' /\ PortInv(e)' /\ HoldInv(e)'
  <2>1. StageInv(e) /\ EntryInv(e) /\ OwnerInv(e) /\ PortInv(e) /\ HoldInv(e)
    BY DEF ConnInv
  <2>2. Attached(e)' = Attached(e) /\ Open(e)' = Open(e)
    BY <1>4 DEF Attached, Open
  <2>3. StageInv(e)' /\ EntryInv(e)' /\ OwnerInv(e)'
    BY <1>2, <1>4, <2>1, <2>2 DEF StageInv, EntryInv, OwnerInv, IsActive
  <2>4. PortInv(e)'
    BY <1>2, <1>4, <2>1, <2>2 DEF PortInv, AtPort
  <2>5. HoldInv(e)'
    BY <1>2, <1>4, <2>1, <2>2 DEF HoldInv, Removed, Quiet, Doing
  <2> QED BY <2>3, <2>4, <2>5
<1>5. ASSUME NEW c \in Channel, beat'[c] = beat[c] PROVE BeatInv(c)'
  BY <1>2, <1>5 DEF ConnInv, BeatInv
<1> QED BY <1>1, <1>3, <1>4, <1>5 DEF Inv

LEMMA HeartbeatKeeps ==
    ASSUME ConnInv, NEW c \in Beating, Heartbeat(c)
    PROVE  ConnInv'
<1>1. c \in Channel /\ ConnTypeOK /\ BeatInv(c) /\ TypeOK /\ beat[c] \in Beat
  BY BeatingAssumption DEF ConnInv, ConnTypeOK
<1>2. ASSUME NEW b \in Beat, beat' = [beat EXCEPT ![c] = b], UNCHANGED <<vars, ext>>,
             b # NoBeat => /\ b.device \in Device
                           /\ \E t \in SessionId : ChannelOf(t) = c /\ sess[t].device = b.device
                           /\ b.sess # NoSession => sess[b.sess].device = b.device
      PROVE  ConnInv'
  <2>1. beat'[c] = b /\ beat' \in [Channel -> Beat] /\ \A k \in Channel \ {c} : beat'[k] = beat[k]
    BY <1>1, <1>2 DEF ConnTypeOK
  <2>2. /\ Inv' /\ TypeOK' /\ \A d \in Device : RetiredInv(d)'
        /\ \A e \in External :
              StageInv(e)' /\ EntryInv(e)' /\ OwnerInv(e)' /\ PortInv(e)' /\ HoldInv(e)'
        /\ \A k \in Channel \ {c} : BeatInv(k)'
    BY <1>2, <2>1, Undisturbed
  <2>3. BeatInv(c)'
    BY <1>2, <2>1 DEF BeatInv, NoBeat, vars, store
  <2>4. ConnTypeOK'
    BY <1>1, <1>2, <2>1, <2>2 DEF ConnTypeOK
  <2> QED BY <2>2, <2>3, <2>4 DEF ConnInv
<1>3. CASE HeartbeatRead(c)
  <2> DEFINE t == SessionByChannel(c)
             b == [NoBeat EXCEPT !.device = sess[t].device]
  <2>1. t \in SessionId /\ ChannelOf(t) = c /\ sess[t].device \in Device
    BY <1>1, <1>3 DEF HeartbeatRead, SessionByChannel, TypeOK, ConnInv, Inv, SessionInv
  <2>2. b \in Beat /\ b.device = sess[t].device /\ b.sess = NoSession
    BY <2>1 DEF Beat, NoBeat
  <2>3. beat' = [beat EXCEPT ![c] = b]
    BY <1>3 DEF HeartbeatRead
  <2> HIDE DEF b, t
  <2> QED BY <1>2, <1>3, <2>1, <2>2, <2>3 DEF HeartbeatRead
<1>4. CASE HeartbeatGet(c)
  <2> DEFINE s == sessionMap[beat[c].device]
             b == IF s = NoSession THEN NoBeat ELSE [beat[c] EXCEPT !.sess = s]
  <2>1. beat[c].device \in Device /\ s \in SessionId \cup {NoSession}
    BY <1>1, <1>4 DEF HeartbeatGet, Beat, TypeOK
  <2>2. s # NoSession => sess[s].device = beat[c].device
    BY <2>1 DEF ConnInv, Inv, SessionInv
  <2>3. \E t \in SessionId : ChannelOf(t) = c /\ sess[t].device = beat[c].device
    BY <1>1, <2>1, NoneAssumption DEF BeatInv
  <2>4. b \in Beat /\ (b # NoBeat => b.device = beat[c].device /\ b.sess = s)
    BY <1>1, <2>1 DEF Beat, NoBeat
  <2>5. beat' = [beat EXCEPT ![c] = b]
    BY <1>4 DEF HeartbeatGet
  <2> HIDE DEF b, s
  <2> QED BY <1>2, <1>4, <2>1, <2>2, <2>3, <2>4, <2>5 DEF HeartbeatGet
<1> QED BY <1>3, <1>4, HeartbeatSetKeeps DEF Heartbeat

-----------------------------------------------------------------------------
(* The steps of a connection. *)

LEMMA LoopKeeps ==
    ASSUME ConnInv, NEW e \in External, NEW y \in Connection, Loop(e, y),
           y.cleaned => ~y.bound /\ ~y.registered,
           StageInv(e)' /\ EntryInv(e)' /\ OwnerInv(e)' /\ PortInv(e)' /\ HoldInv(e)'
    PROVE  ConnInv'
<1>1. /\ ext' \in [External -> Connection] /\ ext'[e] = y
      /\ \A f \in External \ {e} : ext'[f] = ext[f]
      /\ UNCHANGED vars /\ UNCHANGED beat /\ ConnTypeOK
  BY DEF Loop, ConnInv, ConnTypeOK
<1>2. /\ Inv' /\ TypeOK' /\ \A d \in Device : RetiredInv(d)'
      /\ \A f \in External \ {e} :
            StageInv(f)' /\ EntryInv(f)' /\ OwnerInv(f)' /\ PortInv(f)' /\ HoldInv(f)'
      /\ \A c \in Channel : BeatInv(c)'
  BY <1>1, Undisturbed
<1>3. ConnTypeOK'
  BY <1>1, <1>2 DEF ConnTypeOK
<1> QED BY <1>2, <1>3 DEF ConnInv

\* The new record of a connection in a step of its own.
LEMMA LoopEffect ==
    ASSUME ConnInv, NEW e \in External, NEW y, Loop(e, y)
    PROVE  /\ ext'[e] = y /\ ext[e] \in Connection
           /\ UNCHANGED <<chan, sess, sessionMap, listener, reserved, task>>
           /\ StageInv(e) /\ EntryInv(e) /\ OwnerInv(e) /\ PortInv(e) /\ HoldInv(e)
           /\ ext[e].cleaned => ~ext[e].bound /\ ~ext[e].registered
BY DEF Loop, ConnInv, ConnTypeOK, vars, store, mapping

\* The same connection, up to how far it is and its entries.
Same(x, y) ==
    /\ y.port = x.port /\ y.owner = x.owner /\ y.device = x.device /\ y.sess = x.sess
    /\ y.listening = x.listening /\ y.moved = x.moved

\* Whoever ends a connection removes its entries or leaves them to the one who
\* already has, and then its device knows.
LEMMA EndKeeps ==
    ASSUME ConnInv, NEW e \in External, NEW y \in Connection, Loop(e, y),
           ext[e].tcp # "none", Same(ext[e], y),
           y.tcp \in {"closing", "down", "done"},
           y.at = "idle" \/ (y.at = "recheck" /\ y.bound /\ y.sess # NoSession),
           y.bound <=> y.sess # NoSession /\ ~y.cleaned,
           y.cleaned => ~y.registered,
           y.tcp = "done" => y.cleaned,
           y.cleaned /\ y.sess # NoSession /\ IsActive(ChannelOf(y.sess)) => y.notified \/ y.byClient
    PROVE  ConnInv'
<1>1. /\ ext'[e] = y /\ ext[e] \in Connection
      /\ UNCHANGED <<chan, sess, sessionMap, listener, reserved, task>>
      /\ StageInv(e) /\ EntryInv(e)
  BY LoopEffect
<1>2. ~Attached(e)' /\ ~Open(e)'
  BY <1>1 DEF Attached, Open
<1>3. StageInv(e)'
  BY <1>1 DEF StageInv, Same
<1>4. EntryInv(e)'
  BY <1>1, <1>2 DEF EntryInv, Same, IsActive
<1>5. OwnerInv(e)' /\ PortInv(e)' /\ HoldInv(e)'
  BY <1>1, <1>2 DEF OwnerInv, PortInv, HoldInv
<1> QED BY <1>3, <1>4, <1>5, LoopKeeps

\* A step of channelActive that goes on.
LEMMA AcceptKeeps ==
    ASSUME ConnInv, NEW e \in External, NEW p \in Port, Accept(e, p)
    PROVE  ConnInv'
<1> DEFINE x == ext[e]
           y == [x EXCEPT !.tcp = "up", !.at = "lookup", !.port = p, !.owner = listener[p],
                          !.listening = TRUE]
<1>1. Loop(e, y) /\ x.tcp = "none" /\ listener[p] # NoDevice
  BY DEF Accept
<1>2. /\ ext'[e] = y /\ x \in Connection
      /\ UNCHANGED <<chan, sess, sessionMap, listener, reserved, task>>
      /\ StageInv(e) /\ EntryInv(e)
  BY <1>1, LoopEffect
<1>3. listener[p] \in Device
  BY <1>1 DEF ConnInv, ConnTypeOK, TypeOK
<1>4. /\ y \in Connection /\ y.tcp = "up" /\ y.at = "lookup" /\ y.port = p
      /\ y.owner = listener[p] /\ y.listening = TRUE
      /\ y.device = x.device /\ y.sess = x.sess /\ y.bound = x.bound
      /\ y.registered = x.registered /\ y.cleaned = x.cleaned
      /\ y.notified = x.notified /\ y.byClient = x.byClient /\ y.moved = x.moved
  BY <1>2, <1>3 DEF Connection
<1> HIDE DEF y
<1>5. /\ x.sess = NoSession /\ ~x.cleaned /\ ~x.registered /\ ~x.bound
  BY <1>1, <1>2 DEF StageInv
<1>6. ~Attached(e)' /\ ~Open(e)'
  BY <1>2, <1>4 DEF Attached, Open
<1>7. StageInv(e)'
  BY <1>2, <1>3, <1>4, <1>5 DEF StageInv
<1>8. EntryInv(e)'
  BY <1>2, <1>4, <1>5, <1>6 DEF EntryInv
<1>9. OwnerInv(e)' /\ PortInv(e)' /\ HoldInv(e)'
  BY <1>2, <1>4, <1>6 DEF OwnerInv, PortInv, HoldInv
<1> QED BY <1>1, <1>4, <1>5, <1>7, <1>8, <1>9, LoopKeeps

LEMMA LookupKeeps ==
    ASSUME ConnInv, NEW e \in External, Lookup(e)
    PROVE  ConnInv'
<1> DEFINE x == ext[e]
<1>0. ext[e] \in Connection /\ StageInv(e) /\ x.at = "lookup"
  BY DEF ConnInv, ConnTypeOK, Lookup
<1>1. x.tcp # "none" /\ x.sess = NoSession /\ ~x.cleaned /\ ~x.registered /\ ~x.bound
  BY <1>0 DEF StageInv
<1>2. ASSUME NEW d \in Device, reserved[d] = x.port,
             Loop(e, [ext[e] EXCEPT !.at = "bind", !.device = d])
      PROVE  ConnInv'
  <2> DEFINE y == [x EXCEPT !.at = "bind", !.device = d]
  <2>1. Loop(e, y)
    BY <1>2
  <2>2. /\ ext'[e] = y
        /\ UNCHANGED <<chan, sess, sessionMap, listener, reserved, task>> /\ EntryInv(e)
    BY <2>1, LoopEffect
  <2>3. /\ y \in Connection /\ y.at = "bind" /\ y.device = d
        /\ y.tcp = x.tcp /\ y.port = x.port /\ y.owner = x.owner /\ y.listening = x.listening
        /\ y.sess = x.sess /\ y.bound = x.bound
        /\ y.registered = x.registered /\ y.cleaned = x.cleaned
        /\ y.notified = x.notified /\ y.byClient = x.byClient /\ y.moved = x.moved
    BY <1>0 DEF Connection
  <2> HIDE DEF y
  <2>4. ~Attached(e)' /\ ~Open(e)'
    BY <2>2, <2>3 DEF Attached, Open
  <2>5. StageInv(e)'
    BY <1>0, <1>1, <2>2, <2>3 DEF StageInv
  <2>6. EntryInv(e)'
    BY <1>1, <2>2, <2>3, <2>4 DEF EntryInv
  <2>7. OwnerInv(e)' /\ PortInv(e)' /\ HoldInv(e)'
    BY <1>2, <2>2, <2>3, <2>4 DEF OwnerInv, PortInv, HoldInv
  <2> QED BY <1>1, <2>1, <2>3, <2>5, <2>6, <2>7, LoopKeeps
<1>3. CASE Loop(e, [ext[e] EXCEPT !.at = "idle", !.tcp = "down"])
  <2> DEFINE y == [x EXCEPT !.at = "idle", !.tcp = "down"]
  <2>1. /\ y \in Connection /\ y.at = "idle" /\ y.tcp = "down" /\ Same(x, y)
        /\ y.bound = x.bound /\ y.registered = x.registered /\ y.cleaned = x.cleaned
    BY <1>0 DEF Connection, Same
  <2>2. Loop(e, y)
    BY <1>3
  <2> HIDE DEF y
  <2> QED BY <1>1, <2>1, <2>2, EndKeeps DEF Same
<1> QED BY <1>2, <1>3 DEF Lookup

\* The session of the device that holds the port listens there, or an update is
\* moving it there and has started the listener.
LEMMA BindSessionKeeps ==
    ASSUME ConnInv, NEW e \in External, BindSession(e)
    PROVE  ConnInv'
<1> DEFINE x == ext[e]
           d == x.device
           s == sessionMap[d]
<1>0. /\ x \in Connection /\ StageInv(e) /\ EntryInv(e) /\ OwnerInv(e) /\ x.at = "bind"
      /\ Inv /\ TypeOK
  BY DEF ConnInv, ConnTypeOK, BindSession
<1>1. /\ x.tcp # "none" /\ x.sess = NoSession /\ ~x.cleaned /\ ~x.registered /\ ~x.bound
      /\ d \in Device
  BY <1>0 DEF StageInv
<1>2. CASE SessionActive(s) /\ Loop(e, [ext[e] EXCEPT !.at = "register", !.sess = s, !.bound = TRUE])
  <2> DEFINE y == [x EXCEPT !.at = "register", !.sess = s, !.bound = TRUE]
  <2>1. Loop(e, y)
    BY <1>2
  <2>2. ext'[e] = y /\ UNCHANGED <<chan, sess, sessionMap, listener, reserved, task>>
    BY <2>1, LoopEffect
  <2>3. s \in SessionId /\ s # NoSession /\ Live(s) /\ sess[s].device = d /\ SessionInv(d)
    BY <1>0, <1>1, <1>2 DEF SessionActive, Live, Inv, SessionInv, TypeOK
  <2>4. /\ y \in Connection /\ y.at = "register" /\ y.sess = s /\ y.bound = TRUE
        /\ y.tcp = x.tcp /\ y.port = x.port /\ y.owner = x.owner /\ y.listening = x.listening
        /\ y.device = d /\ y.registered = x.registered /\ y.cleaned = x.cleaned
        /\ y.notified = x.notified /\ y.byClient = x.byClient /\ y.moved = x.moved
    BY <1>0, <2>3 DEF Connection
  <2> HIDE DEF y
  <2>5. StageInv(e)'
    BY <1>0, <1>1, <2>2, <2>3, <2>4 DEF StageInv
  <2>6. EntryInv(e)'
    BY <1>0, <1>1, <2>2, <2>3, <2>4 DEF EntryInv, Attached
  <2>7. ~x.moved => reserved[d] = x.port
    BY <1>0 DEF OwnerInv
  <2>8. \/ sess[s].port = reserved[d] /\ listener[reserved[d]] = d
        \/ \E a \in Actor : /\ task[a].at = "move" /\ task[a].device = d
                            /\ task[a].port = reserved[d] /\ listener[reserved[d]] = d
    <3>1. CASE sess[s].port = reserved[d]
      BY <2>3, <3>1 DEF SessionInv
    <3>2. CASE \E a \in Actor : task[a].at = "move" /\ task[a].device = d
      <4>1. PICK a \in Actor : task[a].at = "move" /\ task[a].device = d
        BY <3>2
      <4>2. UpdateInv(a, d)
        BY <1>0, <4>1 DEF Inv, TaskInv, UpdateSteps
      <4> QED BY <2>3, <4>1, <4>2 DEF UpdateInv
    <3> QED BY <2>3, <3>1, <3>2 DEF SessionInv
  <2>9. OwnerInv(e)'
    BY <1>0, <2>2, <2>4, <2>7, <2>8 DEF OwnerInv, EntryInv, Attached
  <2>10. PortInv(e)'
    BY <2>2, <2>4, <2>7, <2>8 DEF PortInv, AtPort
  <2>11. HoldInv(e)'
    BY <2>2, <2>4 DEF HoldInv, Open
  <2> QED BY <1>1, <2>1, <2>4, <2>5, <2>6, <2>9, <2>10, <2>11, LoopKeeps
<1>3. CASE Loop(e, [ext[e] EXCEPT !.at = "idle", !.tcp = "down"])
  <2> DEFINE y == [x EXCEPT !.at = "idle", !.tcp = "down"]
  <2>1. /\ y \in Connection /\ y.at = "idle" /\ y.tcp = "down" /\ Same(x, y)
        /\ y.bound = x.bound /\ y.registered = x.registered /\ y.cleaned = x.cleaned
    BY <1>0 DEF Connection, Same
  <2>2. Loop(e, y)
    BY <1>3
  <2> HIDE DEF y
  <2> QED BY <1>1, <2>1, <2>2, EndKeeps DEF Same
<1> QED BY <1>2, <1>3 DEF BindSession

LEMMA RegisterConnectionKeeps ==
    ASSUME ConnInv, NEW e \in External, RegisterConnection(e)
    PROVE  ConnInv'
<1> DEFINE x == ext[e]
<1>0. x \in Connection /\ StageInv(e) /\ EntryInv(e) /\ OwnerInv(e) /\ PortInv(e) /\ x.at = "register"
  BY DEF ConnInv, ConnTypeOK, RegisterConnection
<1>1. x.tcp # "none" /\ x.sess # NoSession /\ ~x.cleaned /\ x.bound /\ x.device \in Device
  BY <1>0 DEF StageInv
<1>2. CASE x.listening /\ Loop(e, [ext[e] EXCEPT !.at = "recheck", !.registered = TRUE])
  <2> DEFINE y == [x EXCEPT !.at = "recheck", !.registered = TRUE]
  <2>1. Loop(e, y)
    BY <1>2
  <2>2. ext'[e] = y /\ UNCHANGED <<chan, sess, sessionMap, listener, reserved, task>>
    BY <2>1, LoopEffect
  <2>3. /\ y \in Connection /\ y.at = "recheck" /\ y.registered = TRUE
        /\ y.tcp = x.tcp /\ y.port = x.port /\ y.owner = x.owner /\ y.listening = x.listening
        /\ y.device = x.device /\ y.sess = x.sess /\ y.bound = x.bound
        /\ y.cleaned = x.cleaned
        /\ y.notified = x.notified /\ y.byClient = x.byClient /\ y.moved = x.moved
    BY <1>0 DEF Connection
  <2> HIDE DEF y
  <2>4. Attached(e)
    BY <1>0, <1>2 DEF Attached
  <2>5. StageInv(e)'
    BY <1>0, <1>1, <2>2, <2>3 DEF StageInv
  <2>6. EntryInv(e)'
    BY <1>0, <1>1, <1>2, <2>2, <2>3 DEF EntryInv
  <2>7. OwnerInv(e)'
    BY <1>0, <2>2, <2>3, <2>4 DEF OwnerInv
  <2>8. PortInv(e)'
    BY <1>0, <2>2, <2>3, <2>4 DEF PortInv, AtPort
  <2>9. HoldInv(e)'
    BY <2>2, <2>3 DEF HoldInv, Open
  <2> QED BY <1>1, <2>1, <2>3, <2>5, <2>6, <2>7, <2>8, <2>9, LoopKeeps
<1>3. CASE Loop(e, [ext[e] EXCEPT !.at = "recheck", !.tcp = "down"])
  <2> DEFINE y == [x EXCEPT !.at = "recheck", !.tcp = "down"]
  <2>1. /\ y \in Connection /\ y.at = "recheck" /\ y.tcp = "down" /\ Same(x, y)
        /\ y.bound = x.bound /\ y.registered = x.registered /\ y.cleaned = x.cleaned
    BY <1>0 DEF Connection, Same
  <2>2. Loop(e, y)
    BY <1>3
  <2> HIDE DEF y
  <2> QED BY <1>1, <2>1, <2>2, EndKeeps DEF Same
<1> QED BY <1>2, <1>3 DEF RegisterConnection

\* cleanupConnection leaves no entry, and the first to come tells the device.
LEMMA CleanupEffect ==
    ASSUME NEW x \in Connection, NEW n \in BOOLEAN,
           x.cleaned => ~x.bound /\ ~x.registered
    PROVE  LET y == Cleanup(x, n) IN
           /\ y \in Connection /\ Same(x, y) /\ y.tcp = x.tcp /\ y.at = x.at
           /\ y.cleaned /\ ~y.bound /\ ~y.registered /\ y.byClient = x.byClient
           /\ IF x.cleaned THEN y.notified = x.notified
              ELSE y.notified = (n /\ x.bound /\ IsActive(ChannelOf(x.sess)))
<1> DEFINE m == n /\ x.bound /\ IsActive(ChannelOf(x.sess))
           z == [x EXCEPT !.cleaned = TRUE, !.bound = FALSE, !.registered = FALSE,
                          !.notified = m]
<1>1. m \in BOOLEAN
  OBVIOUS
<1>2. Cleanup(x, n) = IF x.cleaned THEN x ELSE z
  BY DEF Cleanup
<1> HIDE DEF m
<1>3. /\ z \in Connection /\ Same(x, z) /\ z.tcp = x.tcp /\ z.at = x.at
      /\ z.cleaned = TRUE /\ z.bound = FALSE /\ z.registered = FALSE
      /\ z.byClient = x.byClient /\ z.notified = m
  BY <1>1 DEF Connection, Same
<1> HIDE DEF z
<1>4. CASE x.cleaned
  BY <1>2, <1>4 DEF Same
<1>5. CASE ~x.cleaned
  BY <1>2, <1>3, <1>5 DEF m
<1> QED BY <1>4, <1>5

\* A session that is active and current was not retired, unless a heartbeat
\* has set it ONLINE again.
LEMMA RecheckKeeps ==
    ASSUME ConnInv, NEW e \in External, Recheck(e)
    PROVE  ConnInv'
<1> DEFINE x == ext[e]
           s == x.sess
           d == x.device
<1>0. /\ x \in Connection /\ StageInv(e) /\ EntryInv(e) /\ OwnerInv(e) /\ PortInv(e)
      /\ x.at = "recheck" /\ (x.cleaned => ~x.bound /\ ~x.registered)
  BY DEF ConnInv, ConnTypeOK, Recheck
<1>1. x.tcp # "none" /\ s # NoSession /\ ~x.cleaned /\ x.bound /\ d \in Device
  BY <1>0 DEF StageInv
<1>2. CASE SessionActive(s) /\ sessionMap[d] = s /\ Loop(e, [ext[e] EXCEPT !.at = "idle"])
  <2> DEFINE y == [x EXCEPT !.at = "idle"]
  <2>1. Loop(e, y)
    BY <1>2
  <2>2. ext'[e] = y /\ UNCHANGED <<chan, sess, sessionMap, listener, reserved, task>>
    BY <2>1, LoopEffect
  <2>3. /\ y \in Connection /\ y.at = "idle"
        /\ y.tcp = x.tcp /\ y.port = x.port /\ y.owner = x.owner /\ y.listening = x.listening
        /\ y.device = d /\ y.sess = s /\ y.bound = x.bound
        /\ y.cleaned = x.cleaned /\ y.registered = x.registered
        /\ y.notified = x.notified /\ y.byClient = x.byClient /\ y.moved = x.moved
    BY <1>0 DEF Connection
  <2> HIDE DEF y
  <2>4. Attached(e)' = Attached(e)
    BY <1>0, <2>2, <2>3 DEF Attached
  <2>5. StageInv(e)'
    BY <1>0, <1>1, <2>2, <2>3 DEF StageInv
  <2>6. EntryInv(e)'
    BY <1>0, <1>1, <2>2, <2>3, <2>4 DEF EntryInv
  <2>7. OwnerInv(e)'
    BY <1>0, <2>2, <2>3, <2>4 DEF OwnerInv
  <2>8. PortInv(e)'
    BY <1>0, <2>2, <2>3, <2>4 DEF PortInv, AtPort
  <2>9. Quiet(d) /\ Doing(d, {"install"}) => ChannelOf(s) \in Beating
    <3>1. RetiredInv(d) /\ sess[s].status = "ONLINE"
      BY <1>1, <1>2 DEF ConnInv, SessionActive
    <3>2. Doing(d, {"install"}) => Doing(d, {"drain", "install"})
      BY DEF Doing
    <3> QED BY <1>1, <1>2, <3>1, <3>2 DEF RetiredInv
  <2>10. HoldInv(e)'
    BY <1>2, <2>2, <2>3, <2>9 DEF HoldInv, Quiet, Doing
  <2> QED BY <1>1, <2>1, <2>3, <2>5, <2>6, <2>7, <2>8, <2>10, LoopKeeps
<1>3. CASE Loop(e, [Cleanup(ext[e], TRUE) EXCEPT !.at = "idle", !.tcp = "down"])
  <2> DEFINE z == Cleanup(x, TRUE)
             y == [z EXCEPT !.at = "idle", !.tcp = "down"]
  <2>1. /\ z \in Connection /\ Same(x, z) /\ z.cleaned /\ ~z.bound /\ ~z.registered
        /\ IF x.cleaned THEN z.notified = x.notified
           ELSE z.notified = (x.bound /\ IsActive(ChannelOf(x.sess)))
    BY <1>0, CleanupEffect
  <2> HIDE DEF z
  <2>2. /\ y \in Connection /\ y.at = "idle" /\ y.tcp = "down" /\ Same(z, y)
        /\ y.bound = z.bound /\ y.registered = z.registered /\ y.cleaned = z.cleaned
        /\ y.notified = z.notified
    BY <2>1 DEF Connection, Same
  <2>3. Loop(e, y)
    BY <1>3 DEF z
  <2> HIDE DEF y
  <2>4. Same(x, y)
    BY <2>1, <2>2 DEF Same
  <2> QED BY <1>1, <2>1, <2>2, <2>3, <2>4, EndKeeps DEF Same
<1> QED BY <1>2, <1>3 DEF Recheck

LEMMA EndsKeep ==
    ASSUME ConnInv, NEW e \in External,
           \/ ReadOrphan(e) \/ Close(e) \/ Inactive(e)
           \/ \E c \in Channel : SlowConsumer(c, e) \/ ClientClose(c, e)
    PROVE  ConnInv'
<1> DEFINE x == ext[e]
<1>0. /\ x \in Connection /\ StageInv(e) /\ EntryInv(e)
      /\ x.at = "idle" /\ x.tcp # "none" /\ (x.cleaned => ~x.bound /\ ~x.registered)
  BY DEF ConnInv, ConnTypeOK, ReadOrphan, Close, Inactive, SlowConsumer, ClientClose, Up
<1>1. /\ x.bound <=> x.sess # NoSession /\ ~x.cleaned
      /\ x.cleaned /\ x.sess # NoSession /\ IsActive(ChannelOf(x.sess)) => x.notified \/ x.byClient
  BY <1>0 DEF StageInv, EntryInv
<1>2. CASE Loop(e, [ext[e] EXCEPT !.tcp = "down"])
  <2> DEFINE y == [x EXCEPT !.tcp = "down"]
  <2>1. /\ y \in Connection /\ y.at = "idle" /\ y.tcp = "down" /\ Same(x, y)
        /\ y.bound = x.bound /\ y.registered = x.registered /\ y.cleaned = x.cleaned
        /\ y.notified = x.notified /\ y.byClient = x.byClient
    BY <1>0 DEF Connection, Same
  <2>2. Loop(e, y)
    BY <1>2
  <2> HIDE DEF y
  <2> QED BY <1>0, <1>1, <2>1, <2>2, EndKeeps DEF Same
<1>3. CASE Loop(e, [Cleanup(ext[e], TRUE) EXCEPT !.tcp = "done"])
           \/ Loop(e, [Cleanup(ext[e], TRUE) EXCEPT !.tcp = "closing"])
  <2> DEFINE z == Cleanup(x, TRUE)
  <2>1. PICK t \in {"closing", "done"} : Loop(e, [z EXCEPT !.tcp = t])
    BY <1>3
  <2> DEFINE y == [z EXCEPT !.tcp = t]
  <2>2. /\ z \in Connection /\ Same(x, z) /\ z.cleaned /\ ~z.bound /\ ~z.registered
        /\ z.byClient = x.byClient /\ z.at = "idle"
        /\ IF x.cleaned THEN z.notified = x.notified
           ELSE z.notified = (x.bound /\ IsActive(ChannelOf(x.sess)))
    BY <1>0, CleanupEffect
  <2> HIDE DEF z
  <2>3. /\ y \in Connection /\ y.at = "idle" /\ y.tcp = t /\ Same(z, y)
        /\ y.bound = z.bound /\ y.registered = z.registered /\ y.cleaned = z.cleaned
        /\ y.notified = z.notified /\ y.byClient = z.byClient
    BY <2>2 DEF Connection, Same
  <2>4. Loop(e, y)
    BY <2>1
  <2> HIDE DEF y
  <2>5. Same(x, y)
    BY <2>2, <2>3 DEF Same
  <2>6. y.sess # NoSession /\ IsActive(ChannelOf(y.sess)) => y.notified \/ y.byClient
    BY <1>0, <1>1, <2>2, <2>3, <2>5 DEF Same, Connection
  <2> QED BY <1>0, <2>2, <2>3, <2>4, <2>5, <2>6, EndKeeps
<1>4. CASE Loop(e, [Cleanup(ext[e], FALSE) EXCEPT !.tcp = "closing", !.byClient = TRUE])
  <2> DEFINE z == Cleanup(x, FALSE)
             y == [z EXCEPT !.tcp = "closing", !.byClient = TRUE]
  <2>1. /\ z \in Connection /\ Same(x, z) /\ z.cleaned /\ ~z.bound /\ ~z.registered
        /\ z.at = "idle"
    BY <1>0, CleanupEffect
  <2> HIDE DEF z
  <2>2. /\ y \in Connection /\ y.at = "idle" /\ y.tcp = "closing" /\ Same(z, y)
        /\ y.bound = z.bound /\ y.registered = z.registered /\ y.cleaned = z.cleaned
        /\ y.byClient = TRUE
    BY <2>1 DEF Connection, Same
  <2>3. Loop(e, y)
    BY <1>4 DEF z
  <2> HIDE DEF y
  <2>4. Same(x, y)
    BY <2>1, <2>2 DEF Same
  <2> QED BY <1>0, <2>1, <2>2, <2>3, <2>4, EndKeeps
<1> QED BY <1>2, <1>3, <1>4 DEF ReadOrphan, Close, Inactive, SlowConsumer, ClientClose

-----------------------------------------------------------------------------
(* The theorems. *)

LEMMA ConnInitEstablishes ==
    ASSUME ConnInit
    PROVE  ConnInv
<1>1. Init /\ Inv /\ TypeOK
  BY InitEstablishes DEF ConnInit, Inv
<1>2. NoConnection \in Connection /\ NoBeat \in Beat
  BY DEF NoConnection, Connection, NoBeat, Beat
<1>3. ConnTypeOK
  BY <1>1, <1>2 DEF ConnInit, ConnTypeOK, NoConnection
<1>4. ASSUME NEW e \in External
      PROVE  StageInv(e) /\ EntryInv(e) /\ OwnerInv(e) /\ PortInv(e) /\ HoldInv(e)
  <2>1. ext[e] = NoConnection
    BY DEF ConnInit
  <2>2. ~Attached(e) /\ ~Open(e)
    BY <2>1 DEF Attached, Open, NoConnection
  <2>3. StageInv(e)
    BY <2>1 DEF StageInv, NoConnection
  <2>4. EntryInv(e) /\ OwnerInv(e)
    BY <2>1, <2>2 DEF EntryInv, OwnerInv, NoConnection
  <2> QED BY <2>2, <2>3, <2>4 DEF PortInv, HoldInv
<1>5. \A c \in Channel : BeatInv(c)
  BY DEF ConnInit, BeatInv, NoBeat
<1>6. \A d \in Device : RetiredInv(d)
  BY <1>1 DEF Init, RetiredInv
<1> QED BY <1>1, <1>3, <1>4, <1>5, <1>6 DEF ConnInv

LEMMA ConnNextKeeps ==
    ASSUME ConnInv, [ConnNext]_connVars
    PROVE  ConnInv'
<1>1. CASE UNCHANGED connVars
  <2>1. UNCHANGED vars /\ UNCHANGED ext /\ UNCHANGED beat /\ ConnTypeOK
    BY <1>1 DEF connVars, ConnInv
  <2>2. /\ Inv' /\ TypeOK' /\ \A d \in Device : RetiredInv(d)'
        /\ \A e \in External :
              StageInv(e)' /\ EntryInv(e)' /\ OwnerInv(e)' /\ PortInv(e)' /\ HoldInv(e)'
        /\ \A c \in Channel : BeatInv(c)'
    BY <2>1, Undisturbed
  <2> QED BY <2>1, <2>2 DEF ConnInv, ConnTypeOK
<1>2. ASSUME NEW e \in External, ExternalStep(e) PROVE ConnInv'
  BY <1>2, LookupKeeps, BindSessionKeeps, RegisterConnectionKeeps, RecheckKeeps, EndsKeep
     DEF ExternalStep
<1> QED BY <1>1, <1>2, LifecycleKeeps, AcceptKeeps, EndsKeep, HeartbeatKeeps DEF ConnNext

\* What the lifecycle, the loops of the external connections and the heartbeats
\* keep true together: the inductive invariant.
THEOREM ConnectionInvariant == ConnSpec => []ConnInv
<1>1. ConnInit => ConnInv
  BY ConnInitEstablishes
<1>2. ConnInv /\ [ConnNext]_connVars => ConnInv'
  BY ConnNextKeeps
<1> QED BY <1>1, <1>2, PTL DEF ConnSpec

\* Types; a connection that is cleaned up has no entry left.
THEOREM ConnectionsTypeCorrect == ConnSpec => []ConnTypeOK
<1>1. ConnInv => ConnTypeOK
  BY DEF ConnInv
<1> QED BY <1>1, ConnectionInvariant, PTL

\* Whoever stops a port closes every connection of it: none slips in between the
\* look at the session and the entry below the listener.
THEOREM NoneEscapesTeardown == ConnSpec => []TeardownFindsIt
<1>1. ConnInv => TeardownFindsIt
  <2> SUFFICES ASSUME ConnInv, NEW e \in External, Open(e) PROVE ext[e].registered
    BY DEF TeardownFindsIt
  <2>1. Attached(e) /\ ext[e].at # "register" /\ EntryInv(e)
    BY DEF Open, Attached, ConnInv
  <2> QED BY <2>1 DEF EntryInv
<1> QED BY <1>1, ConnectionInvariant, PTL

\* Whichever of the many ways ends a connection, its device is told, once, or has
\* asked for it.
THEOREM CloseIsTold == ConnSpec => []ClientLearnsOfClose
<1>1. ConnInv => ClientLearnsOfClose
  BY DEF ConnInv, EntryInv, ClientLearnsOfClose
<1> QED BY <1>1, ConnectionInvariant, PTL

\* A user who came in by the port of a device is connected to that device, unless
\* the reservation moved between the two lookups of channelActive.
THEOREM OwnersOnly == ConnSpec => []NoCrossDevice
<1>1. ConnInv => NoCrossDevice
  <2> SUFFICES ASSUME ConnInv, NEW e \in External, Open(e), ~ext[e].moved
               PROVE  sess[ext[e].sess].device = ext[e].owner
    BY DEF NoCrossDevice
  <2>1. Attached(e) /\ OwnerInv(e)
    BY DEF Open, Attached, ConnInv
  <2>2. sess[ext[e].sess].device = ext[e].device
    BY <2>1, AttachedFacts
  <2> QED BY <2>1, <2>2 DEF OwnerInv
<1> QED BY <1>1, ConnectionInvariant, PTL

\* Between calls, the open connections of a device whose former sessions sent no
\* heartbeats belong to its current session, and came in by its port.
THEOREM QuietDevicesCurrent == ConnSpec => []QuietIsCurrent
<1>1. ConnInv => QuietIsCurrent
  <2> SUFFICES ASSUME ConnInv, NEW e \in External, Settled(e), Quiet(ext[e].device)
               PROVE  IsCurrent(e)
    BY DEF QuietIsCurrent
  <2> DEFINE x == ext[e]
  <2>1. Attached(e) /\ ~x.moved /\ LockFree(x.device) /\ Open(e) /\ HoldInv(e) /\ PortInv(e)
    BY DEF Settled, Open, Attached, ConnInv
  <2>2. \A a \in Actor : HasLock(a) => task[a].device # x.device
    BY <2>1 DEF LockFree
  <2>3. ~Removed(e)
    BY <2>2 DEF Removed, HasLock
  <2>4. sessionMap[x.device] = x.sess
    BY <2>1, <2>3 DEF HoldInv
  <2>5. AtPort(e)
    BY <2>1, <2>4 DEF PortInv
  <2>6. x.port = sess[x.sess].port
    BY <2>2, <2>5 DEF AtPort, HasLock
  <2> QED BY <2>4, <2>6 DEF IsCurrent
<1> QED BY <1>1, ConnectionInvariant, PTL
=============================================================================

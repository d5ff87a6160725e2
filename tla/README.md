# outView, specified

TLA+ specifications of outView, their TLC instances and their TLAPS proofs. outView
publishes a Remote Desktop port of a private Windows machine on a *fixed external port*
of a public server. A Java server (Netty, Spring Boot, an embedded database) accepts
*control connections* from Go clients; an outside user (mstsc) opens a TCP connection to
a device's external port, and its bytes travel as DATA messages over the control
connection to the client, which opens a local connection to 127.0.0.1:3389. A WebRTC path
(Go client, Go sidecar, Java proxy) is experimental and not wired into the server's
control pipeline: the client offers peer connections, and no handler of the
server answers yet.

Paths below are relative to the repository; `J` is `src/main/java/com/outview`.

## 1. Inventory

### Server

| Component | State | Operations | Interacts with |
|---|---|---|---|
| Fixed port reservations (`J/service/PortMappingService.java`) | table `port_mapping`; maps device→port and port→row; a volatile snapshot of both | allocatePort, markOnline, markOffline, updateExternalPort, setFixedPort, releasePort, loadPersistedMappings, getDeviceByPort | called by the lifecycle under its monitor; read by IO threads without it |
| Device lifecycle (`J/service/DeviceLifecycleService.java`, `J/service/BanService.java`, `J/netty/handler/AuthHandler.java`) | 128 lock stripes; the ban table | register, disconnected, disconnect, ban, unban, preset, deleteMapping, updatePort | everything else on the server |
| Session store (`J/service/SessionStore.java`, `J/entity/ClientSession.java`) | device→session, channel→device, the status of each session | register, removeSessionByChannel, getSession, getSessionByChannel, updateHeartbeat | lifecycle (under the lock), heartbeats and data (without it) |
| Data ports (`J/service/DataPortService.java`) | listening port → owner, channel, external connections | startDataPort, stopDataPort, closeConnections, registerConnection | lifecycle, external connections |
| External connections (`J/netty/handler/RawDataHandler.java`, `ProxyHandler.java`, `HeartbeatHandler.java`) | id→channel, id→session, channel→id; CLEANUP_STARTED; pending bytes; auto-read | channelActive, channelRead, channelInactive, sendToUser, cleanupConnection, closeFromClient, heartbeat | reads the session store and the snapshot on event loops |
| Rendezvous (`J/netty/handler/RendezvousHandler.java`) | none | answers whether a device is online, and where | session store |
| Codec, TLS, configuration, controllers | none that matters | framing; certificates; HTTP requests become lifecycle calls | |
| WebRTC (`J/webrtc/*`) | sidecar process and restart count, IPC socket, registry | start, health check, restart, destroy, routing | sidecar |

### Client

| Component | State | Operations |
|---|---|---|
| Control connection (`client/internal/client/connection.go`, `client.go`) | current connection, generation, pending heartbeat, retry delay, tasks | connect, register, heartbeat, failConn, reconnect with backoff, Stop |
| Local forwarding (`forwarding.go`, `proxy.go`) | local connections and their queues; the last 1024 closed ids; close notifications; one overload slot | handleData, handleClose, read and write tasks |
| Signaling (`signaling.go`, and the WebRTC part of `connection.go`) | current manager, usingWebRTC, signalingMu; an offer goroutine with its watchdog for each connection | offer, answer, candidate, established, failed, replace the manager, close it |
| WebRTC manager (`client/internal/webrtc/manager.go`, `types.go`) | connection state and the requests for its actor; peer connection and channel; buffered candidates; resume token | CreateOffer, SetRemoteDescription, AddICECandidate, pion's callbacks, SendData, Close |
| Batch sender (`client/internal/webrtc/pool.go`) | batch in the making, pool of buffers | Send, Flush |
| Codec (`client/internal/protocol/*`) | the frame being written or read | Encode, EncodeToBytes, Decode, DecodeFromBytes, the constructors and parsers |
| GUI, CLI, configuration, logger | no protocol state | |

### Sidecar (`webrtc-sidecar/`)

A process beside the server (`webrtc-sidecar/cmd/sidecar/main.go`): an IPC server with a goroutine
for each connection of the Java server (`internal/ipc/server.go`), and a pool of peer connections
by connection id (`internal/webrtc/pool.go`), each a manager with a life of its own
(`internal/webrtc/manager.go`). When an IPC connection ends, or the process is told to, every peer
connection is closed. A router with a registry of IPC connections (`internal/ipc/router.go`,
`types.go`) is prepared, but `main.go` installs the ping handler instead.

### What is hard here

* **Interleaving.** One lifecycle call is a dozen effects on four stores. Its lock is the
  device's stripe: calls for other devices, IO threads, heartbeats and outside users run
  between any two effects.
* **Late events.** A replaced connection's channelInactive comes after its successor has
  registered; a connection accepted by a stopped listener is initialised after the port
  has a new owner; a client task outlives the connection that started it.
* **Partial failure.** Every database save and every bind may fail halfway through a call,
  and the channel being registered may die at any point of it.
* **Crash.** A committed row may not have been published when the server dies.
* **Bounded resources.** Ports, queues of the client, remembered closed ids, pending bytes.
* **Liveness.** Connections that close must be forgotten; clients must come back.

`PROJECT.json` lists each hazard at its line with the properties aimed at it, or why there is
none yet.

### What makes each component correct

* Reservations: no port is ever persisted for two devices (the server would refuse to start);
  routing reads only committed reservations; only an administrator moves or releases one.
* Lifecycle: whoever is online is listening, on the port it was told; whoever is offline or
  banned is not; a live session is lost only to administration.
* Session store: its two maps never drift apart.
* External connections: no user ends up at another device; none outlives its session; the
  device is told of every end it did not cause.
* Client: heartbeats and retries act on the current connection only, it always comes
  back, Stop ends; queues stay bounded without inventing or losing a close.
* Signaling: nothing of a replaced manager or connection reaches the new one; every manager that
  is given up is closed, with its peer connection; no candidate is lost while an answer is refused.
* Data path: a message is in one batch; the buffer is bounded; connected means an open channel.
* Codec: the other end decodes what was encoded, wherever the stream is cut.
* Sidecar: every peer connection is accounted for, closed when its server goes, and the process ends.

## 2. What is modelled

| Module | Code | State | Actions |
|---|---|---|---|
| `Reservations` | what the manual and the tests promise about fixed ports | `reserved` | Assign, Release |
| `FixedPorts` | PortMappingService | `db`, `devicePorts`, `mappings`, `snapshot`, `saving`, `up` | one per mutator (its commit), Publish / Unpublish (its second half), Crash, LoadPersistedMappings |
| `DeviceLifecycle` | DeviceLifecycleService, SessionStore, DataPortService, BanService, AuthHandler | `chan`, `sess`, `sessionMap`, `channelToDevice`, `listener`, `reserved`, `online`, `banned`, `told`, and a `task` for each actor | one per step of each call |
| `OfflineDevices` (extends `DeviceLifecycle`) | the same, with a history variable | `misled`: the devices whose registration has found another device's listener on their port | those of `DeviceLifecycle` |
| `ExternalConnections` (extends `DeviceLifecycle`) | RawDataHandler, ProxyHandler's CLOSE_CONNECTION, HeartbeatHandler | `ext`, `beat` | the steps of channelActive, reads, closes, cleanup, and of a heartbeat |
| `ControlSession` | what the client's other parts rely on about the control connection | `current`, `clearing` | Install, Lose, Cleared |
| `ClientConnection` | connection.go; setState, handleRegisterAck of client.go | `conn` and the other fields under `c.mu`, `state`, `cancelled`, the two mutexes, `th` (what each thread is doing), the sockets and what the server owes on each | one per critical section of each thread, the timers, the network |
| `ClientForwarding` | forwarding.go, over `ControlSession` | `local`, `closedOrder`, `obj` (the local connections), `reading`, `clearer`, `notices`, `overload` | the read loop's, one per critical section of finishLocal and closeAllLocalConns, the writer's and reader's, the two loops that read the channels |
| `PeerManager` | manager.go of the client: what a manager holds | `life`, `closedBy`, `peer`, `remoteSet`, `pendingICE`, `added` | NewManager, BeginClose, TearDown, CreatePeer, MarkRemote, RemoteRefused, RemoteAccepted, FlushPending, AddICECandidate |
| `Signaling` (extends `PeerManager`) | signaling.go; prepareWebRTCReconnect, Stop and handleRegisterAck as far as they concern WebRTC | `control`, `current`, `usingWebRTC`, `sig` (signalingMu), `run`, `offer`, `sent`, `stop` | the run loop's, the handlers', the offer goroutine's, loss of the connection, Stop |
| `ManagerState` (extends `PeerManager`) | the state actor, doClose, pion's callbacks, SendData | `state`, `stateCh`, `actor`, `channel`, `buffered`, `resume`, `loc` | one per step of the actor, of doClose, of each callback and of SendData |
| `BatchSender` | pool.go of the client | `content`, `pool`, `pending`, `payload`, `written`, `lost` | Send, Flush, Dispatched |
| `DataPath` | composes `BatchSender` with `ManagerState`'s SendData as its flush function | | |
| `Framing` | protocol/*, sendRawFor, handleMessage | `writing`, `wire`, `cut`, `buf`, `sent`, `decoded` | Start, WritePart, Done, WriteFails, Ends, Arrives, Decode, DecodeFails; the constructors and parsers as operators |
| `SidecarManager` | manager.go of the sidecar | `life`, `state`, `pc`, `dc`, `remoteSet`, `pendingICE` | NewManager, BeginClose, ShutPeer, the offer, candidates, callbacks |
| `SidecarPool` (extends `SidecarManager`) | pool.go of the sidecar | `managers`, `hands`, `totalCreated`, `totalClosed`, `told` | Create, Remove, CloseAll (in steps), managers that end by themselves |
| `Sidecar` (extends `SidecarPool`) | main.go, ipc/server.go | `conn`, `java`, `serving`, `waiting` | Accept, HangUp, HandlerLeaves, OnDisconnect, Signal, CloseServer, Stopped |
| `MC...` | | definitions the configurations give to the constants | |
| `FixedPortsProofs`, `DeviceLifecycleProofs` (with `ExternalConnections`), `ClientConnectionProofs`, `ClientForwardingProofs`, `SignalingProofs`, `DataPathProofs`, `SidecarProofs`, `FramingProofs` | | the inductive invariant of the module each is named after, and the proofs (section 5) | |

**FixedPorts.** Mutators are `synchronized`, so one runs at a time; but `save` is
`repository.saveAndFlush` and then `publish`, and readers do not take the monitor. `saving`
is the change between the two: while it is set no mutator starts, readers see the old
snapshot, and a crash loses the publication but not the row. A save that throws changes
nothing. A row is a port and the online flag; target ports, timestamps and names are left out.

**DeviceLifecycle.** An *actor* is a control channel or an administrator. The pipeline
pins a channel's `AuthHandler` to one business thread, so the registrations and the
channelInactive of one channel run in order, and those of different channels concurrently. A
`task` is the call an actor is executing and the step it is `at`; it holds the lock of its
device's stripe at every step but `enter` (where `disconnected` waits for the lock after
having looked without it). Steps are cut wherever another thread can see or change something:
allocatePort, isPortActive (`Probe`), startDataPort, markOnline, the second look at the
channel, closeConnections, `SessionStore.register` are steps of their own. Inside a
step are things no other actor can come between in a way that matters here: the
reservations change in one step because `FixedPorts` shows they may be seen so
(`ReservationsKept`, `Reliable`), and `SessionStore.register` is one step because the
stripe orders it with every other writer of the same session; reads of another device's
entries by the unlocked `disconnected` are a step before.
`Channel.close()` called off the event loop only schedules the close: the channel is `closing`,
still `isActive()`, until `CloseChannel`. `told` is the port of the last REGISTER_ACK.

**ExternalConnections.** An external channel's event loop runs its handlers one after the
other; the steps of `channelActive` are the four places where the lifecycle may come in
between: the lookup of the device, the look at its session with the three map entries, the
entry below the listener, the second look. `owner` (whose listener accepted the connection) and
`byClient` are history, and so is `moved` (the device lost the port between the lookup and the look at
its session, section 4); no guard reads them. What `stopDataPort` and `closeConnections` do to the
connections of a port is `Teardown`, conjoined to every step of the lifecycle. The heartbeat is
three steps, because `HeartbeatHandler` and `SessionStore.updateHeartbeat` look twice and then
write without any lock.

**ClientConnection.** A started client is some goroutines over one struct: `run` is
`runConnections` and everything it calls, `beat` the heartbeat loop, `stop` a caller of `Stop`, and
a `Sender` stands for the close-notification loop and the readers of local connections,
which send for the connection they remember. A step is one critical section of `c.mu`; the two
mutexes that are held longer (`sessionMu` by `failConn` until the local connections are closed,
`writeMu` by `sendRawFor` while it writes, and, if the write fails, while it fails the connection)
are variables, so that a wrong order of locking would show as a stuck `Stop`. A thread keeps the
connection it took a snapshot of in `th[t].conn`; connections are numbered as they are dialled.
The callback of `setState` is a step of its own, because the code makes it after it has released
`c.mu`; what it says is left out (section 4). The network is `socket` (up, silent, broken, closed) and `due` (the register and heartbeat
answers a connection will still deliver). Local connections hang on `Cleanup`, which
is where `failConn` clears them: `ControlSession` states what they may rely on, and
`OneSession` that the client provides it.

**ClientForwarding.** `obj[o]` is one `connectionConn`; objects are numbered as they are made, and an
id may have several in turn. `finishLocal` takes `connMu`, then `obj.mu`, then notifies:
`Begun` is the winner of its `sync.Once`, `Forget` and `Shut` the two critical sections, and
whoever else finishes the object waits in its own state (`at = "finish"`, a task at its
`end`) until the stage is `done`. The read loop is `reading`: a message it has decoded and what it
does with it, so that a loss of the connection may come between the decoding and the look at
the maps. `clearer` holds the two callers of `closeAllLocalConns`: `failConn`, whoever calls it
(`sessionMu` lets one in at a time), and `Stop`. A DATA message carries only whether everything before
it was queued too; lengths are counted in messages. `told`, `announced` and `dropped` are
history. Once stopped, the channels are cleared, because nobody reads them any more.

**PeerManager and Signaling.** With WebRTC enabled, each control connection has a manager of its
own: `prepareWebRTCReconnect` puts a new one in the place of the old and closes that. Managers are
numbered by connection. `signalingMu` is held over `CreateOffer` and over a whole `Close`, by
the run loop, an offer goroutine or `Stop`: `sig` is its holder, `doomed` the manager it is
closing. `CreateOffer` is cut where it installs the peer connection (`CreatePeer`), because a manager
may close *itself* there (idle, ICE), which takes no mutex; `OwnerLeavesNothing` says that what the client
closes under the mutex keeps no peer connection. An offer goroutine goes on as its watchdog.
`sent` is what was written on each connection and by whom. The control connection is
`ClientConnection`'s, reduced to dial and loss. The server is external: it acknowledges, answers,
sends candidates and reports success or failure, each once on a connection, in any legal order.

**ManagerState, BatchSender and DataPath.** Two goroutines write a manager's state: the actor, which
loads and checks in one step (`ActorLoads`) and stores in another, and doClose. pion's callbacks and
the owner request transitions through a bounded channel (`Requested`). A `SendData` is at
`loc[s]`: the look at the buffer, the draining of a token left over, the second look, the wait, the
write; counted in units of one write. A `BatchSender` gathers messages in a buffer of a pool under
its mutex and dispatches outside of it; the batch in the making and those being dispatched are
`held`, and a buffer that is reused too early would show as content in two places. `DataPath` lets its
flush function be `SendData`, which is what `pool.go` says it is for; the program has no caller yet.

**Framing.** The bytes of a field are one unit, because no property tells them apart;
connection ids and payloads are byte sequences, and the two-byte length of an id wraps at
`IdLimit`. `writing` is the holder of `writeMu` and the parts (header, body) it still has to write; a
write may fail after any unit, and the connection is then unusable before the mutex is free. The
reader gets one unit at a time. `EncodeToBytes` and `DecodeFromBytes`, the codec on byte slices,
are operators, compared with the streaming codec on everything it sends. `handleMessage` and the
parsers say what the client takes each message for. `DecodeFails` is the end of the stream while a frame
is not `Complete`, or a header that is refused (which `HeadersRecognized` says never happens).

**SidecarManager, SidecarPool and Sidecar.** `Remove` and `CloseAll` take managers out of the map under the
pool's mutex and close them afterwards: `hands` is what each goroutine has taken out and not
closed yet. A manager that closes by itself stays in the map. A handler's life is `conn[c]`;
`waiting` is the wait group, which a handler leaves *before* it calls `onDisconnect`, so that the process
may stop in the middle of that. No request handler creates peer connections yet (`create_pc` of
`protocol.go` is not handled): `Create` may happen at any time.

## 3. The runs

| Run | Instance | What it shows |
|---|---|---|
| `fixed_ports` | 3 devices, ports 6000..6002 | The inductive invariant of the proofs; uniqueness in the table with snapshots committed and self-consistent (`Reliable`); no device online by a restart; the refinement of `Reservations` |
| `lifecycle` | 2 connections of `d1`, one of `d2`, 3 ports, 2 calls among disconnect, ban, unban, preset, delete, update | online sessions listen at every instant, through port changes too, and the device knows its port; a ban leaves no window; a late channelInactive takes no live session away; the lifecycle implements `Reservations` |
| `contender` | one connection asks to be `d1` and then `d2`, another is `d1`; 2 ports; 2 calls among disconnect and update; fairness | the two maps of the session store agree; an offline device neither listens nor shows online, whatever step failed (unless its registration was misled: section 4); a connection that closes or is told to is eventually gone with its session |
| `replacement` | 2 devices, a connection of one and a connection with heartbeats that may ask to be either, 2 ports, 1 user, disconnect, delete, preset and update | no user connection outlives the session of a device without heartbeats; no user reaches another device, save through the gap of section 4; a stopped port finds all its connections; the device learns of every end |
| `client_connection` | 2 faults (3 connections), 1 sender, 1 retry, Stop at any time | nothing of a lost connection shows or is awaited and the state is that of the current one (`FactsOfCurrent`); an ACK answers the pending heartbeat; after Stop nothing is left; implements `ControlSession` |
| `client_recovery` | 1 fault, no limit of retries, fairness | Stop returns; a client that is not stopped is registered for good in the end |
| `client_forwarding` | 2 ids, 2 control connections, 2 local connections one at a time, queue of 1, 2 unwritten messages, 1 queued notice; Stop at any time | an id is opened once and belongs to the connection in use; its stream has no gap; its end is announced once, and never forgotten; when nobody has a step left after Stop, all tasks are over |
| `signaling` | 2 control connections with a manager each, 1 candidate, every message of the server once on each, Stop at any time | the mutex is held exactly where it is relied on and only the current manager lives (`ManagersInHand`); no signal of an old manager on a new connection; no peer connection left behind; no candidate lost; no deadlock short of Stop having returned |
| `data_path` | 2 senders, 3 messages, batches of 2, a queue of 1 transition, a buffer of 1 unit, 1 ICE disconnection | every message in exactly one batch, in order within it; connected only after the channel has opened; the buffer is bounded by the high mark and the number of senders |
| `sidecar` | 2 IPC connections, 1 id, 2 managers, 1 candidate, fairness | created = pooled + being closed + closed, none counted twice; what is in the pool when a connection ends is closed; a signal ends the process unless the server keeps a connection |
| `framing` | 2 senders, 3 messages of 23 kinds, bodies up to 4 units, ids shorter than 3 | what is decoded is a prefix of what was sent, and understood as what it was made from; no header is refused; at the end of the stream at most the message being written is missing; the codecs agree |
| `stale_external` (violation) | 2 connections of one device, heartbeats | the finding of section 4 |

**Bounds.** `MaxRegister` bounds the REGISTER messages of a channel, `MaxOps` the
administrative calls. The interesting cases are races between two calls for one device and one
for another: three channels (old connection, reconnection, other device) and one or two
administrative calls reach them, and further calls repeat them from states already reached.
Ports are as many as devices, or one more where a move needs a free target; with two
devices and two ports exhaustion and contention for the same port both happen. One external
connection is enough, because connections touch no state of one another. In `contender` a
channel registers twice, as it must to claim two devices.

In `ClientConnection` everything that ends a connection that works is a fault and `MaxFaults`
bounds them; a client therefore dials at most `MaxFaults + 1` times while it is not stopped. Two
faults give three connections: a late event of the first may meet the second while the third
is being dialled. One retry makes the limit of retries bite; no limit is the case of `client_recovery`.

In `ClientForwarding` both ids belong to the first control connection and the second one meets
whatever they left behind; ids of one control connection are alike, hence the symmetry (no liveness
property is checked in that run). Two local connections of which one may be open at a time
reach refusal, an object whose id is opened next to it, and the reuse of an id; a queue
of one with two unwritten messages reaches both of its limits, one notice the overload.
`NeverReopened` and `AnnouncedOnce` are stated for ids as many as are remembered (1024 in the code):
beyond that the code does forget. A close may be dropped if the overload slot holds an *older*
connection's signal (`forwarding.go:228`); `ClosesReported` says so with `~dropped`.

In `Signaling` the second connection meets whatever the first has left behind (an offer in any
of its steps, a watchdog, a manager being closed); a third would meet the same. In
`DataPath` two senders are the least for which batches, tokens and the look at the buffer
interfere; three messages with batches of two give a batch in the making next to one being
dispatched. The marks are 1 and 0 units: what matters is that the buffer passes both. In
`Sidecar` two managers under one id are the least for which an id is used again while its former manager is
being closed. In `Framing` a body of 5 units exists and is refused; each message meets every
other one before and after it.

**Deadlock** is not checked in the lifecycle runs: calls are bounded, so behaviours end; nor in
those of the client, which stops or gives up. `TasksEnd` says instead where the forwarding may stop:
it looks at the states in which no step of the program is left (a read from the local service may block for ever,
dials and writes have deadlines). It says so by the guards of these steps (`Ready`), and that they are the guards
of the enabled steps (`GuardsRight`). In
`fixed_ports` it is checked, and in `signaling`, where `Stopped` is the only state in which nothing
need happen.

**Fairness** of the lifecycle (`Fairness`, used by `contender` only) is weak fairness of the steps of a call that
has begun, of channelInactive, and of closes that were requested. Threads run and a lock is
released after finitely many steps, so a waiting call gets it once the bounded number of
other calls is over; an event loop executes the close it was asked for. That a peer
disconnects, or an administrator calls, is never assumed. The fairness of waiting for a stripe is the
reason for weak, not strong, fairness: with the calls bounded, the lock is eventually
free for good.

The client's (`client_recovery`) is weak for the steps of every thread and for the expiry of a
heartbeat that will not be answered, and strong where weak would let a thread be passed over for ever: for
`writeMu` (Go hands a mutex to a waiter that has waited a millisecond), for the
ticker and the end of the context in a `select` (which chooses among what is ready at random), and
for the answer to a registration that a connection in good order delivers. Faults, Stop,
overload and sends for old connections are never assumed, and stop by themselves because `MaxFaults`
bounds them: "registered for good once the faults are over".

The sidecar's (`FairSpec`) is weak fairness for the goroutines of a connection (a handler whose
connection is gone notices), for a `doClose` that has begun and for `main` once it is signalled. That Java hangs
up, a peer fails or a signal comes is never assumed.

**Properties and code mutations.** For every property `PROJECT.json` names a mutation of a
mapped definition (the operators `Faulty...` and `Unclosed...`: a dropped recheck, a listener not
stopped, a row not committed, an entry not cleared) under which TLC finds it violated.

## 4. Findings

**A heartbeat revives a session that is being replaced** (`stale_external`).
`updateHeartbeat` sets the status ONLINE without the device lock
(`SessionStore.java:101`). Between the moment a replacement registration sets the old
session OFFLINE and the one in which it installs its own, a heartbeat of the old
connection makes the old session ONLINE again; a user who connects then is
bound to it and passes both looks at it, after the connections of the port were closed.
`RawDataHandler.java:80` says that connections of an old session must be closed at
once. The connection is closed by its next read or when the port stops.

Modelling met other places where the code does less than one might expect. No property that
is checked contradicts them; the models contain the behaviour (where nothing else is said), and a reader should know:

* `register` decides whether a listener is its own to stop by `isPortActive(port)` *before*
  `startDataPort` (`DeviceLifecycleService.java:50`), whoever listens there. If `updatePort` of another device
  holds that port for a moment and then stops its listener, this registration binds a
  listener of its own, and when its channel dies it leaves it listening. `OfflineDevices` remembers in `misled`
  the devices whose registration found the listener of another one, and `OfflineIsSilent` leaves out these
  only; without the exception TLC finds it violated in `contender`.
* All of `cleanupConnection` (`RawDataHandler.java:229`) is one step of `ExternalConnections`; what other threads may
  see between its parts is not explored.
* `writeToLocal` returns without uncounting what it took from the queue if the deadline cannot be set
  (`forwarding.go:116`): the count of a connection that is then finished stays too high.
* A late open callback stores `connected` in a manager of the sidecar that is already closed
  (`webrtc/manager.go:156`); only tests read that state.
* `channelActive` looks up the device of the port (`RawDataHandler.java:60`) and then that device's session
  (`RawDataHandler.java:66`), and does not look at the port again. Suppose `updatePort` of one
  device listens on a port it has not saved yet, and the port is meanwhile assigned to a second device that is offline: a user
  accepted there is looked up as the second's. If the second is moved to another port and comes online
  there before the look at its session, the user ends up at it, although the first device's
  listener accepted the connection, and stays if the first one's save of the port then succeeds. TLC finds this with three ports and three administrative
  calls, and a user bound to a session of another port with fewer; an inductive invariant could not be found, which is how it was noticed. `NoCrossDevice` and
  `QuietIsCurrent` leave out the connections whose device lost the port between the two looks (`moved`).
* `setState` compares and swaps under `c.mu`, but calls `OnStateChange` after releasing it
  (`client.go:190`): two callbacks may come in the opposite order, and a listener that
  uses the argument, as the GUI does, stays on the older state until the next change.
* `failConn` given no connection returns at once (`connection.go:273`): if another thread lost the
  connection, the next dial may begin while that thread is still closing the old one. The
  installation waits for it (`OneSession`).
* `doClose` of a manager writes Closing and Closed itself, next to an actor that may have passed its
  check (`client/internal/webrtc/manager.go:327`): a closed manager can show another state afterwards, for good.
* `SendData` drains the resume token before it waits (`manager.go:276`). With two senders the one may drain the
  other's; that one then waits for its deadline, or five seconds, although the buffer is empty.
* `BatchSender` looks at its flush interval only in `Send` (`client/internal/webrtc/pool.go:124`): the end of a burst waits for the
  next message or a `Flush`. Batches dispatched at once may be written in either order.
* A late "established" sets `usingWebRTC` after the connection was lost (`signaling.go:281`); nothing routes by it.
* `onDisconnect` of the sidecar closes the whole pool, the peer connections of a newer IPC connection
  included (`cmd/sidecar/main.go`); `Close` of its server waits for handlers that only Java can end
  (`ipc/server.go:106`); a manager that closed itself keeps its id taken until then.
* `WriteMessage` of the IPC makes two writes without a lock (`ipc/server.go:217`). Today one goroutine
  writes on a connection; the events of the registry, once used, would be a second one. Not modelled.

## 5. The proofs

`FixedPortsProofs` proves, for every set of devices and every legal port range
(assumptions `NoDeviceAssumption` and `PortRangeAssumption`, the latter enforced by
`loadPersistedMappings`):

* `TypeCorrect`: `Spec => []TypeOK`.
* `InvInductive`: `Spec => []Inv`.
* `FixedPortsSafe`: `Spec => []Reliable`, unique ports, committed and self-consistent snapshots.
* `OnlineIsPublished`: the action property `OnlineOnlyByPublish`.
* `TableImplementsReservations`: the table, through crashes, implements `Reservations`.

`UniquePorts` is not inductive: the code never looks at the table before it writes, it looks at
its maps. So `Inv` says what ties the two together: the maps are inverse to each other
(`MapsInverse`); they are the snapshot (`SnapshotIsMaps`); they agree with the table except
for the device whose change is in flight (`MapsAreTable`); the port of that change is written
and is nobody else's in the maps (`SavingSound`); and a stopped server has empty maps
(`DownIsEmpty`). `CommitKeepsInv` covers all five mutators that save: each writes a port
that is the device's own or free in the maps. `PublishRowKeepsMaps` covers the second half.
TLC checks `Inv` in the run `fixed_ports` first.

The other proof modules follow the same pattern: a type lemma, an inductive invariant `Inv` made
of named parts, one lemma for each action or group of actions, and the theorems as consequences. All invariants were checked by TLC on
small instances before they were proved. Their assumptions:

* `DeviceLifecycle`: ports are positive numbers, channels are not administrators, the bounds are numbers,
  "no device" and "no session" are neither. `LockOf` is any assignment of devices to stripes.
* `ExternalConnections`: besides those, that the channels that send heartbeats are channels (`BeatingAssumption`).
* `ClientConnection`, `ClientForwarding`: bounds are numbers and the names of threads are distinct; ids are
  finitely many (an id has at most 2^16 - 1 bytes, `IdAssumption`); `None` is no message (`NoneAssumption`).
* `Signaling`: connections are numbered and the managers with them; a candidate is not a control message (`CandidateAssumption`).
* `Framing`: ids and payloads are sequences of bytes (`ContentAssumption`), an id is shorter than what its length wraps around
  at (`IdAssumption`), the limits are numbers.
* `Sidecar`, `DataPath`: managers, senders and buffers are finitely many, with a buffer to spare for every goroutine
  that dispatches (`sync.Pool` makes one when it has none); `Low` is below `High`.

**`DeviceLifecycleProofs`** (any devices, channels, administrators, ports and stripes). `ActiveSessionListens` is not
inductive: it says nothing of calls that are half done. `Inv` says what a call knows *because it holds its
stripe*: `RegisterInv` (the port is the reserved one, and listens from the bind on; if it did not listen at the probe, the device
has no live session), `UpdateInv` (the session it has read is still the current one, reachable at
the new port before the old one is given up), `RemoveInv`, and `EnterInv` for the call that
waits for the stripe. `Exclusion` says no two calls hold one stripe, and `Local` what a
step of one call leaves alone, so that the invariants of the other calls and devices follow from one
lemma (`OtherTasks`, `OtherDevices`) for all actions. Proved: `TypeOK`, `ActiveSessionListens`,
`SessionReachable`, `BannedStaysOut`, `ToldItsPort`, the action property `LiveSessionKept`, and that every step is a step of
`Reservations` or a stutter (`LifecycleImplementsReservations`).

`DevicesGoSilent` proves `OfflineIsSilent` of `OfflineDevices`, port changes included. Its invariant, `Silence`, says, of the devices
that were not misled, that a device listens at its reserved port only, or, while its port is being changed, at the
one the update moves it to or from (`Moving`); that it
listens, or is shown online, only with a session or while a call has one in the making or in the undoing; and that a registration
which found its port listening is of a device with a session, so that one that fails half way may leave the listener alone. This last part
is what the listener of another device breaks: section 4. `OfflineNext` only adds the history, so the invariant of the lifecycle holds of it too.

These parts speak of a session whose *channel is live* (`Live`), not of an ONLINE session: a heartbeat sets the
status of whatever session it holds, so only the first survives the steps of `ExternalConnections`. `FreshInv` says that
a session object that is about to be made is nobody's yet.

**Part 2 of `DeviceLifecycleProofs`** treats `ExternalConnections` (any devices, channels, ports and outside users, heartbeats on any of
the channels). `ConnInv` keeps `Inv` of the lifecycle and adds, for every connection:

* `StageInv`, how far channelActive is; `EntryInv`, that a connection bound to a session is where the teardown of its port
  looks for it (`Attached`: below the current listener before it is registered, in portConnectionMap
  afterwards), and that its device knows of its end;
* `OwnerInv`, that the device looked up is the one whose listener accepted the connection;
  `PortInv`, that a connection of the current session is at the session's port or at the one an update is moving it from or
  to (`AtPort`);
* `HoldInv`, the heart of `QuietIsCurrent`, which is not inductive: while a device is being removed its connections
  are still there, and stop with its port (`Removed`); while its session is being replaced there are none, since the
  session is set OFFLINE (`RetiredInv`) before the connections are closed, and channelActive asks
  for an ONLINE session both before and after it registers;
* `BeatInv`, that a heartbeat holds a session of its channel's device.

The lifecycle has about twenty-five actions, and most do nothing a connection could notice: `Cases` reduces each to
one of eight kinds of steps, and `EveryEffect` and `LifecycleKeeps` treat those. `OnlineKeeps` shows that `Inv` of the
lifecycle survives heartbeats. Proved: all five invariants of the run `replacement`. Two hypotheses
are part of the properties, because the code does not keep more: a connection is excepted (`moved`) when its port changes hands
between the two lookups of channelActive, and `QuietIsCurrent` excepts a device one of whose former sessions may still get a
heartbeat, which makes it ONLINE again (`OpenIsCurrent` is violated, section 4).

**`ClientConnectionProofs`** (any senders, retries and faults). `Inv` says how far each thread can have
come (`Paths`), that `sessionMu` is held exactly while a lost connection is cleared away
(`Clearance`), that every open socket is the current one or has a thread that will close it
(`Sockets`), that there is at most one heartbeat of a connection under way, counted over the three places it may be in
(`Beats`), and that what the run loop works on is current or lost (`RunOfCurrent`). Proved: `TypeOK`, `FactsOfCurrent`, `AckMatches`,
`StoppedIsQuiet`, and the refinement of `ControlSession` (`ConnectionImplementsSession`).

**`ClientForwardingProofs`** (any ids, control connections, local connections, limits). The heart is
`KnownInv`: an id whose local connection is not in the map is remembered as closed, or its control connection is
past. It needs that no closed id is forgotten too early, hence the hypothesis of `NeverReopened`
and `AnnouncedOnce` that there are no more ids than are remembered. `ReportedInv` says where the
report of a closed id is: told, queued, being sent, in the overload slot, or still
to be made by whoever finishes the object. `QueueInv` says that after a chunk that could not be queued nothing is. Proved:
all invariants of the run.

`NobodyIsStuck` is about the end of Stop. `WaitInv`, kept next to `Inv`, says that whoever waits in
finishLocal for an object waits for one whose finishing *has begun* (so that `Forget` and `Shut` are still to come or are over),
that an object that is open has a writer which will see the context end, and that a socket is open only as long as somebody will
close it. From it follows `NobodyStuck`: while the client stops and not all has ended, the guard of some step holds.
That a step whose guard holds can be taken (`GuardsRight`) speaks of ENABLED and is left to TLC; the
theorem derives `TasksEnd` from it.

**`SignalingProofs`** (any number of connections, any candidates). `Inv` orders the generations of
connections, managers and offers (`Generations`, `Offering`); its heart is `Closing`: while the offer of the newest connection
is not made, nobody is closing the manager it will be made with. Proved: all four invariants of the run.

**`DataPathProofs`** (any senders, marks and sizes). `StateInv`: before the channel is open nothing that is under way to the state actor
says it is. `WindowInv` counts a unit for every sender that has passed the test of the
buffer. `PlaceInv` says where each batch buffer is: in the pool, in the making or in one goroutine's hands. Proved: `ChannelSound`,
`EachOnce`.

**`SidecarProofs`** (any connections, ids and managers). The sums of `Accounted` are replaced by the
cardinality of one set, and `Apart` says that the places a manager may be in exclude each other. Proved: `PoolSound`.

**`FramingProofs`** (any senders, ids, payloads and limits, any number of messages). That the stream is the
concatenation of the frames would be said by recursion, which the provers cannot follow. `StreamInv` says instead that there
*are places*, one for each message sent and each a frame after the one before (`Placed`), such that
whatever the decoder and the wire hold of a frame is its encoding, at its place (`InFrames`), and that the stream ends
where the holder of writeMu goes on writing, or, once it was cut, within the last frame (`Unwritten`). A message that is begun
gets the next place (`PlaceNew`), a write goes on with the last frame (`WriteMore`), a read moves a unit within the stream, and
`Decode` takes the first frame off it (`FrameTaken`). `PacketShape` to `MessageUnderstood` treat the constructors and parsers: a
packet comes apart where it was put together because its length has not wrapped around (`IdAssumption`), and
each object is taken for the structure it was made from. Proved: `StreamIntact`. `ReadToTheEnd` needs that the
stream is cut within the last frame only; this is so because `WriteFails` makes the connection unusable before it
releases writeMu.

**Only model-checked.**

* Liveness (`ClosedIsForgotten`, `StopEnds`, `ComesBack`, `DisconnectCleans`, `ShutdownEnds`) and
  `GuardsRight`, the part of `TasksEnd` that speaks of ENABLED: both are out of the proof system's reach.
* `OpenIsCurrent`, which is false (section 4), is only refuted by TLC.

## 6. Not modelled

* Controllers, TLS, configuration, masking, logging, metrics and user interfaces change no shared
  state of the protocol. Target ports travel with a reservation and influence nothing here.
* Server: the shutdown hook of the data ports; a database commit with unknown outcome (possible with an
  external database, not with the embedded one); auto-read and the pending-byte counter of slow users;
  its codec, which is Netty code of its own for the format of `Framing`; the WebRTC proxy, registry and
  router, which nothing in the control pipeline calls; the supervision of the sidecar process.
* Client: the length of the backoff and the synchronous `Start` without AutoReconnect. Of forwarding, the
  data a local service sends is only the end it comes to (a failed send ends the reader); `proxy.go`
  has no caller that makes a proxy. `state.go` (a second state machine) and `triggerFallback` have no
  caller outside tests. Idle timers are a manager that may give up at any time. The failures to
  build a signal (a session description too long for a message) are left out.
* Sidecar: its `SendData` is line for line the client's, which `ManagerState` models; the router, its registry,
  and the JSON of the messages; the POC and stress programs.

## 7. Plan

Models that are left: `SidecarSupervisor` (health checks, delayed restarts, destroy), `Backpressure`
(auto-read against writability events, the pending-byte counter), `Tunnel` (a server connection and
a client connection with the control stream between them: bytes in order, both ends learn of a close).

No safety invariant or action property of the runs is left to prove, except those listed at the end of section 5.

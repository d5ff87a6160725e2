-------------------------- MODULE ClientForwarding --------------------------
(***************************************************************************)
(* forwarding.go: local connections (to the Remote Desktop service) of the *)
(* client, one for each connection of an outside user, over the control    *)
(* connection that ControlSession describes and ClientConnection provides. *)
(*                                                                         *)
(* The read loop of the control connection only creates local connections  *)
(* and fills their queues; each has a task that dials and writes and one   *)
(* that reads.  Whoever sees it end finishes it, once: finishLocal is a    *)
(* step for each lock it takes, done for the object on behalf of whoever   *)
(* won its sync.Once, while everybody else who finishes it waits.          *)
(***************************************************************************)
EXTENDS Naturals, FiniteSets, Sequences, SequencesExt

CONSTANTS
    Id,           \* connection ids, chosen by the server
    Home,         \* the control connection each belongs to (ids are unique)
    MaxControls,  \* bound: control connections
    Object,       \* bound: local connections, numbered as they are made
    QueueSize, QueueBytes, MaxLocalConnections,   \* config, in messages
    Remembered,   \* 1024
    NoticeSize,   \* 128
    None

Control == 1 .. MaxControls
NoControl == 0
NoObject == 0

ASSUME IdAssumption == IsFiniteSet(Id)    \* an id has at most 2^16 - 1 bytes
ASSUME ControlAssumption == MaxControls \in Nat
ASSUME HomeAssumption == Home \in [Id -> Control]
ASSUME ObjectAssumption == Object \subseteq Nat \ {NoObject}
ASSUME SizeAssumption ==
    /\ {QueueSize, QueueBytes, MaxLocalConnections, Remembered, NoticeSize}
           \subseteq Nat \ {0}
ASSUME NoneAssumption == None \notin {"whole", "gap"} \cup (Control \X Id)

VARIABLES
    current, clearing,  \* the control connection, and the one failConn clears away
    installed,          \* control connections so far
    cancelled,          \* c.ctx is done
    local,              \* c.localConnections
    closedOrder,        \* c.closedOrder, the ids of c.closedLocal
    obj,                \* the connectionConn objects
    reading,            \* what the read loop is doing
    clearer,            \* what the callers of closeAllLocalConns are doing
    notices, sending,   \* c.closeNotifications, and the one being sent
    overload, failing,  \* c.controlOverload, and the one being failed
    told,               \* the ids the server knows to be closed (history)
    announced,          \* how often each id was announced as closed (history)
    dropped             \* an overload signal was dropped for another's (history)

session == <<current, clearing, installed, cancelled>>
table == <<local, closedOrder>>
loops == <<reading, clearer, sending, failing>>
channels == <<notices, overload>>
history == <<told, announced, dropped>>
vars == <<session, table, obj, loops, channels, history>>

\* stage: how far finishLocal has come; conn: obj.conn; chunk: what the writer
\* is writing; a task at its "end" waits for finishLocal, if that is not over,
\* and returns.  A DATA message is "whole" if all before it were queued as well,
\* "gap" if not (missed).
Data == {"whole", "gap"}
ObjectState ==
    [id : Id \cup {None}, control : Control \cup {NoControl},
     stage : {"none", "open", "begun", "removed", "done"}, notify : BOOLEAN,
     conn : {"none", "open", "closed"}, queue : Seq(Data), chunk : Data \cup {None},
     bytes : 0 .. QueueBytes, missed : BOOLEAN,
     writer : {"none", "dial", "loop", "write", "end"}, reader : {"none", "read", "end"}]
Unused == [id |-> None, control |-> NoControl, stage |-> "none", notify |-> FALSE,
           conn |-> "none", queue |-> <<>>, chunk |-> None, bytes |-> 0, missed |-> FALSE,
           writer |-> "none", reader |-> "none"]

Notice == Control \X Id
InUse(o) == obj[o].stage # "none"
Closed(o) == obj[o].stage = "done"    \* closeCh
ClosedLocal == ToSet(closedOrder)

\* queuedBytes counts what waits and what is being written.
TypeOK ==
    /\ current \in Control \cup {NoControl} /\ clearing \in Control \cup {NoControl}
    /\ installed \in 0 .. MaxControls /\ cancelled \in BOOLEAN
    /\ local \in [Id -> Object \cup {NoObject}]
    /\ closedOrder \in Seq(Id) /\ Len(closedOrder) <= Remembered
    /\ obj \in [Object -> ObjectState]
    /\ \A o \in Object :
          obj[o].bytes = Len(obj[o].queue) + (IF obj[o].chunk = None THEN 0 ELSE 1)
    /\ reading \in [at : {"idle", "data", "close", "push", "finish"}, id : Id \cup {None},
                    obj : Object \cup {NoObject}]
    /\ clearer \in [{"fail", "stop"} ->
                       [at : {"idle", "close", "closing", "swap", "finish", "done"},
                        objs : SUBSET Object, obj : Object \cup {NoObject}]]
    /\ notices \in Seq(Notice) /\ Len(notices) <= NoticeSize
    /\ sending \in Notice \cup {None}
    /\ {overload, failing} \subseteq Control \cup {NoControl}
    /\ told \subseteq Id /\ announced \in [Id -> 0 .. 2] /\ dropped \in BOOLEAN

-----------------------------------------------------------------------------
(* Building blocks *)

\* rememberClosedLocal.  (The faulty one forgets one too early.)
FaultyRemember(id) ==
    closedOrder' = IF id \in ClosedLocal THEN closedOrder
                   ELSE Append(IF Len(closedOrder) >= Remembered - 1
                               THEN Tail(closedOrder) ELSE closedOrder, id)

Remember(id) ==
    closedOrder' = IF id \in ClosedLocal THEN closedOrder
                   ELSE Append(IF Len(closedOrder) >= Remembered
                               THEN Tail(closedOrder) ELSE closedOrder, id)

\* (The faulty one forgets to ask for that.)
FaultyAnnounce(g, id) ==
    IF cancelled THEN UNCHANGED <<channels, announced, dropped>>
    ELSE /\ announced' = [announced EXCEPT ![id] = IF @ = 2 THEN 2 ELSE @ + 1]
         /\ notices' = IF Len(notices) < NoticeSize THEN Append(notices, <<g, id>>) ELSE notices
         /\ UNCHANGED <<overload, dropped>>

\* notifyLocalClose.  When the queue is full, the one slot asks for the end of
\* the control connection; when that is taken, nothing is left to do.
Announce(g, id) ==
    IF cancelled THEN UNCHANGED <<channels, announced, dropped>>
    ELSE /\ announced' = [announced EXCEPT ![id] = IF @ = 2 THEN 2 ELSE @ + 1]
         /\ IF Len(notices) < NoticeSize
            THEN notices' = Append(notices, <<g, id>>) /\ UNCHANGED <<overload, dropped>>
            ELSE /\ overload' = IF overload = NoControl THEN g ELSE overload
                 /\ dropped' = (dropped \/ overload \notin {NoControl, g})
                 /\ UNCHANGED notices

\* sync.Once: the first call of finishLocal decides whether to notify.
FaultyBegun(x, notify) ==
    IF x.stage \in {"open", "done"}
    THEN [x EXCEPT !.stage = "begun", !.notify = notify] ELSE x

Begun(x, notify) ==
    IF x.stage = "open" THEN [x EXCEPT !.stage = "begun", !.notify = notify] ELSE x

-----------------------------------------------------------------------------
(* finishLocal *)

\* The map is left alone if it has another object, or none, for the id.
Forget(o) ==
    /\ obj[o].stage = "begun"
    /\ obj' = [obj EXCEPT ![o].stage = "removed"]
    /\ IF local[obj[o].id] = o
       THEN local' = [local EXCEPT ![obj[o].id] = NoObject] /\ Remember(obj[o].id)
       ELSE UNCHANGED table
    /\ UNCHANGED <<session, loops, channels, history>>

\* closeCh, cancel and the socket, under obj.mu; then the notification.
FaultyShut(o) ==
    /\ obj[o].stage = "removed"
    /\ obj' = [obj EXCEPT ![o].stage = "done"]
    /\ IF obj[o].notify THEN Announce(obj[o].control, obj[o].id)
                        ELSE UNCHANGED <<channels, announced, dropped>>
    /\ UNCHANGED <<session, table, loops, told>>

Shut(o) ==
    /\ obj[o].stage = "removed"
    /\ obj' = [obj EXCEPT ![o].stage = "done", ![o].conn = IF @ = "open" THEN "closed" ELSE @]
    /\ IF obj[o].notify THEN Announce(obj[o].control, obj[o].id)
                        ELSE UNCHANGED <<channels, announced, dropped>>
    /\ UNCHANGED <<session, table, loops, told>>

-----------------------------------------------------------------------------
(* The read loop *)

Rest == [at |-> "idle", id |-> None, obj |-> NoObject]

\* readConnection has decoded a message of the current connection.  The server
\* closes an id once; DATA of an id may come after it is closed by either end.
Receive(id, what) ==
    /\ reading.at = "idle" /\ ~cancelled
    /\ current = Home[id] /\ (what = "close" => id \notin told)
    /\ what = "data" => \E o \in Object : ~InUse(o) \/ obj[o].id = id
    /\ reading' = [at |-> what, id |-> id, obj |-> NoObject]
    /\ told' = IF what = "close" THEN told \cup {id} ELSE told
    /\ UNCHANGED <<session, table, obj, clearer, sending, failing, channels, announced,
                   dropped>>

\* getOrCreateConnection drops data of a connection that is lost or of an id
\* that is closed, ...
Discard ==
    /\ reading.at = "data"
    /\ current = NoControl \/ cancelled \/ reading.id \in ClosedLocal
    /\ reading' = Rest
    /\ UNCHANGED <<session, table, obj, clearer, sending, failing, channels, history>>

\* (The faulty one takes the control connection for granted.)
FaultyAccepted ==
    /\ reading.at = "data"
    /\ ~cancelled /\ reading.id \notin ClosedLocal

Accepted ==
    /\ reading.at = "data"
    /\ current # NoControl /\ ~cancelled /\ reading.id \notin ClosedLocal

\* ... finds the local connection, ...
Find ==
    LET o == local[reading.id] IN
    /\ Accepted /\ o # NoObject
    /\ reading' = [reading EXCEPT !.at = "push", !.obj = o]
    /\ UNCHANGED <<session, table, obj, clearer, sending, failing, channels, history>>

NumberLocal == Cardinality({id \in Id : local[id] # NoObject})

\* ... refuses one more than the maximum, ...
Refuse ==
    /\ Accepted /\ local[reading.id] = NoObject
    /\ NumberLocal >= MaxLocalConnections
    /\ Remember(reading.id)
    /\ Announce(current, reading.id)
    /\ reading' = Rest
    /\ UNCHANGED <<session, local, obj, clearer, sending, failing, told>>

\* ... or makes it and launches its writer.
Create ==
    /\ Accepted /\ local[reading.id] = NoObject
    /\ NumberLocal < MaxLocalConnections
    /\ \E o \in Object :
          /\ ~InUse(o) /\ \A p \in Object : p < o => InUse(p)
          /\ local' = [local EXCEPT ![reading.id] = o]
          /\ obj' = [obj EXCEPT ![o] = [Unused EXCEPT !.id = reading.id,
                        !.control = current, !.stage = "open", !.writer = "dial"]]
          /\ reading' = [reading EXCEPT !.at = "push", !.obj = o]
    /\ UNCHANGED <<session, closedOrder, clearer, sending, failing, channels, history>>

Full(x) == x.bytes >= QueueBytes \/ Len(x.queue) >= QueueSize

\* forwardToLocal under obj.mu: data of a closed connection is dropped; a queue
\* that is full ends the connection.
FaultyPush ==
    LET o == reading.obj IN
    /\ reading.at = "push"
    /\ reading' = Rest
    /\ obj' = IF Closed(o) THEN obj ELSE IF Full(obj[o]) THEN [obj EXCEPT ![o].missed = TRUE]
              ELSE [obj EXCEPT ![o].bytes = @ + 1, ![o].queue =
                        Append(@, IF obj[o].missed THEN "gap" ELSE "whole")]
    /\ UNCHANGED <<session, table, clearer, sending, failing, channels, history>>

Push ==
    LET o == reading.obj IN
    /\ reading.at = "push"
    /\ reading' = IF ~Closed(o) /\ Full(obj[o]) THEN [reading EXCEPT !.at = "finish"] ELSE Rest
    /\ obj' = IF Closed(o) THEN obj
              ELSE IF Full(obj[o])
              THEN [obj EXCEPT ![o] = Begun([@ EXCEPT !.missed = TRUE], TRUE)]
              ELSE [obj EXCEPT ![o].bytes = @ + 1, ![o].queue =
                        Append(@, IF obj[o].missed THEN "gap" ELSE "whole")]
    /\ UNCHANGED <<session, table, clearer, sending, failing, channels, history>>

\* closeConnection(id): CLOSE_CONNECTION from the server, whoever is current.
CloseConnection ==
    LET o == local[reading.id] IN
    /\ reading.at = "close"
    /\ Remember(reading.id)
    /\ IF o = NoObject THEN reading' = Rest /\ UNCHANGED obj
       ELSE /\ obj' = [obj EXCEPT ![o] = Begun(@, FALSE)]
            /\ reading' = [reading EXCEPT !.at = "finish", !.obj = o]
    /\ UNCHANGED <<session, local, clearer, sending, failing, channels, history>>

ReadFinished ==
    /\ reading.at = "finish" /\ obj[reading.obj].stage = "done"
    /\ reading' = Rest
    /\ UNCHANGED <<session, table, obj, clearer, sending, failing, channels, history>>

-----------------------------------------------------------------------------
(* writeToLocal and readFromLocal *)

Step(o, x) == obj' = [obj EXCEPT ![o] = x]
              /\ UNCHANGED <<session, table, loops, channels, history>>

\* A task's last act is finishLocal(id, obj, true).
WriterEnds(x) == Begun([x EXCEPT !.writer = "end", !.chunk = None,
                                 !.bytes = Len(x.queue)], TRUE)
WriterGivesUp(x) == Begun([x EXCEPT !.writer = "end"], TRUE)
ReaderEnds(x) == Begun([x EXCEPT !.reader = "end"], TRUE)

\* The dial succeeds (a connection that is closed by now has no use for it),
\* and the reader is launched unless the client stops.
Dialled(o) ==
    /\ obj[o].writer = "dial"
    /\ IF Closed(o) THEN Step(o, WriterEnds(obj[o]))
       ELSE IF cancelled THEN Step(o, WriterEnds([obj[o] EXCEPT !.conn = "open"]))
       ELSE Step(o, [obj[o] EXCEPT !.conn = "open", !.writer = "loop", !.reader = "read"])

DialFails(o) ==
    /\ obj[o].writer = "dial"
    /\ Step(o, WriterEnds(obj[o]))

Take(o) ==
    /\ obj[o].writer = "loop" /\ obj[o].queue # <<>>
    /\ Step(o, [obj[o] EXCEPT !.writer = "write", !.chunk = Head(obj[o].queue), !.queue = Tail(@)])

\* obj.ctx is a child of c.ctx.
LeaveLoop(o) ==
    /\ obj[o].writer = "loop" /\ (Closed(o) \/ cancelled)
    /\ Step(o, WriterEnds(obj[o]))

Write(o) ==
    /\ obj[o].writer = "write" /\ obj[o].conn = "open"
    /\ Step(o, [obj[o] EXCEPT !.writer = "loop", !.chunk = None, !.bytes = @ - 1])

\* The service has gone, takes too long, or the socket is closed; a socket that
\* is closed refuses the deadline, and what was to be written stays counted.
WriteFails(o) ==
    /\ obj[o].writer = "write"
    /\ \/ Step(o, WriterEnds(obj[o]))
       \/ obj[o].conn = "closed" /\ Step(o, WriterGivesUp(obj[o]))

\* The service closes, or data cannot be sent for this control connection.
LocalEnds(o) ==
    /\ obj[o].reader = "read" /\ obj[o].conn = "open"
    /\ Step(o, ReaderEnds(obj[o]))

ReadClosed(o) ==
    /\ obj[o].reader = "read" /\ obj[o].conn = "closed"
    /\ Step(o, ReaderEnds(obj[o]))

-----------------------------------------------------------------------------
(* The control connection and closeAllLocalConns *)

S == INSTANCE ControlSession WITH Conn <- Control, NoConn <- NoControl

ClearerAt(k, step) == [clearer EXCEPT ![k].at = step]

\* The read loop's thread connects, and reads from the new connection.
Install ==
    /\ reading.at = "idle" /\ ~cancelled /\ installed < MaxControls
    /\ S!Install(installed + 1)
    /\ installed' = installed + 1
    /\ UNCHANGED <<cancelled, table, obj, loops, channels, history>>

\* failConn; everything of the connection is cleared away by whoever calls it.
Fail(newClearer) ==
    /\ S!Lose
    /\ clearing = NoControl
    /\ clearer' = newClearer
    /\ UNCHANGED <<installed, cancelled, table, obj, reading, sending, channels, history>>

Lose == Fail(ClearerAt("fail", "swap")) /\ UNCHANGED failing

\* The loops that read the channels end with the context; the history is over.
Stop ==
    /\ clearer["stop"].at = "idle"
    /\ cancelled' = TRUE
    /\ clearer' = ClearerAt("stop", "close")
    /\ notices' = <<>> /\ overload' = NoControl
    /\ told' = {} /\ announced' = [id \in Id |-> 0] /\ dropped' = FALSE
    /\ UNCHANGED <<current, clearing, installed, table, obj, reading, sending, failing>>

\* Stop's closeConn fails the connection there is, or finds that it is lost.
StopCloses ==
    /\ clearer["stop"].at = "close" /\ current # NoControl
    /\ Fail([ClearerAt("fail", "swap") EXCEPT !["stop"].at = "closing"])
    /\ UNCHANGED failing
StopClosed ==
    /\ \/ clearer["stop"].at = "close" /\ current = NoControl
       \/ clearer["stop"].at = "closing" /\ clearing = NoControl
    /\ clearer' = ClearerAt("stop", "swap")
    /\ UNCHANGED <<session, table, obj, reading, sending, failing, channels, history>>

\* closeAllLocalConns takes everything out of the map, ...
Swap(k) ==
    /\ clearer[k].at = "swap"
    /\ clearer' = [clearer EXCEPT ![k].at = "finish",
                        ![k].objs = {local[id] : id \in Id} \ {NoObject}]
    /\ local' = [id \in Id |-> NoObject]
    /\ closedOrder' = <<>>
    /\ UNCHANGED <<session, obj, reading, sending, failing, channels, history>>

\* ... and finishes one after the other.
ClearNext(k) ==
    /\ clearer[k].at = "finish" /\ clearer[k].obj = NoObject
    /\ \E o \in clearer[k].objs :
          /\ obj' = [obj EXCEPT ![o] = Begun(@, FALSE)]
          /\ clearer' = [clearer EXCEPT ![k].objs = @ \ {o}, ![k].obj = o]
    /\ UNCHANGED <<session, table, reading, sending, failing, channels, history>>

ClearedOne(k) ==
    /\ clearer[k].obj # NoObject /\ obj[clearer[k].obj].stage = "done"
    /\ clearer' = [clearer EXCEPT ![k].obj = NoObject]
    /\ UNCHANGED <<session, table, obj, reading, sending, failing, channels, history>>

ClearedAll(k) ==
    /\ clearer[k].at = "finish" /\ clearer[k].obj = NoObject /\ clearer[k].objs = {}
    /\ IF k = "fail" THEN S!Cleared /\ clearer' = ClearerAt(k, "idle")
                     ELSE UNCHANGED <<current, clearing>> /\ clearer' = ClearerAt(k, "done")
    /\ UNCHANGED <<installed, cancelled, table, obj, reading, sending, failing, channels,
                   history>>

-----------------------------------------------------------------------------
(* closeNotificationLoop, and heartbeatLoop for the overload signal *)

TakeNotice ==
    /\ sending = None /\ notices # <<>>
    /\ sending' = Head(notices) /\ notices' = Tail(notices)
    /\ UNCHANGED <<session, table, obj, reading, clearer, failing, overload, history>>

\* sendRawFor: refused when the connection is no longer current.
SendNotice ==
    /\ sending # None
    /\ told' = IF sending[1] = current /\ ~cancelled THEN told \cup {sending[2]} ELSE told
    /\ sending' = None
    /\ UNCHANGED <<session, table, obj, reading, clearer, failing, channels, announced,
                   dropped>>

TakeOverload ==
    /\ failing = NoControl /\ overload # NoControl /\ ~cancelled
    /\ failing' = overload /\ overload' = NoControl
    /\ UNCHANGED <<session, table, obj, reading, clearer, sending, notices, history>>

FailOverloaded ==
    /\ failing # NoControl
    /\ failing' = NoControl
    /\ \/ failing = current /\ Fail(ClearerAt("fail", "swap"))
       \/ /\ failing # current
          /\ UNCHANGED <<session, table, obj, reading, clearer, sending, channels, history>>

-----------------------------------------------------------------------------
Init ==
    /\ S!Init /\ installed = 0 /\ cancelled = FALSE
    /\ local = [id \in Id |-> NoObject] /\ closedOrder = <<>>
    /\ obj = [o \in Object |-> Unused]
    /\ reading = Rest
    /\ clearer = [k \in {"fail", "stop"} |-> [at |-> "idle", objs |-> {}, obj |-> NoObject]]
    /\ notices = <<>> /\ sending = None
    /\ overload = NoControl /\ failing = NoControl
    /\ told = {} /\ announced = [id \in Id |-> 0] /\ dropped = FALSE

Finishing(o) == Forget(o) \/ Shut(o)
Writing(o) == Dialled(o) \/ DialFails(o) \/ Write(o) \/ WriteFails(o)
Reading == Discard \/ Find \/ Refuse \/ Create \/ Push \/ CloseConnection \/ ReadFinished
Clearing(k) == Swap(k) \/ ClearNext(k) \/ ClearedOne(k) \/ ClearedAll(k)
Stopping == StopCloses \/ StopClosed \/ Clearing("stop")

Next ==
    \/ Reading \/ Install \/ Lose \/ Stop \/ Stopping \/ Clearing("fail")
    \/ TakeNotice \/ SendNotice \/ TakeOverload \/ FailOverloaded
    \/ \E id \in Id, what \in {"data", "close"} : Receive(id, what)
    \/ \E o \in Object :
          \/ Finishing(o) \/ Writing(o) \/ Take(o) \/ LeaveLoop(o)
          \/ LocalEnds(o) \/ ReadClosed(o)

Spec == Init /\ [][Next]_vars

-----------------------------------------------------------------------------
(* Properties *)

\* What the client forwards for belongs to the control connection it has, or
\* to the one it is clearing away: nothing of a lost session is left behind,
\* and no DATA decoded before the loss opens anything after it.
LocalOfCurrent ==
    \A id \in Id : local[id] # NoObject =>
        /\ obj[local[id]].control \in {current, clearing} \ {NoControl}
        /\ obj[local[id]].control = Home[id]

\* Data still in the control stream when a local connection ends never opens a
\* second one ("avoid rebuilding the socket at once", rememberClosedLocal),
\* as far as the client remembers.
NeverReopened ==
    Cardinality(Id) <= Remembered =>
        \A o, p \in Object :
            InUse(o) /\ InUse(p) /\ obj[o].id = obj[p].id => o = p

\* "Duplicate or reflected close notification"
\* (TestRemoteCloseDoesNotEchoAndLocalEOFSendsOneClose): an id is announced at
\* most once, whoever finishes it and however often.
AnnouncedOnce == Cardinality(Id) <= Remembered => \A id \in Id : announced[id] <= 1

\* The service gets a prefix of what the server sent: an overflow ends the
\* connection, it never leaves a gap.
NoGap == \A o \in Object : obj[o].chunk # "gap"

\* The queues of the local connections are of their type, with every byte
\* counted, and give the service a stream without a gap.
QueuesSound == TypeOK /\ NoGap

\* The ids of the current session that are closed here and of which the server
\* will not learn: no message was sent or is queued, and the control
\* connection is not about to be ended for it.
Unreported ==
    {id \in ClosedLocal :
        /\ Home[id] = current /\ id \notin told
        /\ <<current, id>> \notin ToSet(notices) \cup {sending}
        /\ current \notin {overload, failing}
        /\ \A o \in Object : obj[o].id = id => obj[o].stage \notin {"begun", "removed"}}

\* "Never drop a close and pretend to stay online" (notifyLocalClose), unless
\* the one slot was taken by the signal of an older connection.
ClosesReported == ~cancelled /\ ~dropped => Unreported = {}

\* What is left to do when the client stops: dials and writes end by their
\* deadlines, but the service may never answer.
Pending ==
    \/ Reading \/ Stopping \/ Clearing("fail") \/ FailOverloaded \/ SendNotice
    \/ \E o \in Object : Finishing(o) \/ Writing(o) \/ LeaveLoop(o) \/ ReadClosed(o)

\* The same, once the client stops, by the guards of these actions.
Ready ==
    \/ reading.at \in {"data", "push", "close"}
    \/ reading.at = "finish" /\ Closed(reading.obj)
    \/ clearer["stop"].at = "close"
    \/ clearer["stop"].at = "closing" /\ clearing = NoControl
    \/ failing # NoControl \/ sending # None
    \/ \E k \in {"fail", "stop"} :
          \/ clearer[k].at = "swap"
          \/ clearer[k].at = "finish" /\ clearer[k].obj = NoObject
          \/ clearer[k].obj # NoObject /\ Closed(clearer[k].obj)
    \/ \E o \in Object :
          \/ obj[o].stage \in {"begun", "removed"} \/ obj[o].writer \in {"dial", "loop", "write"}
          \/ obj[o].reader = "read" /\ obj[o].conn = "closed"

Ended ==
    /\ clearer["stop"].at = "done" /\ reading = Rest
    /\ \A o \in Object : /\ obj[o].stage \in {"none", "done"}
                         /\ obj[o].writer \in {"none", "end"}
                         /\ obj[o].reader \in {"none", "end"}

\* Stop waits for every task, while tasks wait for their socket, their queue,
\* their context and for whoever finishes their object.  When nobody has a step
\* left to take, all have ended.
NobodyStuck == cancelled /\ ~Ready => Ended

\* Ready holds exactly when one of these actions can be taken.
GuardsRight == cancelled => (Ready <=> ENABLED Pending)

\* As long as a task has not ended after Stop, some step can be taken
\* (closeAllLocalConns, finishLocal, Stop's c.wg.Wait).
TasksEnd == NobodyStuck /\ GuardsRight
=============================================================================

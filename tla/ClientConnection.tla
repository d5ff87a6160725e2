-------------------------- MODULE ClientConnection --------------------------
(***************************************************************************)
(* connection.go and client.go: the control connection of a started client *)
(* that reconnects by itself (AutoReconnect).                               *)
(*                                                                         *)
(* These threads share the client: `run' (runConnections: dial, register,  *)
(* read, retry), `beat' (heartbeatLoop), `stop' (a caller of Stop) and      *)
(* senders (closeNotificationLoop and the readers of local connections,    *)
(* which send for the connection they remember).  A step is what a thread  *)
(* does in one critical section of c.mu; sessionMu and writeMu are held    *)
(* across steps.                                                           *)
(*                                                                         *)
(* Whatever ends a connection that works is a fault, and there are at most *)
(* MaxFaults: a failed dial, a broken or silent network, a refusal by the  *)
(* server, an answer or a write that takes too long.                       *)
(***************************************************************************)
EXTENDS Naturals

CONSTANTS
    Sender,       \* tasks that send
    MaxRetries,   \* config.MaxRetries, 0 for no limit
    MaxFaults     \* bound: faults

ASSUME SenderAssumption == Sender \cap {"run", "beat", "stop", "none"} = {}
ASSUME RetriesAssumption == MaxRetries \in Nat
ASSUME FaultsAssumption == MaxFaults \in Nat

\* Every connection but the first follows a fault.
Conn == 1 .. (MaxFaults + 1)
NoConn == 0
ConnOrNone == Conn \cup {NoConn}

VARIABLES
    conn,         \* c.conn
    registered, port, pending, fresh,   \* registered, externalPort # 0,
                  \* heartbeatSent, latencyAt # 0, protected by c.mu
    state,        \* c.state
    cancelled,    \* c.ctx is done
    sessionMu, writeMu,   \* the threads that hold them
    attempts,     \* attempts of runConnections, counted as far as it matters
    th,           \* what each thread is doing
    dialled,      \* the number of connections dialled
    socket,       \* each of them
    due,          \* the answers each has yet to deliver
    faults        \* faults so far

session == <<registered, port, pending, fresh>>
locks == <<sessionMu, writeMu>>
network == <<dialled, socket, due>>
vars == <<conn, session, state, cancelled, locks, attempts, th, network, faults>>

Thread == {"run", "beat", "stop"} \cup Sender
State == {"Disconnected", "Connecting", "Connected", "Registered", "Reconnecting"}

\* conn: the connection the thread has taken a snapshot of; next: where it goes
\* on after failConn or a callback.
At == {"idle", "connect", "dial", "install", "installed", "register", "loop", "read",
       "gotRegister", "gotBeat", "ready", "retry", "wait", "heartbeat", "send", "write",
       "unlock", "closeConn", "fail", "cleanup", "lost", "callback", "waitAll",
       "gaveUp", "done"}
NextStep == {"none", "idle", "dial", "register", "read", "retry", "wait", "unlock",
             "closeConn", "waitAll", "done"}
Msg == {"none", "register", "beat", "data"}

ThreadState == [at : At, conn : ConnOrNone, next : NextStep, msg : Msg]

Resting == [at |-> "idle", conn |-> NoConn, next |-> "none", msg |-> "none"]

TypeOK ==
    /\ conn \in ConnOrNone
    /\ <<registered, port, fresh, cancelled>> \in BOOLEAN \X BOOLEAN \X BOOLEAN \X BOOLEAN
    /\ pending \in {"none", "sent", "expired"}
    /\ state \in State
    /\ sessionMu \in Thread \cup {"none"} /\ writeMu \in Thread \cup {"none"}
    /\ attempts \in 0 .. IF MaxRetries = 0 THEN 1 ELSE MaxRetries
    /\ th \in [Thread -> ThreadState]
    /\ dialled \in 0 .. MaxFaults + 1
    /\ socket \in [Conn -> {"none", "up", "silent", "broken", "closed"}]
    /\ due \in [Conn -> [register : BOOLEAN, beat : 0 .. 2]]
    /\ faults \in 0 .. MaxFaults

-----------------------------------------------------------------------------
(* Building blocks *)

\* A thread goes on and forgets what it no longer uses.
GoTo(t, step) ==
    th' = [th EXCEPT ![t] =
        [Resting EXCEPT !.at = step,
            !.conn = IF step \in {"install", "read", "gotRegister", "gotBeat", "ready", "write",
                                  "cleanup"} THEN th[t].conn ELSE NoConn,
            !.next = IF step \in {"cleanup", "lost"} THEN th[t].next ELSE "none",
            !.msg = IF step = "write" THEN th[t].msg ELSE "none"]]

Fault == faults < MaxFaults /\ faults' = faults + 1
Reachable(g) == g # NoConn /\ socket[g] = "up"
Known(g) == g = conn \/ socket[g] = "closed"   \* g is or was the connection
CloseSocket(g) == socket' = [socket EXCEPT ![g] = "closed"]

\* setState ignores a state that contradicts c.conn, or that is not the last.
Ignored(s) ==
    \/ s \in {"Connected", "Registered"} /\ conn = NoConn
    \/ s = "Disconnected" /\ conn # NoConn
    \/ s # "Disconnected" /\ cancelled

\* The callback runs after c.mu is released.
SetState(t, s, next) ==
    IF Ignored(s) \/ state = s
    THEN GoTo(t, next) /\ UNCHANGED state
    ELSE /\ state' = s
         /\ th' = [th EXCEPT ![t].at = "callback", ![t].next = next]

Callback(t) ==
    /\ th[t].at = "callback"
    /\ GoTo(t, th[t].next)
    /\ UNCHANGED <<conn, session, state, cancelled, locks, attempts, network, faults>>

-----------------------------------------------------------------------------
(* failConn *)

\* sessionMu.Lock(), as if there were no such mutex.
FaultySessionFree == TRUE

SessionFree == sessionMu = "none"

\* Only the current connection is failed; a snapshot of an older one is late.
Fail(t) ==
    /\ th[t].at = "fail"
    /\ IF th[t].conn = NoConn
       THEN GoTo(t, th[t].next) /\ UNCHANGED <<conn, session, sessionMu>>
       ELSE /\ SessionFree
            /\ IF conn # th[t].conn
               THEN GoTo(t, th[t].next) /\ UNCHANGED <<conn, session, sessionMu>>
               ELSE /\ conn' = NoConn /\ port' = FALSE /\ pending' = "none" /\ fresh' = FALSE
                    /\ sessionMu' = t
                    /\ GoTo(t, "cleanup")
                    /\ UNCHANGED registered
    /\ UNCHANGED <<state, cancelled, writeMu, attempts, network, faults>>

\* conn.Close() and closeAllLocalConns, still holding sessionMu.
Cleanup(t) ==
    /\ th[t].at = "cleanup"
    /\ CloseSocket(th[t].conn)
    /\ sessionMu' = "none"
    /\ GoTo(t, "lost")
    /\ UNCHANGED <<conn, session, state, cancelled, writeMu, attempts, dialled, due,
                   faults>>

Lost(t) ==
    /\ th[t].at = "lost"
    /\ SetState(t, "Disconnected", th[t].next)
    /\ UNCHANGED <<conn, session, cancelled, locks, attempts, network, faults>>

\* closeConn: the current connection, whichever it is by now.
CloseConn(t, next) ==
    /\ th[t].at = "closeConn"
    /\ th' = [th EXCEPT ![t].at = "fail", ![t].conn = conn, ![t].next = next]
    /\ UNCHANGED <<conn, session, state, cancelled, locks, attempts, network, faults>>

-----------------------------------------------------------------------------
(* sendRawFor *)

\* After a failed connect or Register; the first attempt (no retry, none of
\* attempts) is made by Start and leaves a connection it may have to others.
AfterError == IF attempts = 0 THEN "retry" ELSE "closeConn"

\* Where a thread goes on after its send.
AfterSend(t, ok) == IF t # "run" THEN "idle" ELSE IF ok THEN "loop" ELSE AfterError

\* A send for a connection that is not the current one (any more) is refused.
Send(t) ==
    /\ th[t].at = "send" /\ writeMu = "none"
    /\ IF th[t].conn # NoConn /\ conn = th[t].conn /\ ~cancelled
       THEN writeMu' = t /\ GoTo(t, "write")
       ELSE GoTo(t, AfterSend(t, FALSE)) /\ UNCHANGED writeMu
    /\ UNCHANGED <<conn, session, state, cancelled, sessionMu, attempts, network,
                   faults>>

\* The write reaches the server, which answers it, or disappears in silence.
Write(t) ==
    LET g == th[t].conn IN
    /\ th[t].at = "write"
    /\ socket[g] \in {"up", "silent"}
    /\ due' = IF socket[g] = "silent" THEN due
              ELSE [due EXCEPT ![g].register = @ \/ th[t].msg = "register",
                               ![g].beat = IF th[t].msg = "beat" THEN @ + 1 ELSE @]
    /\ writeMu' = "none"
    /\ GoTo(t, AfterSend(t, TRUE))
    /\ UNCHANGED <<conn, session, state, cancelled, sessionMu, attempts, dialled,
                   socket, faults>>

\* The write fails (by its deadline, if nothing else): failConn, under writeMu.
WriteFails(t) ==
    /\ th[t].at = "write"
    /\ th' = [th EXCEPT ![t].at = "fail", ![t].next = "unlock", ![t].msg = "none"]
    /\ UNCHANGED <<conn, session, state, cancelled, locks, attempts, network>>

WriteError(t) == WriteFails(t) /\ socket[th[t].conn] # "up" /\ UNCHANGED faults
WriteTimeout(t) == WriteFails(t) /\ socket[th[t].conn] = "up" /\ Fault

FaultyUnlock(t) ==
    /\ th[t].at = "unlock"
    /\ GoTo(t, AfterSend(t, FALSE))
    /\ UNCHANGED <<conn, session, state, cancelled, locks, attempts, network, faults>>

Unlock(t) ==
    /\ th[t].at = "unlock"
    /\ writeMu' = "none"
    /\ GoTo(t, AfterSend(t, FALSE))
    /\ UNCHANGED <<conn, session, state, cancelled, sessionMu, attempts, network,
                   faults>>

-----------------------------------------------------------------------------
(* run: connect and Register *)

Connect ==
    /\ th["run"].at = "connect"
    /\ IF cancelled THEN GoTo("run", AfterError) /\ UNCHANGED state
                    ELSE SetState("run", "Connecting", "dial")
    /\ UNCHANGED <<conn, session, cancelled, locks, attempts, network, faults>>

Dial ==
    /\ th["run"].at = "dial" /\ dialled <= MaxFaults
    /\ dialled' = dialled + 1
    /\ socket' = [socket EXCEPT ![dialled'] = "up"]
    /\ th' = [th EXCEPT !["run"].at = "install", !["run"].conn = dialled']
    /\ UNCHANGED <<conn, session, state, cancelled, locks, attempts, due, faults>>

NoDial ==
    /\ th["run"].at = "dial"
    /\ SetState("run", "Disconnected", AfterError)
    /\ UNCHANGED <<conn, session, cancelled, locks, attempts, network>>

DialCancelled == NoDial /\ cancelled /\ UNCHANGED faults
DialFails == NoDial /\ ~cancelled /\ Fault

Install ==
    LET g == th["run"].conn IN
    /\ th["run"].at = "install" /\ SessionFree
    /\ IF cancelled \/ conn # NoConn
       THEN /\ CloseSocket(g)
            /\ GoTo("run", AfterError)
            /\ UNCHANGED <<conn, session>>
       ELSE /\ conn' = g
            /\ registered' = FALSE /\ port' = FALSE /\ pending' = "none" /\ fresh' = FALSE
            /\ GoTo("run", "installed")
            /\ UNCHANGED socket
    /\ UNCHANGED <<state, cancelled, locks, attempts, dialled, due, faults>>

Installed ==
    /\ th["run"].at = "installed"
    /\ SetState("run", "Connected", "register")
    /\ UNCHANGED <<conn, session, cancelled, locks, attempts, network, faults>>

Register ==
    /\ th["run"].at = "register"
    /\ th' = [th EXCEPT !["run"].at = "send", !["run"].conn = conn, !["run"].msg = "register"]
    /\ UNCHANGED <<conn, session, state, cancelled, locks, attempts, network, faults>>

-----------------------------------------------------------------------------
(* run: readConnection *)

Loop ==
    /\ th["run"].at = "loop"
    /\ IF cancelled THEN GoTo("run", "done")
                    ELSE th' = [th EXCEPT !["run"].at = "read", !["run"].conn = conn]
    /\ UNCHANGED <<conn, session, state, cancelled, locks, attempts, network, faults>>

\* A decoded message of the current connection is going to be handled, also if
\* the connection is lost before it is.
Decode(rest, step) ==
    LET g == th["run"].conn IN
    /\ th["run"].at = "read" /\ Reachable(g) /\ conn = g /\ ~cancelled
    /\ due' = [due EXCEPT ![g] = rest]
    /\ GoTo("run", step)
    /\ UNCHANGED <<conn, session, state, cancelled, locks, attempts, dialled, socket,
                   faults>>

Awaited == due[th["run"].conn]
DecodeRegister ==
    /\ th["run"].at = "read" /\ th["run"].conn # NoConn /\ Awaited.register
    /\ Decode([Awaited EXCEPT !.register = FALSE], "gotRegister")
DecodeBeat ==
    /\ th["run"].at = "read" /\ th["run"].conn # NoConn /\ Awaited.beat > 0
    /\ Decode([Awaited EXCEPT !.beat = @ - 1], "gotBeat")

\* readConnection returns; a connection that was registered resets the retries.
ReadEnds ==
    /\ th["run"].at = "read"
    /\ attempts' = IF registered THEN 0 ELSE attempts
    /\ th' = [th EXCEPT !["run"].at = "fail", !["run"].next = "retry"]
    /\ UNCHANGED <<conn, session, state, cancelled, locks, network>>

ReadError ==
    /\ ~Reachable(th["run"].conn) \/ conn # th["run"].conn
    /\ ReadEnds
    /\ UNCHANGED faults
ReadTimeout == Reachable(th["run"].conn) /\ ReadEnds /\ Fault
ReadStopped == cancelled /\ ReadEnds /\ UNCHANGED faults   \* a message comes in after Stop

\* handleRegisterAck, restoring the port of a connection that is lost.
FaultyHandleRegister ==
    /\ th["run"].at = "gotRegister"
    /\ registered' = TRUE /\ port' = TRUE
    /\ GoTo("run", "ready")
    /\ UNCHANGED <<conn, pending, fresh, state, cancelled, locks, attempts, network,
                   faults>>

HandleRegister ==
    /\ th["run"].at = "gotRegister"
    /\ IF conn = NoConn \/ cancelled
       THEN GoTo("run", "read") /\ UNCHANGED <<registered, port>>
       ELSE registered' = TRUE /\ port' = TRUE /\ GoTo("run", "ready")
    /\ UNCHANGED <<conn, pending, fresh, state, cancelled, locks, attempts, network,
                   faults>>

Ready ==
    /\ th["run"].at = "ready"
    /\ SetState("run", "Registered", "read")
    /\ UNCHANGED <<conn, session, cancelled, locks, attempts, network, faults>>

HandleHeartbeatAck ==
    /\ th["run"].at = "gotBeat"
    /\ IF conn # NoConn /\ pending # "none"
       THEN pending' = "none" /\ fresh' = TRUE
       ELSE UNCHANGED <<pending, fresh>>
    /\ GoTo("run", "read")
    /\ UNCHANGED <<conn, registered, port, state, cancelled, locks, attempts, network,
                   faults>>

-----------------------------------------------------------------------------
(* run: the retries *)

\* MaxRetries = 0 taken for a limit, and a limit passed by one.
FaultyExhausted == attempts >= MaxRetries
LateExhausted == MaxRetries > 0 /\ attempts > MaxRetries

Exhausted == MaxRetries > 0 /\ attempts >= MaxRetries

Retry ==
    /\ th["run"].at = "retry"
    /\ IF cancelled THEN GoTo("run", "done") /\ UNCHANGED state
       ELSE IF Exhausted THEN GoTo("run", "gaveUp") /\ UNCHANGED state
       ELSE SetState("run", "Reconnecting", "wait")
    /\ UNCHANGED <<conn, session, cancelled, locks, attempts, network, faults>>

\* The backoff timer, or ctx.
Wait ==
    /\ th["run"].at = "wait"
    /\ IF cancelled THEN GoTo("run", "done") /\ UNCHANGED attempts
       ELSE /\ attempts' = IF MaxRetries > 0 THEN attempts + 1 ELSE 1
            /\ GoTo("run", "connect")
    /\ UNCHANGED <<conn, session, state, cancelled, locks, network, faults>>

-----------------------------------------------------------------------------
(* beat: heartbeatLoop *)

\* A tick finds the heartbeat overdue, or the next one due.
Tick ==
    /\ th["beat"].at = "idle"
    /\ IF pending = "expired"
       THEN th' = [th EXCEPT !["beat"].at = "fail", !["beat"].conn = conn,
                             !["beat"].next = "idle"]
       ELSE state \in {"Connected", "Registered"} /\ GoTo("beat", "heartbeat")
    /\ UNCHANGED <<conn, session, state, cancelled, locks, attempts, network, faults>>

\* SendHeartbeat, without the check that none is pending.
FaultySendHeartbeat ==
    /\ th["beat"].at = "heartbeat"
    /\ IF conn = NoConn
       THEN GoTo("beat", "idle") /\ UNCHANGED pending
       ELSE /\ pending' = "sent"
            /\ th' = [th EXCEPT !["beat"].at = "send", !["beat"].conn = conn,
                                !["beat"].msg = "beat"]
    /\ UNCHANGED <<conn, registered, port, fresh, state, cancelled, locks, attempts,
                   network, faults>>

\* At most one heartbeat is pending.
SendHeartbeat ==
    /\ th["beat"].at = "heartbeat"
    /\ IF conn = NoConn \/ pending = "sent"
       THEN GoTo("beat", "idle") /\ UNCHANGED pending
       ELSE IF pending = "expired"
       THEN /\ th' = [th EXCEPT !["beat"].at = "fail", !["beat"].conn = conn,
                                !["beat"].next = "idle"]
            /\ UNCHANGED pending
       ELSE /\ pending' = "sent"
            /\ th' = [th EXCEPT !["beat"].at = "send", !["beat"].conn = conn,
                                !["beat"].msg = "beat"]
    /\ UNCHANGED <<conn, registered, port, fresh, state, cancelled, locks, attempts,
                   network, faults>>

\* A connection, the current one or an older one, is reported overloaded.
Overload(g) ==
    /\ th["beat"].at = "idle" /\ Known(g) /\ ~cancelled
    /\ IF g = conn THEN Fault ELSE UNCHANGED faults
    /\ th' = [th EXCEPT !["beat"].at = "fail", !["beat"].conn = g, !["beat"].next = "idle"]
    /\ UNCHANGED <<conn, session, state, cancelled, locks, attempts, network>>

\* The heartbeat timeout passes.
Expires ==
    /\ pending = "sent"
    /\ pending' = "expired"
    /\ UNCHANGED <<conn, registered, port, fresh, state, cancelled, locks, attempts, th,
                   network>>

Expire == ~Reachable(conn) /\ Expires /\ UNCHANGED faults
ExpireEarly == Reachable(conn) /\ Expires /\ Fault

-----------------------------------------------------------------------------
(* senders: something to send for a connection that may be gone by now *)

SendFor(t, g) ==
    /\ th[t].at = "idle" /\ Known(g)
    /\ th' = [th EXCEPT ![t].at = "send", ![t].conn = g, ![t].msg = "data"]
    /\ UNCHANGED <<conn, session, state, cancelled, locks, attempts, network, faults>>

\* ctx.Done() ends the loops of beat and of the senders.
Leave(t) ==
    /\ th[t].at = "idle" /\ cancelled
    /\ GoTo(t, "done")
    /\ UNCHANGED <<conn, session, state, cancelled, locks, attempts, network, faults>>

-----------------------------------------------------------------------------
(* stop *)

Stop ==
    /\ th["stop"].at = "idle"
    /\ cancelled' = TRUE
    /\ GoTo("stop", "closeConn")
    /\ UNCHANGED <<conn, session, state, locks, attempts, network, faults>>

\* wg.Wait() left out.
FaultyStopWait ==
    /\ th["stop"].at = "waitAll"
    /\ SetState("stop", "Disconnected", "done")
    /\ UNCHANGED <<conn, session, cancelled, locks, attempts, network, faults>>

StopWait ==
    /\ th["stop"].at = "waitAll"
    /\ \A t \in Thread \ {"stop"} : th[t].at \in {"done", "gaveUp"}
    /\ SetState("stop", "Disconnected", "done")
    /\ UNCHANGED <<conn, session, cancelled, locks, attempts, network, faults>>

-----------------------------------------------------------------------------
(* The network: a connection breaks, is refused, or falls silent. *)

Disturb(g, how) ==
    /\ socket[g] = "up" /\ Fault
    /\ socket' = [socket EXCEPT ![g] = how]
    /\ UNCHANGED <<conn, session, state, cancelled, locks, attempts, th, dialled, due>>

-----------------------------------------------------------------------------
Init ==
    /\ conn = NoConn
    /\ registered = FALSE /\ port = FALSE /\ pending = "none" /\ fresh = FALSE
    /\ state = "Disconnected"
    /\ cancelled = FALSE
    /\ sessionMu = "none" /\ writeMu = "none"
    /\ attempts = 0
    /\ th = [t \in Thread |-> IF t = "run" THEN [Resting EXCEPT !.at = "connect"] ELSE Resting]
    /\ dialled = 0
    /\ socket = [g \in Conn |-> "none"]
    /\ due = [g \in Conn |-> [register |-> FALSE, beat |-> 0]]
    /\ faults = 0

\* What every thread does: calls of failConn, sendRawFor and setState.
Common(t) ==
    Callback(t) \/ Fail(t) \/ Cleanup(t) \/ Lost(t) \/ Write(t) \/ WriteError(t) \/ Unlock(t)

Run ==
    \/ Common("run") \/ CloseConn("run", "retry")
    \/ Connect \/ Dial \/ DialCancelled \/ Install \/ Installed \/ Register
    \/ Loop \/ DecodeRegister \/ DecodeBeat \/ ReadError \/ HandleRegister \/ Ready \/ HandleHeartbeatAck
    \/ Retry \/ Wait

Beat == Common("beat") \/ Tick \/ SendHeartbeat \/ Leave("beat")
Sending(t) == Common(t) \/ Leave(t)
Stopping == Common("stop") \/ CloseConn("stop", "waitAll") \/ StopWait

Next ==
    \/ Run \/ Beat \/ Stopping \/ Stop \/ Expire
    \/ \E t \in Sender : Sending(t) \/ \E g \in Conn : SendFor(t, g)
    \/ \E t \in Thread : Send(t) \/ WriteTimeout(t)
    \/ DialFails \/ ReadTimeout \/ ReadStopped \/ ExpireEarly
    \/ \E g \in Conn : Overload(g) \/ Disturb(g, "broken") \/ Disturb(g, "silent")

Spec == Init /\ [][Next]_vars

\* Threads run, timers fire, a connection that works delivers; writeMu is fair
\* (Go's mutexes do not starve a waiter) and so is select among what is ready.
\* Nobody has to call Stop, to send for old connections, or to cause a fault.
Fairness ==
    /\ WF_vars(Run) /\ WF_vars(Beat) /\ WF_vars(Stopping) /\ WF_vars(Expire)
    /\ SF_vars(DecodeRegister) /\ SF_vars(Tick) /\ SF_vars(Leave("beat"))
    /\ \A t \in Thread : SF_vars(Send(t))
    /\ \A t \in Sender : WF_vars(Sending(t)) /\ SF_vars(Leave(t))

FairSpec == Spec /\ Fairness

-----------------------------------------------------------------------------
(* Properties *)

\* A client without a control connection offers nothing of the last one: a
\* register ACK decoded before the loss and handled after it restores no port,
\* and no heartbeat of it is awaited (TestLateRegisterAckCannotRestore...).
NothingOfTheDead == conn = NoConn => ~port /\ ~fresh /\ pending = "none"

\* While the read loop waits on the current connection, the state is that of
\* this connection: the late end of an older one never shows through.
StateOfCurrent ==
    th["run"].at = "read" /\ conn # NoConn /\ ~cancelled
        => state = IF registered THEN "Registered" ELSE "Connected"

\* What the client says of its connection is true of the current one.
FactsOfCurrent == NothingOfTheDead /\ StateOfCurrent

\* The next heartbeat ACK of the current connection answers the pending
\* heartbeat: a late one never passes for a low latency.
AckMatches ==
    conn # NoConn =>
        due[conn].beat + (IF th["run"].at = "gotBeat" THEN 1 ELSE 0)
                       + (IF th["beat"].at \in {"send", "write"} /\ th["beat"].conn = conn
                          THEN 1 ELSE 0)
            <= IF pending = "none" THEN 0 ELSE 1

\* When Stop returns, nothing is left: no thread, no socket, no state.
StoppedIsQuiet ==
    th["stop"].at = "done" =>
        /\ conn = NoConn /\ state = "Disconnected"
        /\ \A g \in Conn : g <= dialled => socket[g] = "closed"
        /\ \A t \in Thread : th[t].at \in {"done", "gaveUp"}

\* The connections seen by the rest of the client are those of ControlSession.
Clearing == IF \E t \in Thread : th[t].at = "cleanup"
            THEN th[CHOOSE t \in Thread : th[t].at = "cleanup"].conn ELSE NoConn
C == INSTANCE ControlSession WITH current <- conn, clearing <- Clearing
OneSession == C!Spec

\* Stop returns, whatever the threads are doing when it is called.
StopEnds == cancelled ~> th["stop"].at = "done"

\* A client that is not stopped and has no limit of retries is registered for
\* good once the faults are over.
ComesBack ==
    MaxRetries = 0 => <>[](cancelled \/ (conn # NoConn /\ registered /\ state = "Registered"))
=============================================================================

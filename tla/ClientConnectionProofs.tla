------------------------ MODULE ClientConnectionProofs ------------------------
(***************************************************************************)
(* Proofs about ClientConnection, for any senders, any limit of retries    *)
(* and any number of faults.                                               *)
(*                                                                         *)
(* The inductive invariant says what each thread may be doing with which   *)
(* connection.  Its parts are: how far a thread may have come (Paths), the *)
(* mutex of failConn (Clearance), the sockets and who will close each      *)
(* (Sockets), the heartbeats under way (Beats), the read loop and the      *)
(* state it shows (RunOfCurrent) and Stop (StopOfAll).                     *)
(***************************************************************************)
EXTENDS ClientConnection, TLAPS

\* Threads that are somewhere inside failConn or a callback have a place to go
\* on from there; Stop runs once; only the heartbeat loop sends heartbeats.
Paths ==
    /\ \A t \in Thread :
          /\ th[t].at \in {"callback", "fail", "cleanup", "lost"} => th[t].next # "none"
          /\ th[t].msg = "beat" => t = "beat"
    /\ cancelled <=> th["stop"].at # "idle"
    /\ th["stop"].at \in {"idle", "closeConn", "fail", "cleanup", "lost", "callback",
                          "waitAll", "done"}
    /\ th["run"].at \in {"fail", "cleanup", "lost"} => th["run"].next \in {"retry", "unlock"}
    /\ th["stop"].at \in {"fail", "cleanup", "lost"} => th["stop"].next = "waitAll"
    /\ th["stop"].at = "callback" => th["stop"].next \in {"waitAll", "done"}
    /\ th["run"].at = "wait" \/ (th["run"].at = "callback" /\ th["run"].next = "wait")
          => ~Exhausted

\* sessionMu is held exactly while a lost connection is cleared away.
Clearance ==
    \A t \in Thread :
        /\ sessionMu = t <=> th[t].at = "cleanup"
        /\ th[t].at = "cleanup" => conn = NoConn /\ th[t].conn # NoConn

\* A connection that run has dialled is nobody else's until it is installed.
Dialled ==
    th["run"].at = "install" =>
        /\ th["run"].conn = dialled /\ dialled # 0
        /\ socket[dialled] # "closed" /\ conn # dialled /\ due[dialled].beat = 0
        /\ \A t \in Thread \ {"run"} : th[t].conn # dialled

\* Connections are numbered as they are dialled.
Numbers ==
    /\ conn <= dialled /\ \A t \in Thread : th[t].conn <= dialled
    /\ \A g \in Conn : /\ socket[g] = "none" <=> g > dialled
                       /\ g > dialled => due[g].beat = 0

\* Every socket that is open has a thread that will close it, or is current.
Clears(t, g) == th[t].at = "cleanup" /\ th[t].conn = g
Installs(g) == th["run"].at = "install" /\ th["run"].conn = g
Sockets ==
    \A g \in Conn : socket[g] \notin {"none", "closed"} =>
        g = conn \/ Installs(g) \/ \E t \in Thread : Clears(t, g)

\* The heartbeats of g and their answers that are under way.
Handled(g) == IF th["run"].at = "gotBeat" /\ th["run"].conn = g THEN 1 ELSE 0
Sent(g) == IF th["beat"].at \in {"send", "write"} /\ th["beat"].conn = g THEN 1 ELSE 0
InFlight(g) == due[g].beat + Handled(g) + Sent(g)

\* There is at most one, on any connection, and none that nobody waits for.
Beats ==
    \A g \in Conn : /\ InFlight(g) <= 1
                    /\ g = conn /\ pending = "none" => InFlight(g) = 0

\* Only run installs, so that a connection it works on is current or lost.
Working ==
    \/ th["run"].at \in {"send", "write", "read", "gotRegister", "gotBeat", "ready", "fail"}
    \/ th["run"].at = "callback" /\ th["run"].next = "read"

\* Where run may be while there is a connection, and the state it has shown.
Shown ==
    \/ th["run"].at \in {"register", "send", "write", "loop", "read", "gotRegister", "gotBeat"}
    \/ th["run"].at = "callback" /\ th["run"].next \in {"register", "read"}

RunOfCurrent ==
    /\ Working => conn \in {NoConn, th["run"].conn}
    /\ conn # NoConn /\ ~cancelled =>
          /\ Shown \/ th["run"].at \in {"installed", "ready", "fail"}
          /\ Shown => state = IF registered THEN "Registered" ELSE "Connected"
          /\ th["run"].at = "installed" => ~registered
          /\ th["run"].at = "ready" => registered

\* Stop has lost the connection before it waits, and waits for everybody.
StopOfAll ==
    /\ th["stop"].at = "fail" => conn \in {NoConn, th["stop"].conn}
    /\ th["stop"].at \in {"cleanup", "lost", "callback", "waitAll", "done"} => conn = NoConn
    /\ th["stop"].at = "done" \/ (th["stop"].at = "callback" /\ th["stop"].next = "done") =>
          /\ state = "Disconnected"
          /\ \A t \in Thread \ {"stop"} : th[t].at \in {"done", "gaveUp"}

Inv ==
    /\ TypeOK /\ Paths /\ Clearance /\ Numbers /\ Dialled /\ Sockets /\ Beats
    /\ RunOfCurrent /\ StopOfAll /\ NothingOfTheDead

-----------------------------------------------------------------------------
(* What a step does to the thread that takes it.                           *)

LEMMA Names ==
    /\ {"run", "beat", "stop"} \subseteq Thread /\ Sender \subseteq Thread
    /\ "run" \notin Sender /\ "beat" \notin Sender /\ "stop" \notin Sender
    /\ "none" \notin Thread /\ MaxFaults \in Nat /\ MaxRetries \in Nat
BY SenderAssumption, FaultsAssumption, RetriesAssumption DEF Thread

Onward == NextStep \ {"none"}

LEMMA StepNames ==
    /\ {"idle", "connect", "fail", "send", "read", "install"} \subseteq At
    /\ {"none", "idle", "retry", "unlock", "waitAll"} \subseteq NextStep
    /\ {"none", "register", "beat", "data"} \subseteq Msg
    /\ NoConn \in ConnOrNone /\ Conn \subseteq ConnOrNone
BY DEF At, NextStep, Msg, ConnOrNone

\* Thread t moves: its fields afterwards, and those of a thread that went by
\* GoTo or by SetState.
Others(t) == th' \in [Thread -> ThreadState] /\ \A u \in Thread \ {t} : th'[u] = th[u]

To(t, step) ==
    /\ Others(t)
    /\ th'[t].at = step
    /\ th'[t].conn = IF step \in {"install", "read", "gotRegister", "gotBeat", "ready", "write",
                                  "cleanup"} THEN th[t].conn ELSE NoConn
    /\ th'[t].next = IF step \in {"cleanup", "lost"} THEN th[t].next ELSE "none"
    /\ th'[t].msg = IF step = "write" THEN th[t].msg ELSE "none"

Turn(t, step, g, next, msg) ==
    /\ Others(t)
    /\ th'[t].at = step /\ th'[t].conn = g /\ th'[t].next = next /\ th'[t].msg = msg

Shows(t, s, next) ==
    \/ (Ignored(s) \/ state = s) /\ To(t, next) /\ state' = state
    \/ /\ ~Ignored(s) /\ state # s /\ state' = s
       /\ Turn(t, "callback", th[t].conn, next, th[t].msg)

\* The ways a step may concern the session: not at all, by failConn, by connect.
Apart == /\ UNCHANGED <<conn, sessionMu>>
         /\ \A u \in Thread : th[u].at = "cleanup" => th'[u] = th[u]
Taken(t) == /\ conn # NoConn /\ conn' = NoConn
            /\ th'[t].at = "cleanup" /\ th'[t].conn = conn
Begins(g) == /\ conn = NoConn /\ g \in Conn /\ conn' = g
             /\ sessionMu = "none" /\ sessionMu' = "none"

\* GoTo moves a thread and leaves it only what it still uses.
LEMMA GoToEffect ==
    ASSUME TypeOK, NEW t \in Thread, NEW step \in At, GoTo(t, step)
    PROVE  To(t, step)
<1> DEFINE c == IF step \in {"install", "read", "gotRegister", "gotBeat", "ready", "write",
                             "cleanup"} THEN th[t].conn ELSE NoConn
           n == IF step \in {"cleanup", "lost"} THEN th[t].next ELSE "none"
           k == IF step = "write" THEN th[t].msg ELSE "none"
           r == [Resting EXCEPT !.at = step, !.conn = c, !.next = n, !.msg = k]
<1>1. th \in [Thread -> ThreadState] /\ th[t] \in ThreadState
  BY DEF TypeOK
<1>2. r \in ThreadState /\ r.at = step /\ r.conn = c /\ r.next = n /\ r.msg = k
  <2>1. c \in ConnOrNone /\ n \in NextStep /\ k \in Msg
    BY <1>1, StepNames DEF ThreadState
  <2>2. Resting \in ThreadState
    BY StepNames DEF Resting, ThreadState
  <2> HIDE DEF c, n, k
  <2> QED BY <2>1, <2>2 DEF ThreadState
<1>3. th' = [th EXCEPT ![t] = r]
  BY DEF GoTo
<1> HIDE DEF r
<1>4. th' \in [Thread -> ThreadState] /\ th'[t] = r /\ \A u \in Thread \ {t} : th'[u] = th[u]
  BY <1>1, <1>2, <1>3
<1> QED BY <1>2, <1>4 DEF To, Others

\* SetState moves the thread directly or through a callback.
LEMMA SetStateEffect ==
    ASSUME TypeOK, NEW t \in Thread, NEW s \in State, NEW next \in Onward,
           SetState(t, s, next)
    PROVE  Shows(t, s, next)
<1>1. CASE Ignored(s) \/ state = s
  BY <1>1, GoToEffect DEF SetState, Shows, Onward, NextStep, At
<1>2. CASE ~(Ignored(s) \/ state = s)
  <2>1. th' = [th EXCEPT ![t].at = "callback", ![t].next = next] /\ state' = s
    BY <1>2 DEF SetState
  <2>2. th \in [Thread -> ThreadState] /\ "callback" \in At /\ next \in NextStep
    BY DEF TypeOK, At, Onward
  <2>3. Turn(t, "callback", th[t].conn, next, th[t].msg)
    BY <2>1, <2>2 DEF Turn, Others, ThreadState
  <2> QED BY <1>2, <2>1, <2>3 DEF Shows
<1> QED BY <1>1, <1>2

\* No connection is dialled: only the numbers that threads remember matter.
LEMMA NumbersKept ==
    ASSUME Inv, NEW t \in Thread, Others(t), UNCHANGED <<dialled, socket, due>>,
           conn' <= dialled, th'[t].conn <= dialled
    PROVE  Numbers'
BY DEF Inv, Numbers, Others

\* Heartbeats under way do not become more by themselves.
LEMMA BeatsKept ==
    ASSUME Inv, UNCHANGED due, conn' \in {conn, NoConn},
           pending' = pending \/ pending' # "none" \/ conn' = NoConn,
           \A g \in Conn : Handled(g)' <= Handled(g) /\ Sent(g)' <= Sent(g)
    PROVE  Beats'
<1>1. SUFFICES ASSUME NEW g \in Conn
               PROVE  InFlight(g)' <= 1 /\ (g = conn' /\ pending' = "none" => InFlight(g)' = 0)
  BY DEF Beats
<1>2. due[g].beat \in Nat /\ due'[g].beat = due[g].beat
  BY DEF Inv, TypeOK
<1>3. /\ Handled(g) \in Nat /\ Sent(g) \in Nat /\ Handled(g)' \in Nat /\ Sent(g)' \in Nat
  BY DEF Handled, Sent
<1>4. InFlight(g) \in Nat /\ InFlight(g)' \in Nat /\ InFlight(g)' <= InFlight(g)
  BY <1>2, <1>3 DEF InFlight
<1>5. g # NoConn
  BY DEF Conn, NoConn
<1> QED BY <1>4, <1>5 DEF Inv, Beats

\* The same when the thread that moves carries none.
LEMMA BeatsStill ==
    ASSUME Inv, NEW t \in Thread, Others(t), UNCHANGED due, conn' \in {conn, NoConn},
           pending' = pending \/ pending' # "none" \/ conn' = NoConn,
           th'[t].at \notin {"gotBeat", "send", "write"} \/ t \notin {"run", "beat"}
    PROVE  Beats'
<1>1. {"run", "beat"} \subseteq Thread
  BY DEF Thread
<1>2. \A g \in Conn : Handled(g)' <= Handled(g) /\ Sent(g)' <= Sent(g)
  BY <1>1 DEF Handled, Sent, Others
<1> QED BY <1>2, BeatsKept

\* What a write leaves to be answered.
LEMMA WriteEffect ==
    ASSUME Inv, NEW t \in Thread, Write(t)
    PROVE  /\ due' \in [Conn -> [register : BOOLEAN, beat : 0 .. 2]]
           /\ \A h \in Conn \ {th[t].conn} : due'[h] = due[h]
           /\ \A h \in Conn : due'[h].beat = IF due' # due /\ h = th[t].conn /\ th[t].msg = "beat"
                                             THEN due[h].beat + 1 ELSE due[h].beat
<1> DEFINE g == th[t].conn
           x == due[g].register \/ th[t].msg = "register"
           y == IF th[t].msg = "beat" THEN due[g].beat + 1 ELSE due[g].beat
<1>1. due \in [Conn -> [register : BOOLEAN, beat : 0 .. 2]]
  BY DEF Inv, TypeOK
<1>2. CASE due' = due
  BY <1>1, <1>2
<1>3. CASE due' # due
  <2>1. due' = [due EXCEPT ![g].register = x, ![g].beat = y]
    BY <1>3 DEF Write
  <2>2. g \in Conn
    BY <1>1, <1>3, <2>1
  <2>3. due[g] \in [register : BOOLEAN, beat : 0 .. 2] /\ due[g].beat \in 0 .. 1
    BY <1>1, <2>2 DEF Inv, Beats, InFlight, Handled, Sent
  <2>4. x \in BOOLEAN /\ y \in 0 .. 2
    BY <2>3
  <2> HIDE DEF x, y
  <2>5. due' \in [Conn -> [register : BOOLEAN, beat : 0 .. 2]]
    BY <1>1, <2>1, <2>2, <2>4
  <2>6. due'[g].beat = y /\ \A h \in Conn \ {g} : due'[h] = due[h]
    BY <1>1, <2>1, <2>2, <2>4
  <2> QED BY <1>3, <2>5, <2>6 DEF y
<1> QED BY <1>2, <1>3

-----------------------------------------------------------------------------
(* Callbacks and failConn keep the invariant.                              *)

LEMMA CallbackKeeps ==
    ASSUME Inv, NEW t \in Thread, Callback(t)
    PROVE  Inv' /\ Apart
<1> USE Names DEF Callback, session, locks, network
<1>0. TypeOK
  BY DEF Inv
<1>1. th[t].next \in Onward /\ (GoTo(t, th[t].next) => To(t, th[t].next))
  BY <1>0, GoToEffect DEF At, Inv, Paths, TypeOK, ThreadState, Onward, NextStep
<1>2. TypeOK'
  BY <1>0, <1>1 DEF TypeOK, Others, To, Onward, NextStep
<1>3. Paths'
  BY <1>0, <1>1 DEF Inv, Paths, Exhausted, Others, To, Onward, NextStep
<1>4. (Clearance /\ Sockets /\ RunOfCurrent /\ StopOfAll /\ NothingOfTheDead)'
  BY <1>0, <1>1 DEF Inv, Clearance, Sockets, Installs, Clears, RunOfCurrent, Working,
                    Shown, StopOfAll, NothingOfTheDead, Others, To, Onward, NextStep
<1>5. Numbers'
  BY <1>0, <1>1 DEF Inv, Numbers, NoConn, TypeOK, Others, To, Onward, NextStep
<1>6. Dialled'
  BY <1>0, <1>1 DEF Inv, Dialled, Numbers, NoConn, TypeOK, Others, To, Onward, NextStep
<1>7. Beats'
  BY <1>0, <1>1, BeatsStill DEF To, Turn, Onward, NextStep
<1>8. Apart
  BY <1>0, <1>1 DEF Apart, Others, To, Onward, NextStep
<1> QED BY <1>2, <1>3, <1>4, <1>5, <1>6, <1>7, <1>8 DEF Inv

LEMMA FailKeeps ==
    ASSUME Inv, NEW t \in Thread, Fail(t)
    PROVE  Inv' /\ (Apart \/ Taken(t))
<1> USE Names DEF Fail, SessionFree, session, locks, network
<1>0. TypeOK
  BY DEF Inv
<1>1. /\ (th[t].next \in Onward)
      /\ (GoTo(t, th[t].next) => To(t, th[t].next))
      /\ (GoTo(t, "cleanup") => To(t, "cleanup"))
  BY <1>0, GoToEffect DEF At, Inv, Paths, TypeOK, ThreadState, Onward, NextStep
<1>2. TypeOK'
  BY <1>0, <1>1 DEF TypeOK, NoConn, ConnOrNone, Others, To, Onward, NextStep
<1>3. Paths'
  <2>1. CASE t \notin {"run", "stop"}
    BY <1>0, <1>1, <2>1 DEF Inv, Paths, Others, To, Onward, NextStep, Exhausted
  <2>2. CASE t = "run"
    BY <1>0, <1>1, <2>2 DEF Inv, Paths, Others, To, Onward, NextStep
  <2>3. CASE t = "stop"
    BY <1>0, <1>1, <2>3 DEF Inv, Paths, Others, To, Exhausted
  <2> QED BY <2>1, <2>2, <2>3
<1>4. (Clearance /\ Sockets /\ RunOfCurrent /\ NothingOfTheDead)'
  BY <1>0, <1>1 DEF Inv, Clearance, Sockets, Installs, Clears, RunOfCurrent, Working,
                    Shown, NothingOfTheDead, Others, To, Onward, NextStep
<1>5. Numbers'
  <2>1. NoConn <= dialled /\ conn <= dialled /\ \A u \in Thread : th[u].conn <= dialled
    BY <1>0 DEF Inv, Numbers, TypeOK, NoConn
  <2>2. conn' <= dialled /\ th'[t].conn <= dialled /\ Others(t)
    BY <1>0, <1>1, <2>1 DEF To, Turn
  <2> QED BY <1>0, <2>2, NumbersKept
<1>6. Dialled'
  BY <1>0, <1>1 DEF Inv, Dialled, Numbers, NoConn, TypeOK, Others, To, Onward, NextStep
<1>7. Beats'
  BY <1>0, <1>1, BeatsStill DEF To, Turn, Onward, NextStep
<1>8. StopOfAll'
  BY <1>0, <1>1 DEF Inv, StopOfAll, Paths, NoConn, Others, To, Onward, NextStep
<1>9. Apart \/ Taken(t)
  <2>1. CASE th[t].conn = NoConn \/ conn # th[t].conn
    BY <1>0, <1>1, <2>1 DEF Apart, Others, To
  <2>2. CASE ~(th[t].conn = NoConn \/ conn # th[t].conn)
    BY <1>0, <1>1, <2>2 DEF Taken, To
  <2> QED BY <2>1, <2>2
<1> QED BY <1>2, <1>3, <1>4, <1>5, <1>6, <1>7, <1>8, <1>9 DEF Inv

LEMMA CleanupKeeps ==
    ASSUME Inv, NEW t \in Thread, Cleanup(t)
    PROVE  Inv' /\ (conn' = conn /\ sessionMu' = "none" /\ th[t].at = "cleanup")
<1> USE Names DEF Cleanup, CloseSocket, session, locks, network
<1>0. TypeOK
  BY DEF Inv
<1>1. GoTo(t, "lost") => To(t, "lost")
  BY <1>0, GoToEffect DEF At, Inv, Paths, TypeOK, ThreadState
<1>2. TypeOK'
  BY <1>0, <1>1 DEF TypeOK, Others, To
<1>3. Paths'
  BY <1>0, <1>1 DEF Inv, Paths, Exhausted, Others, To
<1>4. (Clearance /\ RunOfCurrent /\ StopOfAll /\ NothingOfTheDead)'
  BY <1>0, <1>1 DEF Inv, Clearance, RunOfCurrent, Working, Shown, StopOfAll,
                    NothingOfTheDead, Others, To
<1>5. Numbers'
  <2>1. th[t].conn <= dialled /\ th[t].conn \in Nat \ {0} /\ dialled \in Nat
    BY <1>0 DEF Inv, Clearance, Numbers, TypeOK, ThreadState, ConnOrNone, Conn, NoConn
  <2>2. \A g \in Conn : socket'[g] = IF g = th[t].conn THEN "closed" ELSE socket[g]
    BY <1>0 DEF TypeOK
  <2>3. th'[t].conn = NoConn
    BY <1>1 DEF To
  <2> QED BY <1>0, <1>1, <2>1, <2>2, <2>3 DEF Inv, Numbers, To, Others, NoConn
<1>6. Dialled'
  <2>1. CASE t = "run"
    BY <1>0, <1>1, <2>1 DEF Dialled, To
  <2>2. CASE t # "run"
    <3>1. th["run"].at = "install" => th[t].conn # dialled /\ socket'[dialled] = socket[dialled]
      BY <1>0, <2>2 DEF Inv, Dialled, TypeOK
    <3> QED BY <1>0, <1>1, <2>2, <3>1 DEF Inv, Dialled, To, Others, NoConn
  <2> QED BY <2>1, <2>2
<1>7. Sockets'
  BY <1>0, <1>1 DEF Inv, Sockets, Installs, Clears, Clearance, TypeOK, Others, To
<1>8. Beats'
  BY <1>0, <1>1, BeatsStill DEF To, Turn, Onward, NextStep
<1>9. conn' = conn /\ sessionMu' = "none" /\ th[t].at = "cleanup"
  OBVIOUS
<1> QED BY <1>2, <1>3, <1>4, <1>5, <1>6, <1>7, <1>8, <1>9 DEF Inv

LEMMA LostKeeps ==
    ASSUME Inv, NEW t \in Thread, Lost(t)
    PROVE  Inv' /\ Apart
<1> USE Names DEF Lost, session, locks, network
<1>0. TypeOK
  BY DEF Inv
<1>1. th[t].next \in Onward /\ Shows(t, "Disconnected", th[t].next)
  BY <1>0, SetStateEffect DEF Inv, Paths, TypeOK, ThreadState, Onward, NextStep, State
<1>2. TypeOK'
  BY <1>0, <1>1 DEF TypeOK, Fault, State, Others, To, Turn, Shows, Onward, NextStep
<1>3. Paths'
  <2>1. CASE t \notin {"run", "stop"}
    BY <1>0, <1>1, <2>1 DEF Inv, Paths, Others, Shows, Turn, To, Onward, NextStep,
                            Exhausted
  <2>2. CASE t = "run"
    BY <1>0, <1>1, <2>2 DEF Inv, Paths, Others, Shows, Turn, To, Onward, NextStep
  <2>3. CASE t = "stop"
    BY <1>0, <1>1, <2>3 DEF Inv, Paths, Others, Shows, Turn, To, Exhausted
  <2> QED BY <2>1, <2>2, <2>3
<1>4. (Clearance /\ Sockets /\ NothingOfTheDead)'
  BY <1>0, <1>1 DEF Inv, Clearance, Sockets, Installs, Clears, NothingOfTheDead, Others,
                    To, Turn, Shows, Onward, NextStep
<1>5. Numbers'
  BY <1>0, <1>1 DEF Inv, Numbers, NoConn, TypeOK, Others, To, Turn, Shows, Onward,
                    NextStep
<1>6. Dialled'
  BY <1>0, <1>1 DEF Inv, Dialled, Numbers, NoConn, TypeOK, Others, To, Turn, Shows,
                    Onward, NextStep
<1>7. Beats'
  BY <1>0, <1>1, BeatsStill DEF To, Turn, Onward, NextStep, Shows
<1>8. RunOfCurrent'
  BY <1>0, <1>1 DEF Inv, RunOfCurrent, Working, Shown, Paths, NoConn, Ignored, Others,
                    To, Turn, Shows, Onward, NextStep
<1>9. StopOfAll'
  BY <1>0, <1>1 DEF Inv, StopOfAll, Paths, NoConn, Others, To, Turn, Shows, Onward,
                    NextStep
<1>10. Apart
  BY <1>0, <1>1 DEF Apart, Others, To, Turn, Shows, Onward, NextStep
<1> QED BY <1>2, <1>3, <1>4, <1>5, <1>6, <1>7, <1>8, <1>9, <1>10 DEF Inv

LEMMA RunClosesKeeps ==
    ASSUME Inv, CloseConn("run", "retry")
    PROVE  Inv' /\ Apart
<1> USE Names DEF CloseConn, session, locks, network
<1>0. TypeOK
  BY DEF Inv
<1>1. Turn("run", "fail", conn, "retry", th["run"].msg)
  <2>1. th' = [th EXCEPT !["run"].at = "fail", !["run"].conn = conn, !["run"].next = "retry"]
    OBVIOUS
  <2>2. th \in [Thread -> ThreadState] /\ conn \in ConnOrNone /\ "run" \in Thread
    BY <1>0 DEF TypeOK
  <2> HIDE Names DEF CloseConn
  <2> QED BY <2>1, <2>2, StepNames DEF Turn, Others, ThreadState
<1>2. TypeOK'
  BY <1>0, <1>1 DEF TypeOK, Others, Turn
<1>3. (Paths /\ Clearance /\ Numbers /\ Dialled /\ Sockets
      /\ RunOfCurrent /\ StopOfAll /\ NothingOfTheDead)'
  BY <1>0, <1>1 DEF Inv, Paths, Clearance, Numbers, Dialled, Sockets, Installs, Clears,
                    RunOfCurrent, Working, Shown, StopOfAll, NothingOfTheDead, Others,
                    Turn
<1>4. Beats'
  BY <1>0, <1>1, BeatsStill DEF Others, Turn
<1>5. Apart
  BY <1>0, <1>1 DEF Apart, Others, Turn
<1> QED BY <1>2, <1>3, <1>4, <1>5 DEF Inv

LEMMA StopClosesKeeps ==
    ASSUME Inv, CloseConn("stop", "waitAll")
    PROVE  Inv' /\ Apart
<1> USE Names DEF CloseConn, session, locks, network
<1>0. TypeOK
  BY DEF Inv
<1>1. Turn("stop", "fail", conn, "waitAll", th["stop"].msg)
  <2>1. th' = [th EXCEPT !["stop"].at = "fail", !["stop"].conn = conn, !["stop"].next = "waitAll"]
    OBVIOUS
  <2>2. th \in [Thread -> ThreadState] /\ conn \in ConnOrNone /\ "stop" \in Thread
    BY <1>0 DEF TypeOK
  <2> HIDE Names DEF CloseConn
  <2> QED BY <2>1, <2>2, StepNames DEF Turn, Others, ThreadState
<1>2. TypeOK'
  BY <1>0, <1>1 DEF TypeOK, Others, Turn
<1>3. Paths'
  BY <1>0, <1>1 DEF Inv, Paths, Exhausted, Others, Turn
<1>4. (Clearance /\ Numbers /\ Dialled /\ Sockets /\ RunOfCurrent
      /\ StopOfAll /\ NothingOfTheDead)'
  BY <1>0, <1>1 DEF Inv, Clearance, Numbers, Dialled, Sockets, Installs, Clears,
                    RunOfCurrent, Working, Shown, StopOfAll, NothingOfTheDead, Others,
                    Turn
<1>5. Beats'
  BY <1>0, <1>1, BeatsStill DEF To, Turn, Onward, NextStep
<1>6. Apart
  BY <1>0, <1>1 DEF Apart, Others, Turn
<1> QED BY <1>2, <1>3, <1>4, <1>5, <1>6 DEF Inv

-----------------------------------------------------------------------------
(* sendRawFor.                                                             *)

LEMMA SendKeeps ==
    ASSUME Inv, NEW t \in Thread, Send(t)
    PROVE  Inv' /\ Apart
<1> USE Names DEF Send, AfterSend, AfterError, session, locks, network
<1>0. TypeOK
  BY DEF Inv
<1>1. /\ (GoTo(t, "write") => To(t, "write"))
      /\ (GoTo(t, AfterSend(t, FALSE)) => To(t, AfterSend(t, FALSE)))
  BY <1>0, GoToEffect DEF At, Inv, Paths, TypeOK, ThreadState
<1>2. TypeOK'
  BY <1>0, <1>1 DEF TypeOK, Others, To
<1>3. Paths'
  BY <1>0, <1>1 DEF Inv, Paths, Exhausted, Others, To
<1>4. (Clearance /\ Sockets /\ RunOfCurrent /\ StopOfAll /\ NothingOfTheDead)'
  BY <1>0, <1>1 DEF Inv, Clearance, Sockets, Installs, Clears, RunOfCurrent, Working,
                    Shown, StopOfAll, NothingOfTheDead, Others, To
<1>5. Numbers'
  BY <1>0, <1>1 DEF Inv, Numbers, NoConn, TypeOK, Others, To
<1>6. Dialled'
  BY <1>0, <1>1 DEF Inv, Dialled, Numbers, NoConn, TypeOK, Others, To
<1>7. Beats'
  <2>1. To(t, "write") \/ To(t, AfterSend(t, FALSE))
    BY <1>1
  <2>2. AfterSend(t, FALSE) \notin {"gotBeat", "send", "write"}
    OBVIOUS
  <2>3. \A g \in Conn : Handled(g)' <= Handled(g) /\ Sent(g)' <= Sent(g)
    BY <1>0, <2>1, <2>2 DEF Handled, Sent, Others, To
  <2> QED BY <2>3, BeatsKept
<1>8. Apart
  BY <1>0, <1>1 DEF Apart, Others, To
<1> QED BY <1>2, <1>3, <1>4, <1>5, <1>6, <1>7, <1>8 DEF Inv

LEMMA WriteKeeps ==
    ASSUME Inv, NEW t \in Thread, Write(t)
    PROVE  Inv' /\ Apart
<1> USE Names DEF Write, AfterSend, AfterError, session, locks, network
<1>0. TypeOK
  BY DEF Inv
<1>1. GoTo(t, AfterSend(t, TRUE)) => To(t, AfterSend(t, TRUE))
  BY <1>0, GoToEffect DEF At, Inv, Paths, TypeOK, ThreadState
<1>2. TypeOK'
  BY <1>0, <1>1, WriteEffect DEF TypeOK, To, Others
<1>3. Paths'
  BY <1>0, <1>1 DEF Inv, Paths, Exhausted, Others, To
<1>4. (Clearance /\ Sockets /\ RunOfCurrent /\ StopOfAll /\ NothingOfTheDead)'
  BY <1>0, <1>1 DEF Inv, Clearance, Sockets, Installs, Clears, RunOfCurrent, Working,
                    Shown, StopOfAll, NothingOfTheDead, Others, To
<1>5. Numbers'
  <2>1. \A g \in Conn : socket[g] = "none" => due'[g].beat = due[g].beat
    BY <1>0, WriteEffect DEF TypeOK
  <2>2. conn \in Nat /\ th'[t].conn <= dialled
    BY <1>0, <1>1 DEF Inv, Numbers, TypeOK, ConnOrNone, Conn, NoConn, To
  <2> QED BY <1>0, <1>1, <2>1, <2>2 DEF Inv, Numbers, To, Others
<1>6. Dialled'
  <2>1. CASE t = "run"
    BY <1>0, <1>1, <2>1 DEF Dialled, To
  <2>2. CASE t # "run"
    <3>1. ASSUME th["run"].at = "install" PROVE due'[dialled].beat = due[dialled].beat
      <4>1. dialled \in Conn /\ th[t].conn # dialled
        BY <1>0, <2>2, <3>1 DEF Inv, Dialled, TypeOK, Conn
      <4>2. \A h \in Conn \ {th[t].conn} : due'[h] = due[h]
        BY WriteEffect
      <4> QED BY <4>1, <4>2
    <3>2. th'[t].conn \in {th[t].conn, NoConn} /\ th'["run"] = th["run"]
      BY <1>0, <1>1, <2>2 DEF To, Others
    <3> QED BY <1>0, <1>1, <2>2, <3>1, <3>2 DEF Inv, Dialled, To, Others, NoConn
  <2> QED BY <2>1, <2>2
<1>7. Beats'
  <2>1. SUFFICES ASSUME NEW g \in Conn
                 PROVE  InFlight(g)' <= 1 /\ (g = conn /\ pending = "none" => InFlight(g)' = 0)
    BY DEF Beats
  <2>2. To(t, AfterSend(t, TRUE)) /\ AfterSend(t, TRUE) \in {"idle", "loop"}
    BY <1>1
  <2>3. Handled(g)' <= Handled(g) /\ Handled(g)' \in Nat /\ Handled(g) \in Nat
    BY <1>0, <2>2 DEF Handled, To, Others
  <2>4. due[g].beat \in Nat /\ due'[g].beat \in Nat
    <3> due' \in [Conn -> [register : BOOLEAN, beat : 0 .. 2]]
      BY WriteEffect
    <3> HIDE DEF Write
    <3> QED BY <1>0 DEF TypeOK
  <2>5. due'[g].beat + Sent(g)' <= due[g].beat + Sent(g) /\ Sent(g) \in Nat /\ Sent(g)' \in Nat
    <3>1. th[t].at = "write"
      OBVIOUS
    <3>2. due'[g].beat = IF due' # due /\ g = th[t].conn /\ th[t].msg = "beat"
                         THEN due[g].beat + 1 ELSE due[g].beat
      BY WriteEffect
    <3> HIDE DEF Write
    <3>3. CASE t = "beat"
      BY <1>0, <2>2, <2>4, <3>1, <3>2, <3>3 DEF Sent, To, Others
    <3>4. CASE t # "beat"
      <4>1. th[t].msg # "beat" /\ Sent(g)' = Sent(g)
        BY <1>0, <2>2, <3>4 DEF Inv, Paths, Sent, To, Others
      <4> QED BY <2>4, <3>2, <4>1 DEF Sent
    <3> QED BY <3>3, <3>4
  <2>6. InFlight(g)' <= InFlight(g) /\ InFlight(g) \in Nat /\ InFlight(g)' \in Nat
    <3> HIDE Names DEF Write
    <3> QED BY <2>3, <2>4, <2>5 DEF InFlight
  <2> QED BY <2>6 DEF Inv, Beats
<1>8. Apart
  BY <1>0, <1>1 DEF Apart, Others, To
<1> QED BY <1>2, <1>3, <1>4, <1>5, <1>6, <1>7, <1>8 DEF Inv

LEMMA WriteFailsKeeps ==
    ASSUME Inv, NEW t \in Thread, WriteFails(t), Fault \/ UNCHANGED faults
    PROVE  Inv' /\ Apart
<1> USE Names DEF WriteFails, session, locks, network
<1>0. TypeOK
  BY DEF Inv
<1>1. Turn(t, "fail", th[t].conn, "unlock", "none")
  <2>1. th' = [th EXCEPT ![t].at = "fail", ![t].next = "unlock", ![t].msg = "none"]
    OBVIOUS
  <2>2. th \in [Thread -> ThreadState] /\ conn \in ConnOrNone /\ t \in Thread
    BY <1>0 DEF TypeOK
  <2> HIDE Names DEF WriteFails
  <2> QED BY <2>1, <2>2, StepNames DEF Turn, Others, ThreadState
<1>2. TypeOK'
  BY <1>0, <1>1 DEF TypeOK, Fault, Others, Turn
<1>3. Paths'
  BY <1>0, <1>1 DEF Inv, Paths, Exhausted, Others, Turn
<1>4. (Clearance /\ Numbers /\ Dialled /\ Sockets /\ RunOfCurrent
      /\ NothingOfTheDead)'
  BY <1>0, <1>1 DEF Inv, Clearance, Numbers, Dialled, Sockets, Installs, Clears,
                    RunOfCurrent, Working, Shown, NothingOfTheDead, Others, Turn
<1>5. Beats'
  BY <1>0, <1>1, BeatsStill DEF To, Turn, Onward, NextStep
<1>6. StopOfAll'
  BY <1>0, <1>1 DEF Inv, StopOfAll, Paths, NoConn, Others, Turn
<1>7. Apart
  BY <1>0, <1>1 DEF Apart, Others, Turn
<1> QED BY <1>2, <1>3, <1>4, <1>5, <1>6, <1>7 DEF Inv

LEMMA UnlockKeeps ==
    ASSUME Inv, NEW t \in Thread, Unlock(t)
    PROVE  Inv' /\ Apart
<1> USE Names DEF Unlock, AfterSend, AfterError, session, locks, network
<1>0. TypeOK
  BY DEF Inv
<1>1. GoTo(t, AfterSend(t, FALSE)) => To(t, AfterSend(t, FALSE))
  BY <1>0, GoToEffect DEF At, Inv, Paths, TypeOK, ThreadState
<1>2. TypeOK'
  BY <1>0, <1>1 DEF TypeOK, Others, To
<1>3. Paths'
  BY <1>0, <1>1 DEF Inv, Paths, Exhausted, Others, To
<1>4. (Clearance /\ Sockets /\ RunOfCurrent /\ StopOfAll /\ NothingOfTheDead)'
  BY <1>0, <1>1 DEF Inv, Clearance, Sockets, Installs, Clears, RunOfCurrent, Working,
                    Shown, StopOfAll, NothingOfTheDead, Others, To
<1>5. Numbers'
  BY <1>0, <1>1 DEF Inv, Numbers, NoConn, TypeOK, Others, To
<1>6. Dialled'
  BY <1>0, <1>1 DEF Inv, Dialled, Numbers, NoConn, TypeOK, Others, To
<1>7. Beats'
  BY <1>0, <1>1, BeatsStill DEF Others, To
<1>8. Apart
  BY <1>0, <1>1 DEF Apart, Others, To
<1> QED BY <1>2, <1>3, <1>4, <1>5, <1>6, <1>7, <1>8 DEF Inv

-----------------------------------------------------------------------------
(* run: connect and Register.                                              *)

LEMMA ConnectKeeps ==
    ASSUME Inv, Connect
    PROVE  Inv' /\ Apart
<1> USE Names DEF Connect, AfterError, session, locks, network
<1>0. TypeOK
  BY DEF Inv
<1>1. /\ (GoTo("run", AfterError) => To("run", AfterError))
      /\ (SetState("run", "Connecting", "dial") => Shows("run", "Connecting", "dial"))
  BY <1>0, GoToEffect, SetStateEffect DEF At, Inv, Paths, TypeOK, ThreadState, Onward,
                                          NextStep, State
<1>2. TypeOK'
  BY <1>0, <1>1 DEF TypeOK, Fault, State, Others, To, Turn, Shows
<1>3. (Paths /\ Clearance /\ Dialled /\ Sockets /\ RunOfCurrent
      /\ StopOfAll /\ NothingOfTheDead)'
  BY <1>0, <1>1 DEF Inv, Paths, Clearance, Dialled, Sockets, Installs, Clears,
                    RunOfCurrent, Working, Shown, StopOfAll, NothingOfTheDead, Others,
                    To, Turn, Shows
<1>4. Numbers'
  BY <1>0, <1>1 DEF Inv, Numbers, NoConn, TypeOK, Others, To, Turn, Shows
<1>5. Beats'
  BY <1>0, <1>1, BeatsStill DEF Others, To, Turn, Shows
<1>6. Apart
  BY <1>0, <1>1 DEF Apart, Others, To, Turn, Shows
<1> QED BY <1>2, <1>3, <1>4, <1>5, <1>6 DEF Inv

LEMMA DialKeeps ==
    ASSUME Inv, Dial
    PROVE  Inv' /\ Apart
<1> USE Names DEF Dial, session, locks, network
<1>0. TypeOK
  BY DEF Inv
<1>1. Turn("run", "install", dialled + 1, th["run"].next, th["run"].msg)
  <2>1. dialled + 1 \in Conn /\ dialled' = dialled + 1
    BY <1>0 DEF TypeOK, Conn
  <2>2. th' = [th EXCEPT !["run"].at = "install", !["run"].conn = dialled + 1]
    BY <2>1
  <2>3. th \in [Thread -> ThreadState] /\ "run" \in Thread
    BY <1>0 DEF TypeOK
  <2> HIDE Names DEF Dial
  <2> QED BY <2>1, <2>2, <2>3, StepNames DEF Turn, Others, ThreadState
<1>2. TypeOK'
  <2>1. dialled' \in 0 .. MaxFaults + 1
    BY <1>0 DEF TypeOK
  <2>2. socket' \in [Conn -> {"none", "up", "silent", "broken", "closed"}]
    BY <1>0 DEF TypeOK
  <2> QED BY <1>0, <1>1, <2>1, <2>2 DEF TypeOK, Turn, Others
<1>3. (Paths /\ Clearance /\ Sockets /\ RunOfCurrent /\ StopOfAll
      /\ NothingOfTheDead)'
  BY <1>0, <1>1 DEF Inv, Paths, Clearance, Sockets, Installs, Clears, RunOfCurrent,
                    Working, Shown, StopOfAll, NothingOfTheDead, Others, Turn
<1>4. Numbers'
  <2>1. /\ dialled \in Nat /\ dialled + 1 \in Conn /\ conn \in Nat
        /\ \A u \in Thread : th[u].conn \in Nat
    BY <1>0 DEF TypeOK, ConnOrNone, Conn, NoConn, ThreadState
  <2>2. \A g \in Conn : socket'[g] = IF g = dialled + 1 THEN "up" ELSE socket[g]
    BY <1>0, <2>1 DEF TypeOK
  <2> QED BY <1>0, <1>1, <2>1, <2>2 DEF Inv, Numbers, Turn, Others, Conn
<1>5. Dialled'
  BY <1>0, <1>1 DEF Inv, Dialled, Numbers, Clearance, NoConn, TypeOK, Conn, Others, Turn
<1>6. Beats'
  BY <1>0, <1>1, BeatsStill DEF Others, Turn
<1>7. Apart
  BY <1>0, <1>1 DEF Apart, Others, Turn
<1> QED BY <1>2, <1>3, <1>4, <1>5, <1>6, <1>7 DEF Inv

LEMMA NoDialKeeps ==
    ASSUME Inv, NoDial, Fault \/ UNCHANGED faults
    PROVE  Inv' /\ Apart
<1> USE Names DEF NoDial, AfterError, session, locks, network
<1>0. TypeOK
  BY DEF Inv
<1>1. Shows("run", "Disconnected", AfterError)
  BY <1>0, SetStateEffect DEF Inv, Paths, TypeOK, ThreadState, Onward, NextStep, State
<1>2. TypeOK'
  BY <1>0, <1>1 DEF TypeOK, Fault, State, Others, To, Turn, Shows
<1>3. (Paths /\ Clearance /\ Dialled /\ Sockets /\ RunOfCurrent
      /\ StopOfAll /\ NothingOfTheDead)'
  BY <1>0, <1>1 DEF Inv, Paths, Clearance, Dialled, Sockets, Installs, Clears,
                    RunOfCurrent, Working, Shown, StopOfAll, NothingOfTheDead, Others,
                    To, Turn, Shows
<1>4. Numbers'
  BY <1>0, <1>1 DEF Inv, Numbers, NoConn, TypeOK, Others, To, Turn, Shows
<1>5. Beats'
  BY <1>0, <1>1, BeatsStill DEF Others, To, Turn, Shows
<1>6. Apart
  BY <1>0, <1>1 DEF Apart, Others, To, Turn, Shows
<1> QED BY <1>2, <1>3, <1>4, <1>5, <1>6 DEF Inv

LEMMA InstallKeeps ==
    ASSUME Inv, Install
    PROVE  Inv' /\ (Apart \/ Begins(th["run"].conn))
<1> USE Names DEF Install, SessionFree, CloseSocket, AfterError, session, locks, network
<1>0. TypeOK
  BY DEF Inv
<1>1. /\ (GoTo("run", AfterError) => To("run", AfterError))
      /\ (GoTo("run", "installed") => To("run", "installed"))
  BY <1>0, GoToEffect DEF At, Inv, Paths, TypeOK, ThreadState
<1>2. TypeOK'
  <2>1. socket' \in [Conn -> {"none", "up", "silent", "broken", "closed"}]
    BY <1>0 DEF TypeOK
  <2>2. th["run"].conn \in ConnOrNone
    BY <1>0 DEF TypeOK, ThreadState
  <2> QED BY <1>0, <1>1, <2>1, <2>2 DEF TypeOK, To, Others
<1>3. (Paths /\ Clearance /\ Dialled /\ RunOfCurrent /\ NothingOfTheDead)'
  BY <1>0, <1>1 DEF Inv, Paths, Clearance, Dialled, RunOfCurrent, Working, Shown,
                    NothingOfTheDead, Others, To
<1>4. Numbers'
  <2>1. th["run"].conn = dialled /\ dialled \in Nat /\ dialled # 0
    BY <1>0 DEF Inv, Dialled, TypeOK
  <2>2. \A g \in Conn : socket'[g] = socket[g] \/ (g = dialled /\ socket'[g] = "closed")
    BY <1>0, <2>1 DEF TypeOK
  <2>3. conn' <= dialled /\ th'["run"].conn = NoConn /\ socket[dialled] # "none"
    BY <1>0, <1>1, <2>1 DEF Inv, Numbers, TypeOK, Conn, To
  <2> QED BY <1>0, <1>1, <2>1, <2>2, <2>3 DEF Inv, Numbers, To, Others, NoConn
<1>5. Sockets'
  <2>1. \A t \in Thread : th[t].at # "cleanup"
    BY <1>0 DEF Inv, Clearance
  <2>2. CASE cancelled \/ conn # NoConn
    BY <1>0, <1>1, <2>1, <2>2 DEF Inv, Sockets, Clears, Installs, To, TypeOK
  <2>3. CASE ~(cancelled \/ conn # NoConn)
    BY <1>0, <1>1, <2>1, <2>3 DEF Inv, Sockets, Clears, Installs, To, TypeOK, Conn,
                                  NoConn
  <2> QED BY <2>2, <2>3
<1>6. Beats'
  BY <1>0, <1>1 DEF Inv, Beats, InFlight, Handled, Sent, Numbers, Dialled, RunOfCurrent,
                    Working, Paths, NoConn, TypeOK, Conn, Thread, Others, To
<1>7. StopOfAll'
  BY <1>0, <1>1 DEF Inv, StopOfAll, Paths, NoConn, Others, To
<1>8. Apart \/ Begins(th["run"].conn)
  <2>1. CASE cancelled \/ conn # NoConn
    BY <1>0, <1>1, <2>1 DEF Apart, Others, To
  <2>2. CASE ~(cancelled \/ conn # NoConn)
    <3>1. th["run"].conn \in Conn
      BY <1>0 DEF Inv, Dialled, TypeOK, Conn
    <3> QED BY <1>0, <1>1, <2>2, <3>1 DEF Begins
  <2> QED BY <2>1, <2>2
<1> QED BY <1>2, <1>3, <1>4, <1>5, <1>6, <1>7, <1>8 DEF Inv

LEMMA InstalledKeeps ==
    ASSUME Inv, Installed
    PROVE  Inv' /\ Apart
<1> USE Names DEF Installed, session, locks, network
<1>0. TypeOK
  BY DEF Inv
<1>1. Shows("run", "Connected", "register")
  BY <1>0, SetStateEffect DEF Inv, Paths, TypeOK, ThreadState, Onward, NextStep, State
<1>2. TypeOK'
  BY <1>0, <1>1 DEF TypeOK, Fault, State, Others, To, Turn, Shows
<1>3. (Paths /\ Clearance /\ Dialled /\ Sockets /\ StopOfAll /\ NothingOfTheDead)'
  BY <1>0, <1>1 DEF Inv, Paths, Clearance, Dialled, Sockets, Installs, Clears,
                    StopOfAll, NothingOfTheDead, Others, To, Turn, Shows
<1>4. Numbers'
  BY <1>0, <1>1 DEF Inv, Numbers, NoConn, TypeOK, Others, To, Turn, Shows
<1>5. Beats'
  BY <1>0, <1>1, BeatsStill DEF Others, To, Turn, Shows
<1>6. RunOfCurrent'
  BY <1>0, <1>1 DEF Inv, RunOfCurrent, Working, Shown, Paths, NoConn, Ignored, Others,
                    To, Turn, Shows
<1>7. Apart
  BY <1>0, <1>1 DEF Apart, Others, To, Turn, Shows
<1> QED BY <1>2, <1>3, <1>4, <1>5, <1>6, <1>7 DEF Inv

LEMMA RegisterKeeps ==
    ASSUME Inv, Register
    PROVE  Inv' /\ Apart
<1> USE Names DEF Register, session, locks, network
<1>0. TypeOK
  BY DEF Inv
<1>1. Turn("run", "send", conn, th["run"].next, "register")
  <2>1. th' = [th EXCEPT !["run"].at = "send", !["run"].conn = conn, !["run"].msg = "register"]
    OBVIOUS
  <2>2. th \in [Thread -> ThreadState] /\ conn \in ConnOrNone /\ "run" \in Thread
    BY <1>0 DEF TypeOK
  <2> HIDE Names DEF Register
  <2> QED BY <2>1, <2>2, StepNames DEF Turn, Others, ThreadState
<1>2. TypeOK'
  BY <1>0, <1>1 DEF TypeOK, Others, Turn
<1>3. (Paths /\ Clearance /\ Numbers /\ Dialled /\ Sockets
      /\ RunOfCurrent /\ StopOfAll /\ NothingOfTheDead)'
  BY <1>0, <1>1 DEF Inv, Paths, Clearance, Numbers, Dialled, Sockets, Installs, Clears,
                    RunOfCurrent, Working, Shown, StopOfAll, NothingOfTheDead, Others,
                    Turn
<1>4. Beats'
  BY <1>0, <1>1 DEF Inv, Beats, InFlight, Handled, Sent, TypeOK, Others, Turn
<1>5. Apart
  BY <1>0, <1>1 DEF Apart, Others, Turn
<1> QED BY <1>2, <1>3, <1>4, <1>5 DEF Inv

-----------------------------------------------------------------------------
(* run: readConnection.                                                    *)

LEMMA LoopKeeps ==
    ASSUME Inv, Loop
    PROVE  Inv' /\ Apart
<1> USE Names DEF Loop, session, locks, network
<1>0. TypeOK
  BY DEF Inv
<1>1. /\ (GoTo("run", "done") => To("run", "done"))
      /\ (~cancelled => Turn("run", "read", conn, th["run"].next, th["run"].msg))
  <2>1. GoTo("run", "done") => To("run", "done")
    BY <1>0, GoToEffect DEF At
  <2>2. ~cancelled => Turn("run", "read", conn, th["run"].next, th["run"].msg)
    <3>1. SUFFICES ASSUME ~cancelled
                   PROVE  Turn("run", "read", conn, th["run"].next, th["run"].msg)
      OBVIOUS
    <3>2. th' = [th EXCEPT !["run"].at = "read", !["run"].conn = conn]
      BY <3>1
    <3>3. th \in [Thread -> ThreadState] /\ conn \in ConnOrNone /\ "run" \in Thread
      BY <1>0 DEF TypeOK
    <3> HIDE Names DEF Loop
    <3> QED BY <3>2, <3>3, StepNames DEF Turn, Others, ThreadState
  <2> QED BY <2>1, <2>2
<1>2. TypeOK'
  BY <1>0, <1>1 DEF TypeOK, Others, To, Turn
<1>3. (Paths /\ Clearance /\ Dialled /\ Sockets /\ RunOfCurrent
      /\ StopOfAll /\ NothingOfTheDead)'
  BY <1>0, <1>1 DEF Inv, Paths, Clearance, Dialled, Sockets, Installs, Clears,
                    RunOfCurrent, Working, Shown, StopOfAll, NothingOfTheDead, Others,
                    To, Turn
<1>4. Numbers'
  <2>1. NoConn <= dialled /\ conn <= dialled /\ \A u \in Thread : th[u].conn <= dialled
    BY <1>0 DEF Inv, Numbers, TypeOK, NoConn
  <2>2. conn' <= dialled /\ th'["run"].conn <= dialled /\ Others("run")
    BY <1>0, <1>1, <2>1 DEF To, Turn
  <2> QED BY <1>0, <2>2, NumbersKept
<1>5. Beats'
  BY <1>0, <1>1, BeatsStill DEF Others, To, Turn
<1>6. Apart
  BY <1>0, <1>1 DEF Apart, Others, To, Turn
<1> QED BY <1>2, <1>3, <1>4, <1>5, <1>6 DEF Inv

LEMMA DecodeRegisterKeeps ==
    ASSUME Inv, DecodeRegister
    PROVE  Inv' /\ Apart
<1> USE Names DEF DecodeRegister, Decode, Awaited, Reachable, session, locks, network
<1>0. TypeOK
  BY DEF Inv
<1>1. GoTo("run", "gotRegister") => To("run", "gotRegister")
  BY <1>0, GoToEffect DEF At, Inv, Paths, TypeOK, ThreadState
<1>2. TypeOK'
  BY <1>0, <1>1 DEF TypeOK, ThreadState, ConnOrNone, Others, To
<1>3. (Paths /\ Clearance /\ Numbers /\ Dialled /\ Sockets
      /\ RunOfCurrent /\ StopOfAll /\ NothingOfTheDead)'
  BY <1>0, <1>1 DEF Inv, Paths, Clearance, Numbers, Dialled, Sockets, Installs, Clears,
                    RunOfCurrent, Working, Shown, StopOfAll, NothingOfTheDead, Others,
                    To
<1>4. Beats'
  BY <1>0, <1>1 DEF Inv, Beats, InFlight, Handled, Sent, TypeOK, Others, To
<1>5. Apart
  BY <1>0, <1>1 DEF Apart, Others, To
<1> QED BY <1>2, <1>3, <1>4, <1>5 DEF Inv

LEMMA DecodeBeatKeeps ==
    ASSUME Inv, DecodeBeat
    PROVE  Inv' /\ Apart
<1> USE Names DEF DecodeBeat, Decode, Awaited, Reachable, session, locks, network
<1>0. TypeOK
  BY DEF Inv
<1>1. GoTo("run", "gotBeat") => To("run", "gotBeat")
  BY <1>0, GoToEffect DEF At, Inv, Paths, TypeOK, ThreadState
<1>2. TypeOK'
  BY <1>0, <1>1 DEF TypeOK, ThreadState, ConnOrNone, Others, To
<1>3. (Paths /\ Clearance /\ Numbers /\ Dialled /\ Sockets
      /\ RunOfCurrent /\ StopOfAll /\ NothingOfTheDead)'
  BY <1>0, <1>1 DEF Inv, Paths, Clearance, Numbers, Dialled, Sockets, Installs, Clears,
                    RunOfCurrent, Working, Shown, StopOfAll, NothingOfTheDead, Others,
                    To
<1>4. Beats'
  <2>1. SUFFICES ASSUME NEW h \in Conn
                 PROVE  InFlight(h)' <= InFlight(h) /\ InFlight(h) \in Nat /\ InFlight(h)' \in Nat
    BY DEF Inv, Beats
  <2> DEFINE g == th["run"].conn
  <2>2. g \in Conn /\ due[g].beat \in Nat \ {0} /\ due[h].beat \in Nat
    BY <1>0 DEF TypeOK, ThreadState, ConnOrNone, NoConn
  <2>3. due'[h].beat = IF h = g THEN due[h].beat - 1 ELSE due[h].beat
    BY <1>0, <2>2 DEF TypeOK
  <2>4. Handled(h) = 0 /\ Handled(h)' = (IF h = g THEN 1 ELSE 0)
    BY <1>0, <1>1 DEF Handled, To
  <2>5. Sent(h)' = Sent(h) /\ Sent(h) \in Nat
    BY <1>0, <1>1 DEF Sent, To, Others
  <2> QED BY <2>2, <2>3, <2>4, <2>5 DEF InFlight
<1>5. Apart
  BY <1>0, <1>1 DEF Apart, Others, To
<1> QED BY <1>2, <1>3, <1>4, <1>5 DEF Inv

LEMMA ReadEndsKeeps ==
    ASSUME Inv, ReadEnds, Fault \/ UNCHANGED faults
    PROVE  Inv' /\ Apart
<1> USE Names DEF ReadEnds, session, locks, network
<1>0. TypeOK
  BY DEF Inv
<1>1. Turn("run", "fail", th["run"].conn, "retry", th["run"].msg)
  <2>1. th' = [th EXCEPT !["run"].at = "fail", !["run"].next = "retry"]
    OBVIOUS
  <2>2. th \in [Thread -> ThreadState] /\ conn \in ConnOrNone /\ "run" \in Thread
    BY <1>0 DEF TypeOK
  <2> HIDE Names DEF ReadEnds
  <2> QED BY <2>1, <2>2, StepNames DEF Turn, Others, ThreadState
<1>2. TypeOK'
  <2>1. attempts' \in 0 .. (IF MaxRetries = 0 THEN 1 ELSE MaxRetries)
    BY <1>0 DEF TypeOK
  <2>2. faults' \in 0 .. MaxFaults
    BY <1>0 DEF TypeOK, Fault
  <2>3. th' \in [Thread -> ThreadState]
    BY <1>1 DEF Turn, Others
  <2> QED BY <1>0, <2>1, <2>2, <2>3 DEF TypeOK
<1>3. (Paths /\ Clearance /\ Numbers /\ Dialled /\ Sockets
      /\ RunOfCurrent /\ StopOfAll /\ NothingOfTheDead)'
  BY <1>0, <1>1 DEF Inv, Paths, Clearance, Numbers, Dialled, Sockets, Installs, Clears,
                    RunOfCurrent, Working, Shown, StopOfAll, NothingOfTheDead, Others,
                    Turn
<1>4. Beats'
  BY <1>0, <1>1, BeatsStill DEF Others, Turn
<1>5. Apart
  BY <1>0, <1>1 DEF Apart, Others, Turn
<1> QED BY <1>2, <1>3, <1>4, <1>5 DEF Inv

LEMMA HandleRegisterKeeps ==
    ASSUME Inv, HandleRegister
    PROVE  Inv' /\ Apart
<1> USE Names DEF HandleRegister, session, locks, network
<1>0. TypeOK
  BY DEF Inv
<1>1. /\ (GoTo("run", "read") => To("run", "read"))
      /\ (GoTo("run", "ready") => To("run", "ready"))
  BY <1>0, GoToEffect DEF At, Inv, Paths, TypeOK, ThreadState
<1>2. TypeOK'
  BY <1>0, <1>1 DEF TypeOK, Others, To
<1>3. (Paths /\ Clearance /\ Numbers /\ Dialled /\ Sockets
      /\ RunOfCurrent /\ StopOfAll /\ NothingOfTheDead)'
  BY <1>0, <1>1 DEF Inv, Paths, Clearance, Numbers, Dialled, Sockets, Installs, Clears,
                    RunOfCurrent, Working, Shown, StopOfAll, NothingOfTheDead, Others,
                    To
<1>4. Beats'
  BY <1>0, <1>1, BeatsStill DEF Others, To
<1>5. Apart
  BY <1>0, <1>1 DEF Apart, Others, To
<1> QED BY <1>2, <1>3, <1>4, <1>5 DEF Inv

LEMMA ReadyKeeps ==
    ASSUME Inv, Ready
    PROVE  Inv' /\ Apart
<1> USE Names DEF Ready, session, locks, network
<1>0. TypeOK
  BY DEF Inv
<1>1. Shows("run", "Registered", "read")
  BY <1>0, SetStateEffect DEF Inv, Paths, TypeOK, ThreadState, Onward, NextStep, State
<1>2. TypeOK'
  BY <1>0, <1>1 DEF TypeOK, Fault, State, Others, To, Turn, Shows
<1>3. (Paths /\ Clearance /\ Numbers /\ Dialled /\ Sockets
      /\ StopOfAll /\ NothingOfTheDead)'
  BY <1>0, <1>1 DEF Inv, Paths, Clearance, Numbers, Dialled, Sockets, Installs, Clears,
                    StopOfAll, NothingOfTheDead, Others, To, Turn, Shows
<1>4. Beats'
  BY <1>0, <1>1, BeatsStill DEF Others, To, Turn, Shows
<1>5. RunOfCurrent'
  BY <1>0, <1>1 DEF Inv, RunOfCurrent, Working, Shown, Paths, NoConn, Ignored, Others,
                    To, Turn, Shows
<1>6. Apart
  BY <1>0, <1>1 DEF Apart, Others, To, Turn, Shows
<1> QED BY <1>2, <1>3, <1>4, <1>5, <1>6 DEF Inv

LEMMA HandleHeartbeatAckKeeps ==
    ASSUME Inv, HandleHeartbeatAck
    PROVE  Inv' /\ Apart
<1> USE Names DEF HandleHeartbeatAck, session, locks, network
<1>0. TypeOK
  BY DEF Inv
<1>1. GoTo("run", "read") => To("run", "read")
  BY <1>0, GoToEffect DEF At, Inv, Paths, TypeOK, ThreadState
<1>2. TypeOK'
  BY <1>0, <1>1 DEF TypeOK, Others, To
<1>3. (Paths /\ Clearance /\ Numbers /\ Dialled /\ Sockets
      /\ RunOfCurrent /\ StopOfAll /\ NothingOfTheDead)'
  BY <1>0, <1>1 DEF Inv, Paths, Clearance, Numbers, Dialled, Sockets, Installs, Clears,
                    RunOfCurrent, Working, Shown, StopOfAll, NothingOfTheDead, Others,
                    To
<1>4. Beats'
  <2>1. SUFFICES ASSUME NEW g \in Conn
                 PROVE  InFlight(g)' <= 1 /\ (g = conn /\ pending' = "none" => InFlight(g)' = 0)
    BY DEF Beats
  <2>2. due[g].beat \in Nat /\ due' = due
    BY <1>0 DEF TypeOK
  <2>3. Handled(g) = (IF th["run"].conn = g THEN 1 ELSE 0) /\ Handled(g)' = 0
    BY <1>0, <1>1 DEF Handled, To
  <2>4. Sent(g)' = Sent(g) /\ Sent(g) \in Nat
    BY <1>0, <1>1 DEF Sent, To, Others
  <2>5. g = conn => th["run"].conn = g
    BY <2>1 DEF Inv, RunOfCurrent, Working, Conn, NoConn
  <2>6. InFlight(g) <= 1
    BY DEF Inv, Beats
  <2> QED BY <2>2, <2>3, <2>4, <2>5, <2>6 DEF InFlight
<1>5. Apart
  BY <1>0, <1>1 DEF Apart, Others, To
<1> QED BY <1>2, <1>3, <1>4, <1>5 DEF Inv

-----------------------------------------------------------------------------
(* run: the retries.                                                       *)

LEMMA RetryKeeps ==
    ASSUME Inv, Retry
    PROVE  Inv' /\ Apart
<1> USE Names DEF Retry, session, locks, network
<1>0. TypeOK
  BY DEF Inv
<1>1. /\ (GoTo("run", "done") => To("run", "done"))
      /\ (GoTo("run", "gaveUp") => To("run", "gaveUp"))
      /\ (SetState("run", "Reconnecting", "wait") => Shows("run", "Reconnecting", "wait"))
  BY <1>0, GoToEffect, SetStateEffect DEF At, Inv, Paths, TypeOK, ThreadState, Onward,
                                          NextStep, State
<1>2. TypeOK'
  BY <1>0, <1>1 DEF TypeOK, Fault, State, Others, To, Turn, Shows
<1>3. Paths'
  BY <1>0, <1>1 DEF Inv, Paths, Exhausted, Others, To, Turn, Shows
<1>4. (Clearance /\ Dialled /\ Sockets /\ RunOfCurrent /\ StopOfAll
      /\ NothingOfTheDead)'
  BY <1>0, <1>1 DEF Inv, Clearance, Dialled, Sockets, Installs, Clears, RunOfCurrent,
                    Working, Shown, StopOfAll, NothingOfTheDead, Others, To, Turn, Shows
<1>5. Numbers'
  BY <1>0, <1>1 DEF Inv, Numbers, NoConn, TypeOK, Others, To, Turn, Shows
<1>6. Beats'
  BY <1>0, <1>1, BeatsStill DEF Others, To, Turn, Shows
<1>7. Apart
  BY <1>0, <1>1 DEF Apart, Others, To, Turn, Shows
<1> QED BY <1>2, <1>3, <1>4, <1>5, <1>6, <1>7 DEF Inv

LEMMA WaitKeeps ==
    ASSUME Inv, Wait
    PROVE  Inv' /\ Apart
<1> USE Names DEF Wait, session, locks, network
<1>0. TypeOK
  BY DEF Inv
<1>1. /\ (GoTo("run", "done") => To("run", "done"))
      /\ (GoTo("run", "connect") => To("run", "connect"))
  BY <1>0, GoToEffect DEF At, Inv, Paths, TypeOK, ThreadState
<1>2. TypeOK'
  BY <1>0, <1>1 DEF Inv, Paths, Exhausted, TypeOK, To, Others
<1>3. (Paths /\ Clearance /\ Dialled /\ Sockets /\ RunOfCurrent
      /\ StopOfAll /\ NothingOfTheDead)'
  BY <1>0, <1>1 DEF Inv, Paths, Clearance, Dialled, Sockets, Installs, Clears,
                    RunOfCurrent, Working, Shown, StopOfAll, NothingOfTheDead, Others,
                    To
<1>4. Numbers'
  BY <1>0, <1>1 DEF Inv, Numbers, NoConn, TypeOK, Others, To
<1>5. Beats'
  BY <1>0, <1>1, BeatsStill DEF Others, To
<1>6. Apart
  BY <1>0, <1>1 DEF Apart, Others, To
<1> QED BY <1>2, <1>3, <1>4, <1>5, <1>6 DEF Inv

-----------------------------------------------------------------------------
(* beat: heartbeatLoop.                                                    *)

LEMMA TickKeeps ==
    ASSUME Inv, Tick
    PROVE  Inv' /\ Apart
<1> USE Names DEF Tick, session, locks, network
<1>0. TypeOK
  BY DEF Inv
<1>1. /\ (pending = "expired" => Turn("beat", "fail", conn, "idle", th["beat"].msg))
      /\ (GoTo("beat", "heartbeat") => To("beat", "heartbeat"))
  <2>1. GoTo("beat", "heartbeat") => To("beat", "heartbeat")
    BY <1>0, GoToEffect DEF At
  <2>2. pending = "expired" => Turn("beat", "fail", conn, "idle", th["beat"].msg)
    <3>1. SUFFICES ASSUME pending = "expired"
                   PROVE  Turn("beat", "fail", conn, "idle", th["beat"].msg)
      OBVIOUS
    <3>2. th' = [th EXCEPT !["beat"].at = "fail", !["beat"].conn = conn, !["beat"].next = "idle"]
      BY <3>1
    <3>3. th \in [Thread -> ThreadState] /\ conn \in ConnOrNone /\ "beat" \in Thread
      BY <1>0 DEF TypeOK
    <3> HIDE Names DEF Tick
    <3> QED BY <3>2, <3>3, StepNames DEF Turn, Others, ThreadState
  <2> QED BY <2>1, <2>2
<1>2. TypeOK'
  BY <1>0, <1>1 DEF TypeOK, Others, To, Turn
<1>3. Paths'
  BY <1>0, <1>1 DEF Inv, Paths, Exhausted, Others, To, Turn
<1>4. (Clearance /\ Sockets /\ RunOfCurrent /\ StopOfAll /\ NothingOfTheDead)'
  BY <1>0, <1>1 DEF Inv, Clearance, Sockets, Installs, Clears, RunOfCurrent, Working,
                    Shown, StopOfAll, NothingOfTheDead, Others, To, Turn
<1>5. Numbers'
  <2>1. NoConn <= dialled /\ conn <= dialled /\ \A u \in Thread : th[u].conn <= dialled
    BY <1>0 DEF Inv, Numbers, TypeOK, NoConn
  <2>2. conn' <= dialled /\ th'["beat"].conn <= dialled /\ Others("beat")
    BY <1>0, <1>1, <2>1 DEF To, Turn
  <2> QED BY <1>0, <2>2, NumbersKept
<1>6. Dialled'
  <2>1. th'["run"] = th["run"] /\ Others("beat")
    BY <1>0, <1>1 DEF To, Turn, Others
  <2>2. th["run"].at = "install"
           => dialled # NoConn /\ conn # dialled /\ th'["beat"].conn \in {NoConn, conn, th["beat"].conn}
    BY <1>0, <1>1 DEF Inv, Dialled, To, Turn, NoConn
  <2> QED BY <1>0, <2>1, <2>2 DEF Inv, Dialled, Others
<1>7. Beats'
  BY <1>0, <1>1, BeatsStill DEF Others, To, Turn
<1>8. Apart
  BY <1>0, <1>1 DEF Apart, Others, To, Turn
<1> QED BY <1>2, <1>3, <1>4, <1>5, <1>6, <1>7, <1>8 DEF Inv

LEMMA SendHeartbeatKeeps ==
    ASSUME Inv, SendHeartbeat
    PROVE  Inv' /\ Apart
<1> USE Names DEF SendHeartbeat, session, locks, network
<1>0. TypeOK
  BY DEF Inv
<1>1. /\ (GoTo("beat", "idle") => To("beat", "idle"))
      /\ (~(conn = NoConn \/ pending = "sent")
           => IF pending = "expired" THEN Turn("beat", "fail", conn, "idle", th["beat"].msg)
              ELSE Turn("beat", "send", conn, th["beat"].next, "beat"))
  <2>1. GoTo("beat", "idle") => To("beat", "idle")
    BY <1>0, GoToEffect DEF At
  <2>2. conn # NoConn /\ pending = "expired"
           => Turn("beat", "fail", conn, "idle", th["beat"].msg)
    <3>1. SUFFICES ASSUME conn # NoConn, pending = "expired"
                   PROVE  Turn("beat", "fail", conn, "idle", th["beat"].msg)
      OBVIOUS
    <3>2. th' = [th EXCEPT !["beat"].at = "fail", !["beat"].conn = conn, !["beat"].next = "idle"]
      BY <3>1
    <3>3. th \in [Thread -> ThreadState] /\ conn \in ConnOrNone /\ "beat" \in Thread
      BY <1>0 DEF TypeOK
    <3> HIDE Names DEF SendHeartbeat
    <3> QED BY <3>2, <3>3, StepNames DEF Turn, Others, ThreadState
  <2>3. conn # NoConn /\ pending \notin {"sent", "expired"}
           => Turn("beat", "send", conn, th["beat"].next, "beat")
    <3>1. SUFFICES ASSUME conn # NoConn, pending \notin {"sent", "expired"}
                   PROVE  Turn("beat", "send", conn, th["beat"].next, "beat")
      OBVIOUS
    <3>2. th' = [th EXCEPT !["beat"].at = "send", !["beat"].conn = conn, !["beat"].msg = "beat"]
      BY <3>1
    <3>3. th \in [Thread -> ThreadState] /\ conn \in ConnOrNone /\ "beat" \in Thread
      BY <1>0 DEF TypeOK
    <3> HIDE Names DEF SendHeartbeat
    <3> QED BY <3>2, <3>3, StepNames DEF Turn, Others, ThreadState
  <2> QED BY <2>1, <2>2, <2>3
<1>2. TypeOK'
  BY <1>0, <1>1 DEF TypeOK, Others, To, Turn
<1>3. Paths'
  BY <1>0, <1>1 DEF Inv, Paths, Exhausted, Others, To, Turn
<1>4. (Clearance /\ Sockets /\ RunOfCurrent /\ StopOfAll /\ NothingOfTheDead)'
  BY <1>0, <1>1 DEF Inv, Clearance, Sockets, Installs, Clears, RunOfCurrent, Working,
                    Shown, StopOfAll, NothingOfTheDead, Others, To, Turn
<1>5. Numbers'
  <2>1. NoConn <= dialled /\ conn <= dialled /\ \A u \in Thread : th[u].conn <= dialled
    BY <1>0 DEF Inv, Numbers, TypeOK, NoConn
  <2>2. conn' <= dialled /\ th'["beat"].conn <= dialled /\ Others("beat")
    BY <1>0, <1>1, <2>1 DEF To, Turn
  <2> QED BY <1>0, <2>2, NumbersKept
<1>6. Dialled'
  <2>1. th'["run"] = th["run"] /\ Others("beat")
    BY <1>0, <1>1 DEF To, Turn, Others
  <2>2. th["run"].at = "install"
           => dialled # NoConn /\ conn # dialled /\ th'["beat"].conn \in {NoConn, conn, th["beat"].conn}
    BY <1>0, <1>1 DEF Inv, Dialled, To, Turn, NoConn
  <2> QED BY <1>0, <2>1, <2>2 DEF Inv, Dialled, Others
<1>7. Beats'
  BY <1>0, <1>1 DEF Inv, Beats, InFlight, Handled, Sent, TypeOK, Others, To, Turn
<1>8. Apart
  BY <1>0, <1>1 DEF Apart, Others, To, Turn
<1> QED BY <1>2, <1>3, <1>4, <1>5, <1>6, <1>7, <1>8 DEF Inv

LEMMA OverloadKeeps ==
    ASSUME Inv, NEW g \in Conn, Overload(g)
    PROVE  Inv' /\ Apart
<1> USE Names DEF Overload, Known, session, locks, network
<1>0. TypeOK
  BY DEF Inv
<1>1. Turn("beat", "fail", g, "idle", th["beat"].msg)
  <2>1. th' = [th EXCEPT !["beat"].at = "fail", !["beat"].conn = g, !["beat"].next = "idle"]
    OBVIOUS
  <2>2. th \in [Thread -> ThreadState] /\ conn \in ConnOrNone /\ "beat" \in Thread
    BY <1>0 DEF TypeOK
  <2> HIDE Names DEF Overload, Known
  <2> QED BY <2>1, <2>2, StepNames DEF Turn, Others, ThreadState
<1>2. TypeOK'
  BY <1>0, <1>1 DEF TypeOK, Fault, Others, Turn
<1>3. Paths'
  BY <1>0, <1>1 DEF Inv, Paths, Exhausted, Others, Turn
<1>4. (Clearance /\ Dialled /\ Sockets /\ RunOfCurrent /\ StopOfAll
      /\ NothingOfTheDead)'
  BY <1>0, <1>1 DEF Inv, Clearance, Dialled, Sockets, Installs, Clears, RunOfCurrent,
                    Working, Shown, StopOfAll, NothingOfTheDead, Others, Turn
<1>5. Numbers'
  BY <1>0, <1>1 DEF Inv, Numbers, TypeOK, NoConn, Conn, Others, Turn
<1>6. Beats'
  BY <1>0, <1>1, BeatsStill DEF Others, Turn
<1>7. Apart
  BY <1>0, <1>1 DEF Apart, Others, Turn
<1> QED BY <1>2, <1>3, <1>4, <1>5, <1>6, <1>7 DEF Inv

LEMMA ExpiresKeeps ==
    ASSUME Inv, Expires, Fault \/ UNCHANGED faults
    PROVE  Inv' /\ Apart
<1> USE Names DEF Expires, session, locks, network
<1>0. TypeOK
  BY DEF Inv
<1>1. TypeOK'
  BY <1>0 DEF TypeOK, Fault
<1>2. Paths'
  BY <1>0 DEF Inv, Paths, Exhausted
<1>3. (Clearance /\ Numbers /\ Dialled /\ Sockets /\ RunOfCurrent
      /\ StopOfAll /\ NothingOfTheDead)'
  BY <1>0 DEF Inv, Clearance, Numbers, Dialled, Sockets, Installs, Clears, RunOfCurrent,
              Working, Shown, StopOfAll, NothingOfTheDead
<1>4. Beats'
  BY <1>0 DEF Inv, Beats, InFlight, Handled, Sent, TypeOK
<1>5. Apart
  BY <1>0 DEF Apart
<1> QED BY <1>1, <1>2, <1>3, <1>4, <1>5 DEF Inv

-----------------------------------------------------------------------------
(* Senders, and the end of beat and of senders.                            *)

LEMMA SendForKeeps ==
    ASSUME Inv, NEW t \in Sender, NEW g \in Conn, SendFor(t, g)
    PROVE  Inv' /\ Apart
<1> USE Names DEF SendFor, Known, session, locks, network
<1>0. TypeOK
  BY DEF Inv
<1>1. Turn(t, "send", g, th[t].next, "data")
  <2>1. th' = [th EXCEPT ![t].at = "send", ![t].conn = g, ![t].msg = "data"]
    OBVIOUS
  <2>2. th \in [Thread -> ThreadState] /\ conn \in ConnOrNone /\ t \in Thread
    BY <1>0 DEF TypeOK
  <2> HIDE Names DEF SendFor, Known
  <2> QED BY <2>1, <2>2, StepNames DEF Turn, Others, ThreadState
<1>2. TypeOK'
  BY <1>0, <1>1 DEF TypeOK, Others, Turn
<1>3. Paths'
  BY <1>0, <1>1 DEF Inv, Paths, Exhausted, Others, Turn
<1>4. (Clearance /\ Dialled /\ Sockets /\ RunOfCurrent /\ StopOfAll
      /\ NothingOfTheDead)'
  BY <1>0, <1>1 DEF Inv, Clearance, Dialled, Sockets, Installs, Clears, RunOfCurrent,
                    Working, Shown, StopOfAll, NothingOfTheDead, Others, Turn
<1>5. Numbers'
  BY <1>0, <1>1 DEF Inv, Numbers, TypeOK, NoConn, Conn, Others, Turn
<1>6. Beats'
  BY <1>0, <1>1, BeatsStill DEF Others, Turn
<1>7. Apart
  BY <1>0, <1>1 DEF Apart, Others, Turn
<1> QED BY <1>2, <1>3, <1>4, <1>5, <1>6, <1>7 DEF Inv

LEMMA LeaveKeeps ==
    ASSUME Inv, NEW t \in Thread \ {"run", "stop"}, Leave(t)
    PROVE  Inv' /\ Apart
<1> USE Names DEF Leave, session, locks, network
<1>0. TypeOK
  BY DEF Inv
<1>1. GoTo(t, "done") => To(t, "done")
  BY <1>0, GoToEffect DEF At, Inv, Paths, TypeOK, ThreadState
<1>2. TypeOK'
  BY <1>0, <1>1 DEF TypeOK, Others, To
<1>3. Paths'
  BY <1>0, <1>1 DEF Inv, Paths, Exhausted, Others, To
<1>4. (Clearance /\ Sockets /\ RunOfCurrent /\ StopOfAll /\ NothingOfTheDead)'
  BY <1>0, <1>1 DEF Inv, Clearance, Sockets, Installs, Clears, RunOfCurrent, Working,
                    Shown, StopOfAll, NothingOfTheDead, Others, To
<1>5. Numbers'
  <2>1. NoConn <= dialled /\ conn <= dialled /\ \A u \in Thread : th[u].conn <= dialled
    BY <1>0 DEF Inv, Numbers, TypeOK, NoConn
  <2>2. conn' <= dialled /\ th'[t].conn <= dialled /\ Others(t)
    BY <1>0, <1>1, <2>1 DEF To, Turn
  <2> QED BY <1>0, <2>2, NumbersKept
<1>6. Dialled'
  <2>1. th'["run"] = th["run"] /\ Others(t)
    BY <1>0, <1>1 DEF To, Turn, Others
  <2>2. th["run"].at = "install"
           => dialled # NoConn /\ conn # dialled /\ th'[t].conn \in {NoConn, conn, th[t].conn}
    BY <1>0, <1>1 DEF Inv, Dialled, To, Turn, NoConn
  <2> QED BY <1>0, <2>1, <2>2 DEF Inv, Dialled, Others
<1>7. Beats'
  BY <1>0, <1>1, BeatsStill DEF Others, To
<1>8. Apart
  BY <1>0, <1>1 DEF Apart, Others, To
<1> QED BY <1>2, <1>3, <1>4, <1>5, <1>6, <1>7, <1>8 DEF Inv

-----------------------------------------------------------------------------
(* stop.                                                                   *)

LEMMA StopKeeps ==
    ASSUME Inv, Stop
    PROVE  Inv' /\ Apart
<1> USE Names DEF Stop, session, locks, network
<1>0. TypeOK
  BY DEF Inv
<1>1. GoTo("stop", "closeConn") => To("stop", "closeConn")
  BY <1>0, GoToEffect DEF At, Inv, Paths, TypeOK, ThreadState
<1>2. TypeOK'
  BY <1>0, <1>1 DEF TypeOK, Others, To
<1>3. Paths'
  BY <1>0, <1>1 DEF Inv, Paths, Exhausted, Others, To
<1>4. (Clearance /\ Sockets /\ RunOfCurrent /\ StopOfAll /\ NothingOfTheDead)'
  BY <1>0, <1>1 DEF Inv, Clearance, Sockets, Installs, Clears, RunOfCurrent, Working,
                    Shown, StopOfAll, NothingOfTheDead, Others, To
<1>5. Numbers'
  BY <1>0, <1>1 DEF Inv, Numbers, NoConn, TypeOK, Others, To
<1>6. Dialled'
  BY <1>0, <1>1 DEF Inv, Dialled, Numbers, NoConn, TypeOK, Others, To
<1>7. Beats'
  BY <1>0, <1>1, BeatsStill DEF To, Turn, Onward, NextStep
<1>8. Apart
  BY <1>0, <1>1 DEF Apart, Others, To
<1> QED BY <1>2, <1>3, <1>4, <1>5, <1>6, <1>7, <1>8 DEF Inv

LEMMA StopWaitKeeps ==
    ASSUME Inv, StopWait
    PROVE  Inv' /\ Apart
<1> USE Names DEF StopWait, session, locks, network
<1>0. TypeOK
  BY DEF Inv
<1>1. Shows("stop", "Disconnected", "done")
  BY <1>0, SetStateEffect DEF Inv, Paths, TypeOK, ThreadState, Onward, NextStep, State
<1>2. TypeOK'
  BY <1>0, <1>1 DEF TypeOK, Fault, State, Others, To, Turn, Shows
<1>3. (Paths /\ Clearance /\ Dialled /\ Sockets /\ RunOfCurrent
      /\ NothingOfTheDead)'
  BY <1>0, <1>1 DEF Inv, Paths, Clearance, Dialled, Sockets, Installs, Clears,
                    RunOfCurrent, Working, Shown, NothingOfTheDead, Others, To, Turn,
                    Shows
<1>4. Numbers'
  <2>1. NoConn <= dialled /\ conn <= dialled /\ \A u \in Thread : th[u].conn <= dialled
    BY <1>0 DEF Inv, Numbers, TypeOK, NoConn
  <2>2. conn' <= dialled /\ th'["stop"].conn <= dialled /\ Others("stop")
    BY <1>0, <1>1, <2>1 DEF To, Turn, Shows
  <2> QED BY <1>0, <2>2, NumbersKept
<1>5. Beats'
  BY <1>0, <1>1, BeatsStill DEF Others, To, Turn, Shows
<1>6. StopOfAll'
  BY <1>0, <1>1 DEF Inv, StopOfAll, Paths, Clearance, NoConn, TypeOK, Thread, Ignored,
                    Others, To, Turn, Shows
<1>7. Apart
  BY <1>0, <1>1 DEF Apart, Others, To, Turn, Shows
<1> QED BY <1>2, <1>3, <1>4, <1>5, <1>6, <1>7 DEF Inv

-----------------------------------------------------------------------------
(* The network.                                                            *)

LEMMA DisturbKeeps ==
    ASSUME Inv, NEW g \in Conn, NEW how \in {"broken", "silent"}, Disturb(g, how)
    PROVE  Inv' /\ Apart
<1> USE Names DEF Disturb, session, locks, network
<1>0. TypeOK
  BY DEF Inv
<1>1. TypeOK'
  BY <1>0 DEF TypeOK, Fault
<1>2. Paths'
  BY <1>0 DEF Inv, Paths, Exhausted
<1>3. (Clearance /\ Numbers /\ Dialled /\ Sockets /\ RunOfCurrent
      /\ StopOfAll /\ NothingOfTheDead)'
  BY <1>0 DEF Inv, Clearance, Numbers, Dialled, Sockets, Installs, Clears, RunOfCurrent,
              Working, Shown, StopOfAll, NothingOfTheDead
<1>4. Beats'
  BY <1>0 DEF Inv, Beats, InFlight, Handled, Sent, TypeOK
<1>5. Apart
  BY <1>0 DEF Apart
<1> QED BY <1>1, <1>2, <1>3, <1>4, <1>5 DEF Inv

-----------------------------------------------------------------------------
(* The invariant.                                                          *)

LEMMA InitEstablishes == Init => Inv
<1> SUFFICES ASSUME Init PROVE Inv
  OBVIOUS
<1> USE DEF Init
<1>0. /\ {"run", "beat", "stop"} \subseteq Thread /\ "none" \notin Thread
      /\ MaxFaults \in Nat /\ MaxRetries \in Nat
  BY SenderAssumption, FaultsAssumption, RetriesAssumption DEF Thread
<1>1. Resting \in ThreadState /\ [Resting EXCEPT !.at = "connect"] \in ThreadState
  BY StepNames DEF Resting, ThreadState
<1>2. \A t \in Thread : /\ th[t] \in ThreadState /\ th[t].conn = NoConn /\ th[t].next = "none"
                        /\ th[t].msg = "none" /\ th[t].at = IF t = "run" THEN "connect" ELSE "idle"
  BY <1>1 DEF Resting
<1>3. /\ conn = NoConn /\ registered = FALSE /\ port = FALSE /\ pending = "none" /\ fresh = FALSE
      /\ state = "Disconnected" /\ cancelled = FALSE /\ sessionMu = "none" /\ writeMu = "none"
      /\ attempts = 0 /\ dialled = 0 /\ faults = 0
      /\ th \in [Thread -> ThreadState]
      /\ socket \in [Conn -> {"none"}] /\ due \in [Conn -> [register : BOOLEAN, beat : {0}]]
  BY <1>1
<1> HIDE DEF Init
<1>4. TypeOK
  <2>1. attempts \in 0 .. (IF MaxRetries = 0 THEN 1 ELSE MaxRetries)
    BY <1>0, <1>3
  <2>2. socket \in [Conn -> {"none", "up", "silent", "broken", "closed"}]
    BY <1>3
  <2>3. due \in [Conn -> [register : BOOLEAN, beat : 0 .. 2]]
    BY <1>3
  <2>4. dialled \in 0 .. MaxFaults + 1 /\ faults \in 0 .. MaxFaults
    BY <1>0, <1>3
  <2> QED BY <1>0, <1>3, <2>1, <2>2, <2>3, <2>4 DEF TypeOK, State, ConnOrNone
<1>5. Paths
  BY <1>0, <1>2, <1>3 DEF Paths
<1>6. Clearance /\ Numbers /\ Dialled /\ Sockets
  BY <1>0, <1>2, <1>3 DEF Clearance, Numbers, Dialled, Sockets, NoConn, Conn
<1>7. Beats
  BY <1>0, <1>2, <1>3 DEF Beats, InFlight, Handled, Sent
<1>8. RunOfCurrent /\ StopOfAll /\ NothingOfTheDead
  BY <1>0, <1>2, <1>3 DEF RunOfCurrent, Working, StopOfAll, NothingOfTheDead
<1> QED BY <1>4, <1>5, <1>6, <1>7, <1>8 DEF Inv

LEMMA StutterKeeps ==
    ASSUME Inv, UNCHANGED vars
    PROVE  Inv'
<1> USE DEF vars, session, locks, network
<1>1. TypeOK' /\ Paths' /\ Clearance' /\ Numbers' /\ Dialled'
  BY DEF Inv, TypeOK, Paths, Exhausted, Clearance, Numbers, Dialled
<1>2. Sockets' /\ Beats'
  BY DEF Inv, Sockets, Installs, Clears, Beats, InFlight, Handled, Sent
<1>3. RunOfCurrent' /\ StopOfAll' /\ NothingOfTheDead'
  BY DEF Inv, RunOfCurrent, Working, Shown, StopOfAll, NothingOfTheDead
<1> QED BY <1>1, <1>2, <1>3 DEF Inv

\* What any step does to the session.
SessionStep ==
    \/ Apart
    \/ \E t \in Thread : \/ Taken(t)
                        \/ (conn' = conn /\ sessionMu' = "none" /\ th[t].at = "cleanup")
    \/ Begins(th["run"].conn)

LEMMA CommonKeeps ==
    ASSUME Inv, NEW t \in Thread, Common(t)
    PROVE  Inv' /\ SessionStep
<1>1. CASE Callback(t)
  BY <1>1, CallbackKeeps DEF SessionStep
<1>2. CASE Fail(t)
  BY <1>2, FailKeeps DEF SessionStep
<1>3. CASE Cleanup(t)
  BY <1>3, CleanupKeeps DEF SessionStep
<1>4. CASE Lost(t)
  BY <1>4, LostKeeps DEF SessionStep
<1>5. CASE Write(t)
  BY <1>5, WriteKeeps DEF SessionStep
<1>6. CASE WriteError(t)
  BY <1>6, WriteFailsKeeps DEF SessionStep, WriteError
<1>7. CASE Unlock(t)
  BY <1>7, UnlockKeeps DEF SessionStep
<1> QED BY <1>1, <1>2, <1>3, <1>4, <1>5, <1>6, <1>7 DEF Common

LEMMA RunKeeps ==
    ASSUME Inv, Run
    PROVE  Inv' /\ SessionStep
<1> "run" \in Thread
  BY DEF Thread
<1>1. CASE Common("run")
  BY <1>1, CommonKeeps
<1>2. CASE CloseConn("run", "retry") \/ Connect \/ Dial \/ DialCancelled
  BY <1>2, RunClosesKeeps, ConnectKeeps, DialKeeps, NoDialKeeps
     DEF SessionStep, DialCancelled
<1>3. CASE Install \/ Installed \/ Register \/ Loop
  BY <1>3, InstallKeeps, InstalledKeeps, RegisterKeeps, LoopKeeps DEF SessionStep
<1>4. CASE DecodeRegister \/ DecodeBeat \/ ReadError
  BY <1>4, DecodeRegisterKeeps, DecodeBeatKeeps, ReadEndsKeeps
     DEF SessionStep, ReadError
<1>5. CASE HandleRegister \/ Ready \/ HandleHeartbeatAck \/ Retry \/ Wait
  BY <1>5, HandleRegisterKeeps, ReadyKeeps, HandleHeartbeatAckKeeps, RetryKeeps,
     WaitKeeps
     DEF SessionStep
<1> QED BY <1>1, <1>2, <1>3, <1>4, <1>5 DEF Run

LEMMA NextKeeps ==
    ASSUME Inv, [Next]_vars
    PROVE  Inv' /\ (SessionStep \/ UNCHANGED vars)
<1>0. {"run", "beat", "stop"} \subseteq Thread /\ Sender \subseteq Thread \ {"run", "beat", "stop"}
  BY SenderAssumption DEF Thread
<1>1. CASE Run
  BY <1>1, RunKeeps
<1>2. CASE Beat
  <2>1. CASE Common("beat")
    BY <1>0, <2>1, CommonKeeps
  <2>2. CASE Tick \/ SendHeartbeat \/ Leave("beat")
    BY <1>0, <2>2, TickKeeps, SendHeartbeatKeeps, LeaveKeeps DEF SessionStep
  <2> QED BY <1>2, <2>1, <2>2 DEF Beat
<1>3. CASE Stopping \/ Stop
  <2>1. CASE Common("stop")
    BY <1>0, <2>1, CommonKeeps
  <2>2. CASE CloseConn("stop", "waitAll") \/ StopWait \/ Stop
    BY <2>2, StopClosesKeeps, StopWaitKeeps, StopKeeps DEF SessionStep
  <2> QED BY <1>3, <2>1, <2>2 DEF Stopping
<1>4. CASE Expire \/ ExpireEarly \/ DialFails \/ ReadTimeout \/ ReadStopped
  BY <1>4, ExpiresKeeps, NoDialKeeps, ReadEndsKeeps
     DEF SessionStep, Expire, ExpireEarly, DialFails, ReadTimeout, ReadStopped
<1>5. ASSUME NEW t \in Sender, Sending(t)
      PROVE  Inv' /\ SessionStep
  BY <1>0, <1>5, CommonKeeps, LeaveKeeps DEF SessionStep, Sending
<1>6. ASSUME NEW t \in Sender, NEW g \in Conn, SendFor(t, g)
      PROVE  Inv' /\ SessionStep
  BY <1>6, SendForKeeps DEF SessionStep
<1>7. ASSUME NEW t \in Thread, Send(t) \/ WriteTimeout(t)
      PROVE  Inv' /\ SessionStep
  BY <1>7, SendKeeps, WriteFailsKeeps DEF SessionStep, WriteTimeout
<1>8. ASSUME NEW g \in Conn, Overload(g) \/ Disturb(g, "broken") \/ Disturb(g, "silent")
      PROVE  Inv' /\ SessionStep
  BY <1>8, OverloadKeeps, DisturbKeeps DEF SessionStep
<1>9. CASE UNCHANGED vars
  BY <1>9, StutterKeeps
<1> QED BY <1>1, <1>2, <1>3, <1>4, <1>5, <1>6, <1>7, <1>8, <1>9 DEF Next

\* Every state of the client satisfies the invariant.
THEOREM ConnectionInvariant == Spec => []Inv
<1>1. Inv /\ [Next]_vars => Inv'
  BY NextKeeps
<1> QED BY InitEstablishes, <1>1, PTL DEF Spec

\* Every variable of the control connection keeps its type: in particular no
\* connection ever owes two heartbeat answers (sendHeartbeat, connection.go),
\* and the attempts stay within MaxRetries.
THEOREM ConnectionTypeCorrect == Spec => []TypeOK
<1>1. Inv => TypeOK
  BY DEF Inv
<1> QED BY ConnectionInvariant, <1>1, PTL

\* What the client says of its connection (state, port, pending heartbeat) is
\* true of the current one, whichever thread failed the one before and when.
THEOREM FactsAreOfCurrent == Spec => []FactsOfCurrent
<1>1. Inv => FactsOfCurrent
  <2> SUFFICES ASSUME Inv PROVE StateOfCurrent
    BY DEF Inv, FactsOfCurrent
  <2> QED BY DEF Inv, RunOfCurrent, Shown, StateOfCurrent
<1> QED BY ConnectionInvariant, <1>1, PTL

\* The next heartbeat ACK of the current connection answers the heartbeat that
\* is pending.
THEOREM AckIsOfPending == Spec => []AckMatches
<1>1. Inv => AckMatches
  <2> SUFFICES ASSUME Inv, conn # NoConn
               PROVE  due[conn].beat + (IF th["run"].at = "gotBeat" THEN 1 ELSE 0)
                       + (IF th["beat"].at \in {"send", "write"} /\ th["beat"].conn = conn
                          THEN 1 ELSE 0)
                      <= IF pending = "none" THEN 0 ELSE 1
    BY DEF AckMatches
  <2>1. conn \in Conn
    BY DEF Inv, TypeOK, ConnOrNone
  <2>2. th["run"].at = "gotBeat" => th["run"].conn = conn
    BY DEF Inv, RunOfCurrent, Working
  <2>3. due[conn].beat \in Nat
    BY <2>1 DEF Inv, TypeOK
  <2>4. InFlight(conn) = due[conn].beat + (IF th["run"].at = "gotBeat" THEN 1 ELSE 0)
                         + (IF th["beat"].at \in {"send", "write"} /\ th["beat"].conn = conn
                            THEN 1 ELSE 0)
    BY <2>2 DEF InFlight, Handled, Sent
  <2>5. InFlight(conn) <= IF pending = "none" THEN 0 ELSE 1
    BY <2>1, <2>3, <2>4 DEF Inv, Beats
  <2> QED BY <2>4, <2>5
<1> QED BY ConnectionInvariant, <1>1, PTL

\* When Stop has returned, every thread is over, every socket is closed and the
\* client says it is disconnected.
THEOREM StopLeavesNothing == Spec => []StoppedIsQuiet
<1>1. Inv => StoppedIsQuiet
  <2> SUFFICES ASSUME Inv, th["stop"].at = "done"
               PROVE  /\ conn = NoConn /\ state = "Disconnected"
                      /\ \A g \in Conn : g <= dialled => socket[g] = "closed"
                      /\ \A t \in Thread : th[t].at \in {"done", "gaveUp"}
    BY DEF StoppedIsQuiet
  <2>1. conn = NoConn /\ state = "Disconnected"
    BY DEF Inv, StopOfAll
  <2>2. \A t \in Thread : th[t].at \in {"done", "gaveUp"}
    BY DEF Inv, StopOfAll
  <2>3. ASSUME NEW g \in Conn, g <= dialled PROVE socket[g] = "closed"
    <3>1. socket[g] # "none"
      BY <2>3 DEF Inv, Numbers, TypeOK, Conn
    <3>2. g # conn /\ ~Installs(g) /\ \A t \in Thread : ~Clears(t, g)
      BY <2>1, <2>2 DEF Conn, NoConn, Installs, Clears, Thread
    <3> QED BY <3>1, <3>2 DEF Inv, Sockets
  <2> QED BY <2>1, <2>2, <2>3
<1> QED BY ConnectionInvariant, <1>1, PTL

-----------------------------------------------------------------------------
(* The connections seen by the rest of the client are those of             *)
(* ControlSession: the refinement mapping is Clearing.                     *)

LEMMA ClearingIs ==
    ASSUME Inv
    PROVE  /\ \A t \in Thread : th[t].at = "cleanup" => Clearing = th[t].conn
           /\ sessionMu = "none" => Clearing = NoConn
<1>1. ASSUME NEW t \in Thread, th[t].at = "cleanup"
      PROVE  Clearing = th[t].conn
  <2> DEFINE u == CHOOSE v \in Thread : th[v].at = "cleanup"
  <2>1. u \in Thread /\ th[u].at = "cleanup"
    BY <1>1
  <2>2. u = t
    BY <1>1, <2>1 DEF Inv, Clearance
  <2> QED BY <1>1, <2>2 DEF Clearing
<1>2. ASSUME sessionMu = "none"
      PROVE  Clearing = NoConn
  BY <1>2, SenderAssumption DEF Inv, Clearance, Clearing, Thread
<1> QED BY <1>1, <1>2

\* The same of the state after a step.
LEMMA ClearingWillBe ==
    ASSUME Inv'
    PROVE  /\ \A t \in Thread : th'[t].at = "cleanup" => Clearing' = th'[t].conn
           /\ sessionMu' = "none" => Clearing' = NoConn
<1>1. ASSUME NEW t \in Thread, th'[t].at = "cleanup"
      PROVE  Clearing' = th'[t].conn
  <2> DEFINE u == CHOOSE v \in Thread : th'[v].at = "cleanup"
  <2>1. u \in Thread /\ th'[u].at = "cleanup"
    BY <1>1
  <2>2. u = t
    BY <1>1, <2>1 DEF Inv, Clearance
  <2> QED BY <1>1, <2>2 DEF Clearing
<1>2. ASSUME sessionMu' = "none"
      PROVE  Clearing' = NoConn
  BY <1>2, SenderAssumption DEF Inv, Clearance, Clearing, Thread
<1> QED BY <1>1, <1>2

LEMMA StepAbstract ==
    ASSUME Inv, Inv', SessionStep
    PROVE  C!Next \/ UNCHANGED <<conn, Clearing>>
<1>1. CASE Apart
  <2>1. CASE \E t \in Thread : th[t].at = "cleanup"
    BY <1>1, <2>1, ClearingIs, ClearingWillBe DEF Apart
  <2>2. CASE ~\E t \in Thread : th[t].at = "cleanup"
    <3>1. sessionMu = "none"
      BY <2>2 DEF Inv, TypeOK, Clearance
    <3> QED BY <1>1, <3>1, ClearingIs, ClearingWillBe DEF Apart
  <2> QED BY <2>1, <2>2
<1>2. ASSUME NEW t \in Thread, Taken(t)
      PROVE  C!Lose
  BY <1>2, ClearingWillBe DEF Taken, C!Lose
<1>3. ASSUME NEW t \in Thread, conn' = conn, sessionMu' = "none", th[t].at = "cleanup"
      PROVE  C!Cleared
  <2>1. Clearing # NoConn
    BY <1>3, ClearingIs DEF Inv, Clearance
  <2> QED BY <1>3, <2>1, ClearingWillBe DEF C!Cleared
<1>4. CASE Begins(th["run"].conn)
  BY <1>4, ClearingIs, ClearingWillBe DEF Begins, C!Install, C!Next
<1> QED BY <1>1, <1>2, <1>3, <1>4 DEF SessionStep, C!Next

\* The client has at most one control connection, and installs none before the
\* one it lost has been cleared away, whatever its threads do meanwhile.
THEOREM ConnectionImplementsSession == Spec => OneSession
<1>1. Init => C!Init
  <2> SUFFICES ASSUME Init PROVE C!Init
    OBVIOUS
  <2> QED BY InitEstablishes, ClearingIs DEF Init, C!Init
<1>2. Inv /\ Inv' /\ [Next]_vars => [C!Next]_<<conn, Clearing>>
  <2>1. ASSUME UNCHANGED vars PROVE UNCHANGED <<conn, Clearing>>
    BY <2>1 DEF vars, Clearing
  <2> QED BY NextKeeps, StepAbstract, <2>1
<1> QED BY <1>1, <1>2, ConnectionInvariant, PTL DEF Spec, OneSession, C!Spec

=============================================================================

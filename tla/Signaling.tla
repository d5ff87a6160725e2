----------------------------- MODULE Signaling -----------------------------
(***************************************************************************)
(* client/signaling.go and the parts of connection.go and client.go about  *)
(* WebRTC: a client created by NewClientWithWebRTC and started with        *)
(* AutoReconnect offers a peer connection on every control connection,     *)
(* with a manager of its own for each (PeerManager), until Stop.           *)
(*                                                                         *)
(* Threads: the run loop, which dials, swaps the manager and handles the   *)
(* server's messages; for each connection an offer goroutine, which ends   *)
(* as its watchdog; whoever else loses the control connection; Stop.       *)
(* signalingMu is held by one of them.  The control connection itself is   *)
(* ClientConnection's, abstracted to dial and loss.                        *)
(*                                                                         *)
(* The server is external: on a connection it acknowledges once, and after *)
(* the offer may answer, send candidates, and report success or failure,   *)
(* each once.                                                              *)
(***************************************************************************)
EXTENDS PeerManager

CONSTANTS MaxConn     \* bound: control connections dialled

ASSUME MaxConnAssumption == MaxConn \in Nat \ {0}

Conn == 1 .. MaxConn

\* Managers are numbered in the order of their creation, one per connection.
ASSUME ManagerAssumption == Manager = Conn

VARIABLES
    control,      \* c.conn, 0 for none
    dialled,      \* connections dialled so far
    losing,       \* failConn holds sessionMu and has not cleaned up yet
    cancelled,    \* c.ctx done and c.stopping
    current,      \* c.webrtcManager
    usingWebRTC,
    sig,          \* signalingMu: free or its holder
    doomed,       \* the manager its holder is closing, 0 for none
    run,          \* the run loop, or the message it is handling
    got,          \* what the server has sent on the newest connection
    offer,        \* the offer goroutine of each connection
    owner,        \* the manager it was given
    sent,         \* signals written on each connection, with their manager
    stop          \* Stop

conns == <<control, dialled, losing, cancelled>>
lock == <<sig, doomed>>
loop == <<run, got>>
offers == <<offer, owner, sent>>
signaling == <<conns, current, usingWebRTC, lock, loop, offers, stop>>
vars == <<managerVars, signaling>>

\* Holders of signalingMu: the goroutine of a connection, the run loop, Stop.
Free == 0
Runner == MaxConn + 1
Stopper == MaxConn + 2
Phase == {"down", "prepare", "swap", "read", "remote", "flush", "close", "gone"}
Message == {"ack", "answer", "established", "failed"} \cup Candidate

\* Candidates are none of the names used for what the run loop does.
ASSUME CandidateAssumption ==
    Candidate \cap (Phase \cup {"ack", "answer", "established", "failed"}) = {}

\* Where the lock is held.
Critical(c) == offer[c] \in {"peer", "offer", "aborting"}

SignalingTypeOK ==
    /\ ManagerTypeOK
    /\ control \in {0, dialled} /\ dialled \in 0 .. MaxConn
    /\ <<losing, cancelled, usingWebRTC>> \in BOOLEAN \X BOOLEAN \X BOOLEAN
    /\ current \in Manager /\ doomed \in Manager \cup {0}
    /\ sig \in Conn \cup {Free, Runner, Stopper}
    /\ run \in Phase \cup Message
    /\ got \subseteq Message
    /\ offer \in [Conn -> {"no", "create", "peer", "offer", "send", "watch", "abort",
                           "aborting", "done"}]
    /\ owner \in [Conn -> Manager \cup {0}]
    /\ sent \in [Conn -> SUBSET (Manager \X {"offer", "candidate"})]
    /\ stop \in {"no", "closing", "lock", "shut", "wait", "stopped"}
    \* The mutex is held exactly inside its critical sections.
    /\ sig = Runner <=> run = "swap"
    /\ sig = Stopper <=> stop = "shut"
    /\ \A c \in Conn : sig = c <=> Critical(c)

activeWebRTC(m, c) == ~cancelled /\ control = c /\ current = m

\* A goroutine closing m takes signalingMu and closes m; OwnerCloses runs
\* doClose unless somebody else has.
TakeToClose(who, m) == sig = Free /\ sig' = who /\ doomed' = m

OwnerCloses ==
    /\ doomed # 0
    /\ BeginClose(doomed, "owner")
    /\ UNCHANGED signaling

\* Close returns when doClose has run.
CloseReturns(who) ==
    /\ sig = who /\ doomed # 0 /\ life[doomed] = "closed"
    /\ sig' = Free /\ doomed' = 0

-----------------------------------------------------------------------------
(* The run loop.                                                           *)

\* connect; every attempt but the first (taken to succeed) goes through
\* prepareWebRTCReconnect.
Dial ==
    /\ run = "down" /\ ~cancelled /\ ~losing /\ dialled < MaxConn
    /\ dialled' = dialled + 1 /\ control' = dialled + 1
    /\ run' = IF dialled = 0 THEN "read" ELSE "prepare"
    /\ UNCHANGED <<losing, cancelled, got, current, usingWebRTC, lock, offers, stop,
                   managerVars>>

\* prepareWebRTCReconnect: a new manager takes the place of the old one.
FaultyPrepare ==
    /\ run = "prepare" /\ sig = Free /\ ~cancelled /\ control # 0
    /\ current' = current + 1
    /\ NewManager(current + 1)
    /\ run' = "read"
    /\ UNCHANGED <<conns, usingWebRTC, lock, got, offers, stop>>
Prepare ==
    /\ run = "prepare" /\ ~cancelled /\ control # 0
    /\ current' = current + 1
    /\ NewManager(current + 1)
    /\ TakeToClose(Runner, current)
    /\ run' = "swap"
    /\ UNCHANGED <<conns, usingWebRTC, got, offers, stop>>

PrepareNothing ==
    /\ run = "prepare" /\ sig = Free /\ (cancelled \/ control = 0)
    /\ run' = "read"
    /\ UNCHANGED <<conns, current, usingWebRTC, lock, got, offers, stop, managerVars>>

Closed ==
    /\ run = "swap" /\ CloseReturns(Runner)
    /\ run' = "read"
    /\ UNCHANGED <<conns, current, usingWebRTC, got, offers, stop, managerVars>>

\* What the server may send next on the connection.
Due(msg) ==
    /\ msg \notin got
    /\ msg # "ack" => sent[dialled] # {} /\ \E m \in Manager : <<m, "offer">> \in sent[dialled]
    /\ msg = "established" => "answer" \in got

\* readConnection: a message decoded while the connection was current.
Receive(msg) ==
    /\ run = "read" /\ control = dialled /\ ~cancelled /\ Due(msg)
    /\ got' = got \cup {msg}
    /\ run' = msg
    /\ UNCHANGED <<conns, current, usingWebRTC, lock, offers, stop, managerVars>>

\* handleRegisterAck: the manager first, the control connection second; launch
\* refuses once Stop has begun.
HandleAck ==
    /\ run = "ack" /\ run' = "read"
    /\ \/ /\ control # 0 /\ ~cancelled
          /\ offer' = [offer EXCEPT ![control] = "create"]
          /\ owner' = [owner EXCEPT ![control] = current]
       \/ (control = 0 \/ cancelled) /\ UNCHANGED <<offer, owner>>
    /\ UNCHANGED <<conns, current, usingWebRTC, lock, got, sent, stop, managerVars>>

\* handleWebRTCAnswer, over SetRemoteDescription.
HandleAnswer ==
    /\ \/ run = "answer" /\ MarkRemote(current) /\ run' = "remote"
       \/ run = "answer" /\ peer[current] # "held" /\ run' = "read" /\ UNCHANGED managerVars
       \/ run = "remote" /\ RemoteRefused(current) /\ run' = "read"
       \/ run = "remote" /\ RemoteAccepted(current) /\ run' = "flush"
       \/ run = "flush" /\ FlushPending(current) /\ run' = "read"
    /\ UNCHANGED <<conns, current, usingWebRTC, lock, got, offers, stop>>

HandleCandidate ==
    /\ run \in Candidate /\ AddICECandidate(current, run)
    /\ run' = "read"
    /\ UNCHANGED <<conns, current, usingWebRTC, lock, got, offers, stop>>

HandleEstablished ==
    /\ run = "established" /\ run' = "read"
    /\ usingWebRTC' = TRUE
    /\ UNCHANGED <<conns, current, lock, got, offers, stop, managerVars>>

HandleFailed ==
    /\ \/ run = "failed" /\ usingWebRTC' = FALSE /\ run' = "close" /\ UNCHANGED lock
       \/ run = "close" /\ TakeToClose(Runner, current) /\ run' = "swap" /\ UNCHANGED usingWebRTC
    /\ UNCHANGED <<conns, current, got, offers, stop, managerVars>>

\* The read loop ends with its connection, the run loop with the client (or
\* with the bound on connections).
ReadEnds ==
    /\ \/ run = "read" /\ (control # dialled \/ cancelled) /\ ~losing
          /\ run' = "down" /\ got' = {}
       \/ run = "down" /\ (cancelled \/ dialled = MaxConn)
          /\ run' = "gone" /\ UNCHANGED got
    /\ UNCHANGED <<conns, current, usingWebRTC, lock, offers, stop, managerVars>>

-----------------------------------------------------------------------------
(* Losing the control connection (failConn, from any thread).              *)

Lose ==
    /\ control # 0 /\ ~losing
    /\ control' = 0 /\ losing' = TRUE
    /\ UNCHANGED <<dialled, cancelled, current, usingWebRTC, lock, loop, offers, stop,
                   managerVars>>

CleanUp ==
    /\ losing /\ losing' = FALSE
    /\ usingWebRTC' = FALSE
    /\ UNCHANGED <<control, dialled, cancelled, current, lock, loop, offers, stop,
                   managerVars>>

-----------------------------------------------------------------------------
(* The offer goroutine of connection c, with the manager it was given.     *)

Go(c, from, to) == offer[c] = from /\ offer' = [offer EXCEPT ![c] = to]

\* The callbacks are wired; then, under signalingMu: still active?
Lock(c) ==
    /\ sig = Free
    /\ \/ activeWebRTC(owner[c], c) /\ Go(c, "create", "peer") /\ sig' = c
       \/ ~activeWebRTC(owner[c], c) /\ Go(c, "create", "done") /\ UNCHANGED sig
    /\ UNCHANGED <<conns, current, usingWebRTC, doomed, loop, owner, sent, stop,
                   managerVars>>

\* CreateOffer, in two steps, and its errors.
CreateOffer(c) ==
    /\ \/ Go(c, "peer", "offer") /\ CreatePeer(owner[c]) /\ UNCHANGED sig
       \/ Go(c, "offer", "send") /\ OfferMade(owner[c]) /\ sig' = Free
    /\ UNCHANGED <<conns, current, usingWebRTC, doomed, loop, owner, sent, stop>>

OfferFails(c) ==
    /\ Go(c, "peer", "abort") \/ Go(c, "offer", "abort")
    /\ sig' = Free
    /\ UNCHANGED <<conns, current, usingWebRTC, doomed, loop, owner, sent, stop,
                   managerVars>>

\* closeWebRTCManager, after an error or a timeout.
Abort(c) ==
    /\ \/ Go(c, "abort", "aborting") /\ TakeToClose(c, owner[c])
       \/ Go(c, "aborting", "done") /\ CloseReturns(c)
    /\ UNCHANGED <<conns, current, usingWebRTC, loop, owner, sent, stop, managerVars>>

\* sendRawFor writes only on the connection the goroutine was started for; the
\* watchdog is launched unless Stop has begun.
FaultySendOffer(c) ==
    /\ offer[c] = "send"
    /\ \/ control # 0 /\ ~cancelled /\ Go(c, "send", "watch")
          /\ sent' = [sent EXCEPT ![control] = @ \cup {<<owner[c], "offer">>}]
       \/ (control = 0 \/ cancelled) /\ Go(c, "send", "done") /\ UNCHANGED sent
    /\ UNCHANGED <<conns, current, usingWebRTC, lock, loop, owner, stop, managerVars>>
SendOffer(c) ==
    /\ \/ /\ control = c /\ ~cancelled /\ Go(c, "send", "watch")
          /\ sent' = [sent EXCEPT ![c] = @ \cup {<<owner[c], "offer">>}]
       \/ (control # c \/ cancelled) /\ Go(c, "send", "done") /\ UNCHANGED sent
    /\ UNCHANGED <<conns, current, usingWebRTC, lock, loop, owner, stop, managerVars>>

\* onICECandidate, called by pion once the local description is set.
SendCandidate(c) ==
    /\ offer[c] \in {"send", "watch"} /\ peer[owner[c]] = "held"
    /\ activeWebRTC(owner[c], c)
    /\ sent' = [sent EXCEPT ![c] = @ \cup {<<owner[c], "candidate">>}]
    /\ UNCHANGED <<conns, current, usingWebRTC, lock, loop, offer, owner, stop,
                   managerVars>>

\* The watchdog: an active manager that is not connected in time is closed.  It
\* can be connected (ManagerState) once it has the answer.
Watchdog(c) ==
    /\ \/ activeWebRTC(owner[c], c) /\ Go(c, "watch", "abort")
       \/ /\ activeWebRTC(owner[c], c) => remoteSet[owner[c]] \in {"accepted", "yes"}
          /\ Go(c, "watch", "done")
    /\ UNCHANGED <<conns, current, usingWebRTC, lock, loop, owner, sent, stop,
                   managerVars>>

-----------------------------------------------------------------------------
(* Stop: cancel, lose the connection, close the manager, wait for all.     *)

StopBegins ==
    /\ stop = "no" /\ stop' = "closing"
    /\ cancelled' = TRUE
    /\ UNCHANGED <<control, dialled, losing, current, usingWebRTC, lock, loop, offers,
                   managerVars>>

StopHasClosed ==
    /\ stop = "closing" /\ control = 0 /\ ~losing
    /\ stop' = "lock"
    /\ UNCHANGED <<conns, current, usingWebRTC, lock, loop, offers, managerVars>>

FaultyStopCloses ==
    /\ stop = "lock" /\ stop' = "wait"
    /\ \/ BeginClose(current, "owner")
       \/ life[current] # "open" /\ UNCHANGED managerVars
    /\ UNCHANGED <<conns, current, usingWebRTC, lock, loop, offers>>
StopCloses ==
    /\ \/ stop = "lock" /\ TakeToClose(Stopper, current) /\ stop' = "shut"
       \/ stop = "shut" /\ CloseReturns(Stopper) /\ stop' = "wait"
    /\ UNCHANGED <<conns, current, usingWebRTC, loop, offers, managerVars>>

StopReturns ==
    /\ stop = "wait" /\ run = "gone" /\ \A c \in Conn : offer[c] \in {"no", "done"}
    /\ stop' = "stopped"
    /\ UNCHANGED <<conns, current, usingWebRTC, lock, loop, offers, managerVars>>

-----------------------------------------------------------------------------
Init ==
    /\ ManagerInit(1)
    /\ control = 0 /\ dialled = 0 /\ losing = FALSE /\ cancelled = FALSE
    /\ current = 1 /\ usingWebRTC = FALSE /\ sig = Free /\ doomed = 0
    /\ run = "down" /\ got = {}
    /\ offer = [c \in Conn |-> "no"] /\ owner = [c \in Conn |-> 0]
    /\ sent = [c \in Conn |-> {}]
    /\ stop = "no"

RunStep ==
    \/ Dial \/ Prepare \/ PrepareNothing \/ Closed
    \/ HandleAck \/ HandleAnswer \/ HandleCandidate \/ HandleEstablished \/ HandleFailed
    \/ ReadEnds

OfferStep(c) ==
    \/ Lock(c) \/ CreateOffer(c) \/ OfferFails(c) \/ Abort(c) \/ SendOffer(c)
    \/ Watchdog(c)

StopStep == StopHasClosed \/ StopCloses \/ StopReturns

\* The only state in which nothing more need happen: a client that got stuck
\* anywhere else would be a deadlock.
Stopped == stop = "stopped" /\ UNCHANGED vars

ManagerActs ==
    /\ \E m \in Manager : GiveUp(m) \/ TearDown(m)
    /\ UNCHANGED signaling

Next ==
    \/ RunStep \/ \E msg \in Message : Receive(msg)
    \/ Lose \/ CleanUp
    \/ \E c \in Conn : OfferStep(c) \/ SendCandidate(c)
    \/ StopBegins \/ StopStep
    \/ OwnerCloses \/ ManagerActs
    \/ Stopped

Spec == Init /\ [][Next]_vars

-----------------------------------------------------------------------------
(* Properties.                                                             *)

\* What is written on a control connection comes from the manager that was
\* current on it: an offer goroutine or an ICE callback of an older generation
\* writes nothing on a newer connection (the double snapshot of signaling.go).
SignalsOfCurrent == \A c \in Conn : \A s \in sent[c] : s[1] = owner[c]

\* A manager that was replaced is closed, or about to be by whoever replaced it.
OneLive == \A m \in Manager : life[m] = "open" => m \in {current, doomed}

\* In every state the mutex and the managers are as their code assumes them.
ManagersInHand == SignalingTypeOK /\ OneLive

\* signalingMu: a manager its client has closed holds no peer connection; only
\* one that closed itself before its offer was made is left with one.
OwnerLeavesNothing ==
    \A m \in Manager : life[m] = "closed" /\ closedBy[m] = "owner" => peer[m] # "held"

\* A candidate of the server is with pion or waits for the answer, also when the
\* answer is refused, and none waits any more once the answer is accepted.
NoCandidateLost ==
    peer[current] = "held" =>
        /\ \A k \in Candidate \cap (got \ {run}) : k \in pendingICE[current] \cup added[current]
        /\ remoteSet[current] = "yes" => pendingICE[current] = {}

=============================================================================

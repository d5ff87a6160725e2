---------------------------- MODULE ManagerState ----------------------------
(***************************************************************************)
(* webrtc/manager.go and types.go of the client: the connection state of   *)
(* a manager and the sending of data over its channel, for one manager mgr *)
(* of PeerManager.                                                         *)
(*                                                                         *)
(* Two goroutines write the state: the state actor, which loads it, looks  *)
(* the transition up and stores the new one, and whoever runs doClose,     *)
(* which stores Closing and Closed itself.  Requests reach the actor       *)
(* through a channel of QueueCap places (16 in the code).                  *)
(*                                                                         *)
(* SendData writes while fewer than High units are buffered (1 MB in the   *)
(* code) and otherwise waits for a place in sendResumeCh, which pion fills *)
(* when the buffer has drained to Low units (512 KB), for its caller's     *)
(* deadline, for five seconds, or for the manager to be closed.            *)
(***************************************************************************)
EXTENDS PeerManager, Sequences, FiniteSets

CONSTANTS
    mgr,          \* the manager
    Sender,       \* goroutines that call SendData
    QueueCap,     \* places of stateCh
    High, Low,    \* water marks of the data channel's buffer
    MaxSwings     \* bound: times ICE reports a disconnection

ASSUME MgrAssumption == Manager = {mgr}
ASSUME SenderAssumption == IsFiniteSet(Sender)
ASSUME QueueCapAssumption == QueueCap \in Nat \ {0}
ASSUME MarksAssumption == High \in Nat /\ Low \in 0 .. High - 1
ASSUME MaxSwingsAssumption == MaxSwings \in Nat

VARIABLES
    state,        \* m.state
    stateCh,      \* transitions requested
    actor,        \* the transition the state actor has decided on
    closeDone,    \* doClose has returned
    channel,      \* the data channel, as pion has it
    swings,       \* ICE disconnections so far
    buffered,     \* units in the channel's buffer
    resume,       \* sendResumeCh holds its one token
    loc           \* where each call of SendData is

machine == <<state, stateCh, actor, closeDone, channel, swings>>
window == <<buffered, resume, loc>>
stateVars == <<machine, window, managerVars>>

\* The transition table.
stateTransitions ==
    [Idle |-> {"GatheringICE", "TCPRelay", "Closing"},
     GatheringICE |-> {"Connecting", "WebRTCFailed", "Closing"},
     Connecting |-> {"WebRTCConnected", "WebRTCFailed", "Closing"},
     WebRTCConnected |-> {"WebRTCReconnecting", "TCPRelay", "Closing"},
     WebRTCFailed |-> {"TCPRelay", "WebRTCReconnecting", "Closing"},
     WebRTCReconnecting |-> {"GatheringICE", "TCPRelay", "Closing"},
     TCPRelay |-> {"GatheringICE", "Closing"},
     Closing |-> {"Closed"},
     Closed |-> {}]

ConnectionState == DOMAIN stateTransitions

isValidTransition(from, to) == to \in stateTransitions[from]

StateTypeOK ==
    /\ ManagerTypeOK
    /\ state \in ConnectionState
    /\ stateCh \in Seq(ConnectionState) /\ Len(stateCh) <= QueueCap
    /\ actor \in ConnectionState \cup {"ready", "done"}
    /\ closeDone \in BOOLEAN /\ resume \in BOOLEAN
    /\ channel \in {"none", "offered", "open", "closed", "reported"}
    /\ swings \in 0 .. MaxSwings
    /\ buffered \in Nat
    /\ loc \in [Sender -> {"out", "test", "drain", "retest", "wait", "write", "sent", "failed"}]

StateInit ==
    /\ ManagerInit(mgr)
    /\ state = "Idle" /\ stateCh = <<>> /\ actor = "ready" /\ closeDone = FALSE
    /\ channel = "none" /\ swings = 0
    /\ buffered = 0 /\ resume = FALSE /\ loc = [s \in Sender |-> "out"]

-----------------------------------------------------------------------------
(* The state machine.                                                      *)

\* requestStateTransition: waits for a place in the channel, unless the manager
\* is cancelled (with a place left, select may choose either).
Requested(to) ==
    \/ Len(stateCh) < QueueCap /\ stateCh' = Append(stateCh, to)
    \/ Cancelled(mgr) /\ UNCHANGED stateCh

\* The state actor loads the state and looks the transition up, then stores it.
FaultyActorLoads ==
    /\ actor = "ready" /\ stateCh # <<>>
    /\ stateCh' = Tail(stateCh)
    /\ actor' = Head(stateCh)
    /\ UNCHANGED <<state, closeDone, channel, swings, window, managerVars>>
ActorLoads ==
    /\ actor = "ready" /\ stateCh # <<>>
    /\ stateCh' = Tail(stateCh)
    /\ actor' = IF isValidTransition(state, Head(stateCh)) THEN Head(stateCh) ELSE actor
    /\ UNCHANGED <<state, closeDone, channel, swings, window, managerVars>>

ActorStores ==
    /\ actor \in ConnectionState
    /\ state' = actor /\ actor' = "ready"
    /\ UNCHANGED <<stateCh, closeDone, channel, swings, window, managerVars>>

\* It ends once the manager is cancelled and select has noticed.
ActorEnds ==
    /\ actor = "ready" /\ Cancelled(mgr)
    /\ actor' = "done"
    /\ UNCHANGED <<state, stateCh, closeDone, channel, swings, window, managerVars>>

\* doClose: Closing and cancel; channel and peer connection; Closed.
CloseBegins ==
    /\ \E who \in {"itself", "owner"} : BeginClose(mgr, who)
    /\ state' = "Closing"
    /\ UNCHANGED <<stateCh, actor, closeDone, channel, swings, window>>

CloseFrees ==
    /\ TearDown(mgr)
    /\ channel' = IF peer[mgr] = "held" THEN "closed" ELSE channel
    /\ UNCHANGED <<state, stateCh, actor, closeDone, swings, window>>

CloseMarks ==
    /\ life[mgr] = "closed" /\ ~closeDone
    /\ closeDone' = TRUE /\ state' = "Closed"
    /\ UNCHANGED <<stateCh, actor, channel, swings, window, managerVars>>

\* The owner's calls: CreateOffer and SetRemoteDescription.
Creates == CreatePeer(mgr) /\ UNCHANGED <<machine, window>>

Offers ==
    /\ channel = "none" /\ OfferMade(mgr)
    /\ channel' = "offered"
    /\ Requested("GatheringICE")
    /\ UNCHANGED <<state, actor, closeDone, swings, window>>

Answers ==
    /\ channel = "offered"
    /\ MarkRemote(mgr) \/ RemoteRefused(mgr) \/ RemoteAccepted(mgr)
    /\ UNCHANGED <<machine, window>>

Answered ==
    /\ FlushPending(mgr)
    /\ Requested("Connecting")
    /\ UNCHANGED <<state, actor, closeDone, channel, swings, window>>

\* What pion reports: the channel is open, ICE has lost the connection, the
\* peer connection is closed.
ChannelOpens ==
    /\ peer[mgr] = "held" /\ channel = "offered" /\ remoteSet[mgr] \in {"accepted", "yes"}
    /\ channel' = "open"
    /\ Requested("WebRTCConnected")
    /\ UNCHANGED <<state, actor, closeDone, swings, window, managerVars>>

IceDisconnected ==
    /\ peer[mgr] = "held" /\ remoteSet[mgr] \in {"accepted", "yes"} /\ swings < MaxSwings
    /\ swings' = swings + 1
    /\ Requested("WebRTCReconnecting")
    /\ UNCHANGED <<state, actor, closeDone, channel, window, managerVars>>

PeerClosed ==
    /\ channel = "closed" /\ channel' = "reported"
    /\ Requested("Closing")
    /\ UNCHANGED <<state, actor, closeDone, swings, window, managerVars>>

StateNext ==
    \/ ActorLoads \/ ActorStores \/ ActorEnds
    \/ CloseBegins \/ CloseFrees \/ CloseMarks
    \/ Creates \/ Offers \/ Answers \/ Answered
    \/ ChannelOpens \/ IceDisconnected \/ PeerClosed

-----------------------------------------------------------------------------
(* SendData.                                                               *)

Full == buffered >= High

Goes(s, from, to) == loc[s] = from /\ loc' = [loc EXCEPT ![s] = to]

\* Without a channel the call fails at once.
SendData(s) ==
    /\ Goes(s, "out", IF peer[mgr] = "held" THEN "test" ELSE "failed")
    /\ UNCHANGED <<buffered, resume>>

\* The buffer is looked at, a token left over is drained, and the buffer is
\* looked at again.
Tests(s) ==
    /\ \/ Goes(s, "test", IF Full THEN "drain" ELSE "write") /\ UNCHANGED resume
       \/ Goes(s, "drain", "retest") /\ resume' = FALSE
       \/ Goes(s, "retest", IF Full THEN "wait" ELSE "write") /\ UNCHANGED resume
    /\ UNCHANGED buffered

\* The select: a token sends the call back to look again.
Woken(s) ==
    /\ resume /\ resume' = FALSE
    /\ Goes(s, "wait", "test")
    /\ UNCHANGED buffered

\* The caller's deadline, the five seconds and the closing of the manager end it.
TimesOut(s) == Goes(s, "wait", "failed") /\ UNCHANGED <<buffered, resume>>

\* dc.Send fails on a channel that is not open.
Writes(s) ==
    /\ Goes(s, "write", IF channel = "open" THEN "sent" ELSE "failed")
    /\ buffered' = IF channel = "open" THEN buffered + 1 ELSE buffered
    /\ UNCHANGED resume

\* pion sends a unit; at the low mark OnBufferedAmountLow leaves a token.
Drains ==
    /\ channel = "open" /\ buffered > 0
    /\ buffered' = buffered - 1
    /\ resume' = (resume \/ buffered - 1 = Low)
    /\ UNCHANGED <<loc, machine, managerVars>>

-----------------------------------------------------------------------------
(* Properties.                                                             *)

\* A state that says the channel is or was up is never shown before pion has
\* opened the channel, in whatever order ICE, the answer and the actor come
\* (types.go, stateTransitions; manager.go, IsConnected).
ConnectedMeansOpened ==
    state \in {"WebRTCConnected", "WebRTCReconnecting"} => channel \notin {"none", "offered"}

\* However many calls pass the test at once, the buffer holds at most one unit
\* for each of them above the high mark (manager.go, SendData).
BufferBounded == buffered < High + Cardinality(Sender)

=============================================================================

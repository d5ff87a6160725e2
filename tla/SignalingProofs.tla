--------------------------- MODULE SignalingProofs ---------------------------
(***************************************************************************)
(* Proofs about Signaling, for any number of control connections and any   *)
(* candidates.                                                             *)
(*                                                                         *)
(* The inductive invariant relates the generations: the connections that   *)
(* were dialled, the managers made for them, the goroutines that offer and *)
(* the messages received on the newest connection.  Its heart is Closing:  *)
(* while the offer of the newest connection has not been started, nobody   *)
(* is closing the manager it will be made with.                            *)
(***************************************************************************)
EXTENDS Signaling, TLAPS

\* The newest connection is up, and prepareWebRTCReconnect is over.
Serving == control # 0 /\ ~cancelled /\ run \notin {"down", "prepare"}

\* Managers are made in order, at most one per connection.
Generations ==
    /\ \A m \in Manager :
          /\ life[m] = "unborn" <=> m > current
          /\ life[m] = "unborn" => /\ closedBy[m] = "nobody" /\ peer[m] = "none"
                                   /\ remoteSet[m] = "no" /\ pendingICE[m] = {}
    /\ IF dialled = 0 THEN current = 1 ELSE current <= dialled
    /\ run = "prepare" => current < dialled

\* Only who took signalingMu to close a manager has one to close.
Doomed ==
    /\ sig = Free => doomed = 0
    /\ \A c \in Conn : offer[c] \in {"peer", "offer"} => doomed = 0

\* What the run loop has received, and where it is.
Loop ==
    /\ dialled = 0 => run \in {"down", "gone"}
    /\ run \in {"down", "gone"} => (control = 0 \/ cancelled) /\ got = {}
    /\ run = "prepare" => got = {}
    /\ run \in Message => run \in got
    /\ run \in {"remote", "flush"} => "answer" \in got
    /\ run = "close" => "failed" \in got
    /\ got \ {"ack"} # {} => \E s \in sent[dialled] : s[2] = "offer"
    /\ stop # "no" => cancelled

\* The goroutine of a connection and the manager it was given.
Offering(c) ==
    /\ c > dialled => offer[c] = "no"
    /\ offer[c] = "no" => sent[c] = {}
    /\ offer[c] # "no" => owner[c] \in Manager /\ owner[c] <= current
    /\ \A s \in sent[c] : s[1] = owner[c]
    /\ offer[c] \in {"offer", "send", "watch"} \/ (\E s \in sent[c] : s[2] = "offer")
          => peer[owner[c]] # "none"
    /\ offer[c] \in {"create", "peer", "offer", "send"}
          => \A s \in sent[c] : s[2] # "offer"
    /\ c = dialled /\ offer[c] # "no" /\ run \notin {"down", "gone"}
          => owner[c] = current /\ "ack" \in got /\ run # "ack"
    /\ offer[c] # "no" /\ owner[c] = current /\ Serving => c = dialled

\* The owner closes no manager whose offer is still to be made.
Closing ==
    /\ dialled = 0 /\ ~cancelled => doomed = 0 /\ closedBy[current] # "owner"
    /\ Serving /\ offer[dialled] \in {"no", "create"}
          => doomed # current /\ closedBy[current] # "owner"
    /\ \A c \in Conn : offer[c] = "peer" => closedBy[owner[c]] # "owner"

\* A remote description is under way only while the run loop handles the answer.
Answering ==
    \A m \in Manager :
        /\ remoteSet[m] = "marked" => m = current /\ run = "remote"
        /\ remoteSet[m] = "accepted" => m = current /\ run = "flush"
        /\ remoteSet[m] = "yes" => pendingICE[m] = {}

Inv ==
    /\ ManagersInHand
    /\ Generations /\ Doomed /\ Loop /\ Closing /\ Answering
    /\ \A c \in Conn : Offering(c)
    /\ OwnerLeavesNothing
    /\ NoCandidateLost

-----------------------------------------------------------------------------
(* What every step may use.                                                *)

LEMMA Facts ==
    ASSUME Inv
    PROVE  SignalingTypeOK /\ OneLive /\ MaxConn \in Nat /\ Manager = 1 .. MaxConn
BY MaxConnAssumption, ManagerAssumption DEF Inv, ManagersInHand, Conn

\* Setting the remote description of one manager leaves the others alone.
LEMMA RemoteEffect ==
    ASSUME ManagerTypeOK, NEW m \in Manager,
           MarkRemote(m) \/ RemoteRefused(m) \/ RemoteAccepted(m) \/ FlushPending(m)
              \/ UNCHANGED managerVars
    PROVE  /\ ManagerTypeOK' /\ UNCHANGED <<closing, peer>>
           /\ \A n \in Manager \ {m} :
                 remoteSet'[n] = remoteSet[n] /\ pendingICE'[n] = pendingICE[n]
<1>1. CASE MarkRemote(m) \/ RemoteRefused(m) \/ RemoteAccepted(m)
  BY <1>1 DEF MarkRemote, RemoteRefused, RemoteAccepted, ManagerTypeOK, closing
<1>2. CASE FlushPending(m)
  BY <1>2 DEF FlushPending, ManagerTypeOK, closing
<1>3. CASE UNCHANGED managerVars
  BY <1>3 DEF managerVars, ManagerTypeOK, closing, ice
<1> QED BY <1>1, <1>2, <1>3

\* So does adding a candidate.
LEMMA CandidateEffect ==
    ASSUME ManagerTypeOK, NEW m \in Manager, NEW k \in Candidate, AddICECandidate(m, k)
    PROVE  /\ ManagerTypeOK' /\ UNCHANGED <<closing, peer, remoteSet>>
           /\ \A n \in Manager \ {m} : pendingICE'[n] = pendingICE[n]
BY DEF AddICECandidate, ManagerTypeOK, closing

-----------------------------------------------------------------------------
(* The run loop keeps the invariant.                                       *)

LEMMA DialKeeps ==
    ASSUME Inv, Dial
    PROVE  Inv'
<1> USE DEF Dial, conns, lock, loop, offers, signaling, managerVars, closing, ice
<1>0. SignalingTypeOK /\ OneLive /\ MaxConn \in Nat /\ Manager = 1 .. MaxConn
  BY Facts
<1>1. SignalingTypeOK'
  <2>1. ManagerTypeOK'
    BY <1>0 DEF SignalingTypeOK, ManagerTypeOK
  <2> QED BY <1>0, <2>1 DEF Inv, SignalingTypeOK, Conn, Critical, Free, Runner, Stopper,
                            Message, Phase, Generations, Doomed, Loop
<1>2. (OneLive /\ Doomed /\ Answering /\ OwnerLeavesNothing)'
  BY <1>0 DEF Inv, OneLive, Doomed, Answering, OwnerLeavesNothing
<1>3. Generations'
  BY <1>0 DEF Inv, Generations, SignalingTypeOK, ManagerTypeOK, Offering, Loop
<1>4. Loop'
  <2>1. got' = {} /\ run' \in {"read", "prepare"} /\ dialled' # 0 /\ ~cancelled
        /\ stop' = stop
    BY <1>0 DEF Inv, Loop, SignalingTypeOK
  <2>2. run' \notin Message
    BY <2>1, CandidateAssumption DEF Message, Phase
  <2> QED BY <2>1, <2>2 DEF Inv, Loop
<1>5. Closing'
  BY <1>0 DEF Inv, Closing, Serving, SignalingTypeOK, ManagerTypeOK, Generations, Loop,
              Offering, Doomed, Critical, Conn, Message
<1>6. ASSUME NEW c \in Conn PROVE Offering(c)'
  BY <1>0 DEF Inv, Offering, Serving, SignalingTypeOK, ManagerTypeOK, Generations, Loop,
              Message, Phase, Conn
<1>7. NoCandidateLost'
  BY <1>0 DEF Inv, NoCandidateLost, Answering, SignalingTypeOK, ManagerTypeOK,
              Generations, Loop, Offering, Message, Phase
<1> QED BY <1>0, <1>1, <1>2, <1>3, <1>4, <1>5, <1>6, <1>7 DEF Inv, ManagersInHand

LEMMA PrepareKeeps ==
    ASSUME Inv, Prepare
    PROVE  Inv'
<1> USE DEF Prepare, NewManager, TakeToClose, conns, lock, loop, offers, signaling,
            managerVars, closing, ice
<1>0. SignalingTypeOK /\ OneLive /\ MaxConn \in Nat /\ Manager = 1 .. MaxConn
  BY Facts
<1>1. SignalingTypeOK'
  <2>1. ManagerTypeOK'
    BY <1>0 DEF SignalingTypeOK, ManagerTypeOK
  <2> QED BY <1>0, <2>1 DEF Inv, SignalingTypeOK, Conn, Critical, Free, Runner, Stopper,
                            Message, Phase, Generations, Doomed, Loop
<1>2. (Answering /\ OwnerLeavesNothing)'
  BY <1>0 DEF Inv, Answering, OwnerLeavesNothing
<1>3. OneLive'
  BY <1>0 DEF Inv, OneLive, SignalingTypeOK, ManagerTypeOK, Doomed
<1>4. Generations'
  BY <1>0 DEF Inv, Generations, SignalingTypeOK, ManagerTypeOK, Offering, Loop
<1>5. Doomed'
  BY <1>0 DEF Inv, Doomed, SignalingTypeOK, Critical, Conn, Free
<1>6. Loop'
  BY <1>0, CandidateAssumption DEF Inv, Loop, SignalingTypeOK, Phase, Message, Offering
<1>7. Closing'
  BY <1>0 DEF Inv, Closing, Serving, SignalingTypeOK, ManagerTypeOK, Generations, Loop,
              Offering, Doomed, Critical, Conn, Message
<1>8. ASSUME NEW c \in Conn PROVE Offering(c)'
  BY <1>0 DEF Inv, Offering, Serving, SignalingTypeOK, ManagerTypeOK, Generations, Loop,
              Message, Phase
<1>9. NoCandidateLost'
  BY <1>0 DEF Inv, NoCandidateLost, Answering, SignalingTypeOK, ManagerTypeOK,
              Generations, Loop, Offering, Message, Phase
<1> QED BY <1>0, <1>1, <1>2, <1>3, <1>4, <1>5, <1>6, <1>7, <1>8, <1>9
           DEF Inv, ManagersInHand

LEMMA PrepareNothingKeeps ==
    ASSUME Inv, PrepareNothing
    PROVE  Inv'
<1> USE DEF PrepareNothing, conns, lock, loop, offers, signaling, managerVars, closing,
            ice
<1>0. SignalingTypeOK /\ OneLive /\ MaxConn \in Nat /\ Manager = 1 .. MaxConn
  BY Facts
<1>1. SignalingTypeOK'
  <2>1. ManagerTypeOK'
    BY <1>0 DEF SignalingTypeOK, ManagerTypeOK
  <2> QED BY <1>0, <2>1 DEF Inv, SignalingTypeOK, Conn, Critical, Free, Runner, Stopper,
                            Message, Phase, Generations, Doomed, Loop
<1>2. (/\ OneLive /\ Generations /\ Doomed /\ Closing /\ Answering
       /\ OwnerLeavesNothing /\ \A c \in Conn : Offering(c))'
  BY <1>0 DEF Inv, OneLive, Generations, Doomed, Closing, Answering, Offering,
              OwnerLeavesNothing, Serving
<1>3. Loop'
  BY <1>0, CandidateAssumption DEF Inv, Loop, SignalingTypeOK, Phase, Message, Offering
<1>4. NoCandidateLost'
  BY <1>0 DEF Inv, NoCandidateLost, Answering, SignalingTypeOK, ManagerTypeOK,
              Generations, Loop, Offering, Message, Phase
<1> QED BY <1>0, <1>1, <1>2, <1>3, <1>4 DEF Inv, ManagersInHand

LEMMA ClosedKeeps ==
    ASSUME Inv, Closed
    PROVE  Inv'
<1> USE DEF Closed, CloseReturns, conns, lock, loop, offers, signaling, managerVars,
            closing, ice
<1>0. SignalingTypeOK /\ OneLive /\ MaxConn \in Nat /\ Manager = 1 .. MaxConn
  BY Facts
<1>1. SignalingTypeOK'
  <2>1. ManagerTypeOK'
    BY <1>0 DEF SignalingTypeOK, ManagerTypeOK
  <2> QED BY <1>0, <2>1 DEF Inv, SignalingTypeOK, Conn, Critical, Free, Runner, Stopper,
                            Message, Phase, Generations, Doomed, Loop
<1>2. (/\ OneLive /\ Generations /\ Doomed /\ Answering /\ OwnerLeavesNothing
       /\ \A c \in Conn : Offering(c))'
  BY <1>0 DEF Inv, OneLive, Generations, Doomed, Answering, Offering,
              OwnerLeavesNothing, Serving
<1>3. Loop'
  BY <1>0, CandidateAssumption DEF Inv, Loop, SignalingTypeOK, Phase, Message, Offering
<1>4. Closing'
  BY <1>0 DEF Inv, Closing, Serving, SignalingTypeOK, ManagerTypeOK, Generations, Loop,
              Offering, Doomed, Critical, Conn, Message
<1>5. NoCandidateLost'
  BY <1>0, CandidateAssumption DEF Inv, NoCandidateLost, Answering, SignalingTypeOK,
                                   ManagerTypeOK, Generations, Loop, Offering, Message,
                                   Phase
<1> QED BY <1>0, <1>1, <1>2, <1>3, <1>4, <1>5 DEF Inv, ManagersInHand

LEMMA HandleAckKeeps ==
    ASSUME Inv, HandleAck
    PROVE  Inv'
<1> USE DEF HandleAck, conns, lock, loop, offers, signaling, managerVars, closing, ice
<1>0. SignalingTypeOK /\ OneLive /\ MaxConn \in Nat /\ Manager = 1 .. MaxConn
  BY Facts
<1>1. SignalingTypeOK'
  <2>1. ManagerTypeOK'
    BY <1>0 DEF SignalingTypeOK, ManagerTypeOK
  <2> QED BY <1>0, <2>1 DEF Inv, SignalingTypeOK, Conn, Critical, Free, Runner, Stopper,
                            Message, Phase, Generations, Doomed, Loop, Offering
<1>2. (OneLive /\ Generations /\ Answering /\ OwnerLeavesNothing)'
  BY <1>0 DEF Inv, OneLive, Generations, Answering, OwnerLeavesNothing
<1>3. Doomed'
  BY <1>0 DEF Inv, Doomed, SignalingTypeOK, Critical, Conn, Free
<1>4. Loop'
  BY <1>0, CandidateAssumption DEF Inv, Loop, SignalingTypeOK, Phase, Message, Offering
<1>5. Closing'
  BY <1>0 DEF Inv, Closing, Serving, SignalingTypeOK, ManagerTypeOK, Generations, Loop,
              Offering, Doomed, Critical, Conn, Message
<1>6. ASSUME NEW c \in Conn PROVE Offering(c)'
  BY <1>0 DEF Inv, Offering, Serving, SignalingTypeOK, ManagerTypeOK, Generations, Loop,
              Message, Phase
<1>7. NoCandidateLost'
  BY <1>0, CandidateAssumption DEF Inv, NoCandidateLost, Answering, SignalingTypeOK,
                                   ManagerTypeOK, Generations, Loop, Offering, Message,
                                   Phase
<1> QED BY <1>0, <1>1, <1>2, <1>3, <1>4, <1>5, <1>6, <1>7 DEF Inv, ManagersInHand

LEMMA HandleAnswerKeeps ==
    ASSUME Inv, HandleAnswer
    PROVE  Inv'
<1> USE DEF HandleAnswer, MarkRemote, RemoteRefused, RemoteAccepted, FlushPending,
            conns, lock, loop, offers, signaling, managerVars, closing, ice
<1>0. SignalingTypeOK /\ OneLive /\ MaxConn \in Nat /\ Manager = 1 .. MaxConn
  BY Facts
<1>1. SignalingTypeOK'
  <2>1. ManagerTypeOK'
    BY <1>0, RemoteEffect DEF SignalingTypeOK
  <2>2. run' \in Phase /\ run # "swap" /\ run' # "swap"
    BY DEF Phase
  <2> QED BY <1>0, <2>1, <2>2 DEF SignalingTypeOK, Critical
<1>2. (/\ OneLive /\ Doomed /\ Closing /\ OwnerLeavesNothing
       /\ \A c \in Conn : Offering(c))'
  BY <1>0 DEF Inv, OneLive, Doomed, Closing, Offering, OwnerLeavesNothing, Serving
<1>3. Generations'
  <2>1. run' # "prepare" /\ UNCHANGED <<life, closedBy, peer>>
    OBVIOUS
  <2>2. \A m \in Manager \ {current} :
           remoteSet'[m] = remoteSet[m] /\ pendingICE'[m] = pendingICE[m]
    BY <1>0, RemoteEffect DEF SignalingTypeOK
  <2>3. ~(current > current)
    BY <1>0 DEF SignalingTypeOK
  <2> QED BY <1>0, <2>1, <2>2, <2>3 DEF Inv, Generations
<1>4. Loop'
  BY <1>0, CandidateAssumption DEF Inv, Loop, SignalingTypeOK, Phase, Message, Offering
<1>5. Answering'
  BY <1>0, CandidateAssumption DEF Inv, Answering, SignalingTypeOK, ManagerTypeOK,
                                   Generations, Message, Phase
<1>6. NoCandidateLost'
  BY <1>0, CandidateAssumption DEF Inv, NoCandidateLost, Answering, SignalingTypeOK,
                                   ManagerTypeOK, Generations, Loop, Offering, Message,
                                   Phase
<1> QED BY <1>0, <1>1, <1>2, <1>3, <1>4, <1>5, <1>6 DEF Inv, ManagersInHand

LEMMA HandleCandidateKeeps ==
    ASSUME Inv, HandleCandidate
    PROVE  Inv'
<1> USE DEF HandleCandidate, AddICECandidate, conns, lock, loop, offers, signaling,
            managerVars, closing, ice
<1>0. SignalingTypeOK /\ OneLive /\ MaxConn \in Nat /\ Manager = 1 .. MaxConn
  BY Facts
<1>1. SignalingTypeOK'
  <2>1. ManagerTypeOK'
    BY <1>0, CandidateEffect DEF SignalingTypeOK
  <2>2. run # "swap" /\ run' \in Phase /\ run' # "swap"
    BY CandidateAssumption DEF Phase
  <2> QED BY <1>0, <2>1, <2>2 DEF SignalingTypeOK, Critical
<1>2. (OneLive /\ Doomed /\ OwnerLeavesNothing)'
  BY <1>0 DEF Inv, OneLive, Doomed, OwnerLeavesNothing
<1>3. Generations'
  <2>1. run' # "prepare" /\ UNCHANGED <<life, closedBy, peer, remoteSet>>
    OBVIOUS
  <2>2. \A m \in Manager \ {current} : pendingICE'[m] = pendingICE[m]
    BY <1>0, CandidateEffect DEF SignalingTypeOK
  <2>3. ~(current > current)
    BY <1>0 DEF SignalingTypeOK
  <2> QED BY <1>0, <2>1, <2>2, <2>3 DEF Inv, Generations
<1>4. Loop'
  BY <1>0, CandidateAssumption DEF Inv, Loop, SignalingTypeOK, Phase, Message, Offering
<1>5. Closing'
  BY <1>0 DEF Inv, Closing, Serving, SignalingTypeOK, ManagerTypeOK, Generations, Loop,
              Offering, Doomed, Critical, Conn, Message
<1>6. Answering'
  <2>1. UNCHANGED <<remoteSet, current>> /\ run # "remote" /\ run # "flush"
    BY CandidateAssumption DEF Phase
  <2>2. \A m \in Manager : remoteSet[m] = "yes" => pendingICE'[m] = pendingICE[m]
    BY <1>0, CandidateEffect DEF SignalingTypeOK, ManagerTypeOK
  <2> QED BY <2>1, <2>2 DEF Inv, Answering
<1>7. ASSUME NEW c \in Conn PROVE Offering(c)'
  BY <1>0 DEF Inv, Offering, Serving, SignalingTypeOK, ManagerTypeOK, Generations, Loop,
              Message, Phase
<1>8. NoCandidateLost'
  BY <1>0, CandidateAssumption DEF Inv, NoCandidateLost, Answering, SignalingTypeOK,
                                   ManagerTypeOK, Generations, Loop, Offering, Message,
                                   Phase
<1> QED BY <1>0, <1>1, <1>2, <1>3, <1>4, <1>5, <1>6, <1>7, <1>8 DEF Inv, ManagersInHand

LEMMA HandleEstablishedKeeps ==
    ASSUME Inv, HandleEstablished
    PROVE  Inv'
<1> USE DEF HandleEstablished, conns, lock, loop, offers, signaling, managerVars,
            closing, ice
<1>0. SignalingTypeOK /\ OneLive /\ MaxConn \in Nat /\ Manager = 1 .. MaxConn
  BY Facts
<1>1. SignalingTypeOK'
  <2>1. ManagerTypeOK'
    BY <1>0 DEF SignalingTypeOK, ManagerTypeOK
  <2> QED BY <1>0, <2>1 DEF Inv, SignalingTypeOK, Conn, Critical, Free, Runner, Stopper,
                            Message, Phase, Generations, Doomed, Loop
<1>2. (/\ OneLive /\ Generations /\ Doomed /\ Closing /\ Answering
       /\ OwnerLeavesNothing /\ \A c \in Conn : Offering(c))'
  BY <1>0 DEF Inv, OneLive, Generations, Doomed, Closing, Answering, Offering,
              OwnerLeavesNothing, Serving
<1>3. Loop'
  BY <1>0, CandidateAssumption DEF Inv, Loop, SignalingTypeOK, Phase, Message, Offering
<1>4. NoCandidateLost'
  BY <1>0, CandidateAssumption DEF Inv, NoCandidateLost, Answering, SignalingTypeOK,
                                   ManagerTypeOK, Generations, Loop, Offering, Message,
                                   Phase
<1> QED BY <1>0, <1>1, <1>2, <1>3, <1>4 DEF Inv, ManagersInHand

LEMMA HandleFailedKeeps ==
    ASSUME Inv, HandleFailed
    PROVE  Inv'
<1> USE DEF HandleFailed, TakeToClose, conns, lock, loop, offers, signaling,
            managerVars, closing, ice
<1>0. SignalingTypeOK /\ OneLive /\ MaxConn \in Nat /\ Manager = 1 .. MaxConn
  BY Facts
<1>1. SignalingTypeOK'
  <2>1. ManagerTypeOK'
    BY <1>0 DEF SignalingTypeOK, ManagerTypeOK
  <2>2. CASE run = "failed"
    BY <1>0, <2>1, <2>2 DEF SignalingTypeOK, Critical, Phase
  <2>3. CASE run = "close"
    BY <1>0, <2>1, <2>3 DEF SignalingTypeOK, Critical, Phase, Conn, Free, Runner,
                            Stopper
  <2> QED BY <2>2, <2>3
<1>2. (Generations /\ Answering /\ OwnerLeavesNothing /\ \A c \in Conn : Offering(c))'
  BY <1>0 DEF Inv, Generations, Answering, Offering, OwnerLeavesNothing, Serving
<1>3. OneLive'
  BY <1>0 DEF Inv, OneLive, SignalingTypeOK, ManagerTypeOK, Doomed
<1>4. Doomed'
  BY <1>0 DEF Inv, Doomed, SignalingTypeOK, Critical, Conn, Free
<1>5. Loop'
  BY <1>0, CandidateAssumption DEF Inv, Loop, SignalingTypeOK, Phase, Message, Offering
<1>6. Closing'
  BY <1>0 DEF Inv, Closing, Serving, SignalingTypeOK, ManagerTypeOK, Generations, Loop,
              Offering, Doomed, Critical, Conn, Message
<1>7. NoCandidateLost'
  BY <1>0, CandidateAssumption DEF Inv, NoCandidateLost, Answering, SignalingTypeOK,
                                   ManagerTypeOK, Generations, Loop, Offering, Message,
                                   Phase
<1> QED BY <1>0, <1>1, <1>2, <1>3, <1>4, <1>5, <1>6, <1>7 DEF Inv, ManagersInHand

LEMMA ReadEndsKeeps ==
    ASSUME Inv, ReadEnds
    PROVE  Inv'
<1> USE DEF ReadEnds, conns, lock, loop, offers, signaling, managerVars, closing, ice
<1>0. SignalingTypeOK /\ OneLive /\ MaxConn \in Nat /\ Manager = 1 .. MaxConn
  BY Facts
<1>1. SignalingTypeOK'
  <2>1. ManagerTypeOK'
    BY <1>0 DEF SignalingTypeOK, ManagerTypeOK
  <2> QED BY <1>0, <2>1 DEF Inv, SignalingTypeOK, Conn, Critical, Free, Runner, Stopper,
                            Message, Phase, Generations, Doomed, Loop
<1>2. (OneLive /\ Generations /\ Doomed /\ Answering /\ OwnerLeavesNothing)'
  BY <1>0 DEF Inv, OneLive, Generations, Doomed, Answering, OwnerLeavesNothing
<1>3. Loop'
  BY <1>0, CandidateAssumption DEF Inv, Loop, SignalingTypeOK, Phase, Message, Offering
<1>4. Closing'
  BY <1>0 DEF Inv, Closing, Serving, SignalingTypeOK, ManagerTypeOK, Generations, Loop,
              Offering, Doomed, Critical, Conn, Message
<1>5. ASSUME NEW c \in Conn PROVE Offering(c)'
  BY <1>0 DEF Inv, Offering, Serving, SignalingTypeOK, ManagerTypeOK, Generations, Loop,
              Message, Phase
<1>6. NoCandidateLost'
  BY <1>0 DEF Inv, NoCandidateLost, Answering, SignalingTypeOK, ManagerTypeOK,
              Generations, Loop, Offering, Message, Phase
<1> QED BY <1>0, <1>1, <1>2, <1>3, <1>4, <1>5, <1>6 DEF Inv, ManagersInHand

LEMMA ReceiveKeeps ==
    ASSUME Inv, NEW msg \in Message, Receive(msg)
    PROVE  Inv'
<1> USE DEF Receive, Due, conns, lock, loop, offers, signaling, managerVars, closing,
            ice
<1>0. SignalingTypeOK /\ OneLive /\ MaxConn \in Nat /\ Manager = 1 .. MaxConn
  BY Facts
<1>1. SignalingTypeOK'
  <2>1. ManagerTypeOK'
    BY <1>0 DEF SignalingTypeOK, ManagerTypeOK
  <2> QED BY <1>0, <2>1, CandidateAssumption DEF Inv, SignalingTypeOK, Conn, Critical,
                                                 Free, Runner, Stopper, Message, Phase,
                                                 Generations, Doomed, Loop
<1>2. (/\ OneLive /\ Doomed /\ Closing /\ Answering /\ OwnerLeavesNothing
       /\ \A c \in Conn : Offering(c))'
  BY <1>0 DEF Inv, OneLive, Doomed, Closing, Answering, Offering, OwnerLeavesNothing,
              Serving
<1>3. Generations'
  <2>1. run' # "prepare"
    BY CandidateAssumption DEF Message, Phase
  <2> QED BY <1>0, <2>1 DEF Inv, Generations
<1>4. Loop'
  <2>1. run' = msg /\ msg \notin Phase /\ got' = got \cup {msg} /\ dialled # 0
        /\ dialled' = dialled
    BY CandidateAssumption DEF Inv, Loop, Message, Phase
  <2>2. run' \notin {"down", "gone", "prepare", "remote", "flush", "close"}
    BY <2>1 DEF Phase
  <2>3. ASSUME got' \ {"ack"} # {}
        PROVE  \E s \in sent[dialled] : s[2] = "offer"
    <3>1. CASE msg # "ack"
      <4>1. PICK m \in Manager : <<m, "offer">> \in sent[dialled]
        BY <3>1
      <4> QED BY <4>1
    <3>2. CASE msg = "ack"
      BY <2>1, <2>3, <3>2 DEF Inv, Loop
    <3> QED BY <3>1, <3>2
  <2>4. sent' = sent /\ (stop' # "no" => cancelled')
    BY DEF Inv, Loop
  <2> HIDE DEF Receive
  <2> QED BY <2>1, <2>2, <2>3, <2>4 DEF Loop
<1>5. NoCandidateLost'
  BY <1>0, CandidateAssumption DEF Inv, NoCandidateLost, Answering, SignalingTypeOK,
                                   ManagerTypeOK, Generations, Loop, Offering, Message,
                                   Phase
<1> QED BY <1>0, <1>1, <1>2, <1>3, <1>4, <1>5 DEF Inv, ManagersInHand

-----------------------------------------------------------------------------
(* Losing the connection keeps it: the manager stays current.              *)

LEMMA LoseKeeps ==
    ASSUME Inv, Lose
    PROVE  Inv'
<1> USE DEF Lose, conns, lock, loop, offers, signaling, managerVars, closing, ice
<1>0. SignalingTypeOK /\ OneLive /\ MaxConn \in Nat /\ Manager = 1 .. MaxConn
  BY Facts
<1>1. SignalingTypeOK'
  <2>1. ManagerTypeOK'
    BY <1>0 DEF SignalingTypeOK, ManagerTypeOK
  <2> QED BY <1>0, <2>1 DEF Inv, SignalingTypeOK, Conn, Critical, Free, Runner, Stopper,
                            Message, Phase, Generations, Doomed, Loop
<1>2. (/\ OneLive /\ Generations /\ Doomed /\ Loop /\ Closing /\ Answering
       /\ OwnerLeavesNothing /\ NoCandidateLost /\ \A c \in Conn : Offering(c))'
  BY <1>0 DEF Inv, OneLive, Generations, Doomed, Loop, Closing, Answering, Offering,
              OwnerLeavesNothing, NoCandidateLost, Serving
<1> QED BY <1>0, <1>1, <1>2 DEF Inv, ManagersInHand

LEMMA CleanUpKeeps ==
    ASSUME Inv, CleanUp
    PROVE  Inv'
<1> USE DEF CleanUp, conns, lock, loop, offers, signaling, managerVars, closing, ice
<1>0. SignalingTypeOK /\ OneLive /\ MaxConn \in Nat /\ Manager = 1 .. MaxConn
  BY Facts
<1>1. SignalingTypeOK'
  <2>1. ManagerTypeOK'
    BY <1>0 DEF SignalingTypeOK, ManagerTypeOK
  <2> QED BY <1>0, <2>1 DEF Inv, SignalingTypeOK, Conn, Critical, Free, Runner, Stopper,
                            Message, Phase, Generations, Doomed, Loop
<1>2. (/\ OneLive /\ Generations /\ Doomed /\ Loop /\ Closing /\ Answering
       /\ OwnerLeavesNothing /\ NoCandidateLost /\ \A c \in Conn : Offering(c))'
  BY <1>0 DEF Inv, OneLive, Generations, Doomed, Loop, Closing, Answering, Offering,
              OwnerLeavesNothing, NoCandidateLost, Serving
<1> QED BY <1>0, <1>1, <1>2 DEF Inv, ManagersInHand

-----------------------------------------------------------------------------
(* The offer goroutines keep it.                                           *)

LEMMA LockKeeps ==
    ASSUME Inv, NEW c \in Conn, Lock(c)
    PROVE  Inv'
<1> USE DEF Lock, Go, activeWebRTC, conns, lock, loop, offers, signaling, managerVars,
            closing, ice
<1>0. SignalingTypeOK /\ OneLive /\ MaxConn \in Nat /\ Manager = 1 .. MaxConn
  BY Facts
<1>1. SignalingTypeOK'
  <2>1. ManagerTypeOK'
    BY <1>0 DEF SignalingTypeOK, ManagerTypeOK
  <2> QED BY <1>0, <2>1 DEF Inv, SignalingTypeOK, Conn, Critical, Free, Runner, Stopper,
                            Message, Phase, Generations, Doomed, Loop, Offering
<1>2. (/\ OneLive /\ Generations /\ Doomed /\ Loop /\ Answering /\ OwnerLeavesNothing
       /\ NoCandidateLost)'
  BY <1>0 DEF Inv, OneLive, Generations, Doomed, Loop, Answering, OwnerLeavesNothing,
              NoCandidateLost
<1>3. Closing'
  BY <1>0 DEF Inv, Closing, Serving, SignalingTypeOK, ManagerTypeOK, Generations, Loop,
              Offering, Doomed, Critical, Conn, Message
<1>4. ASSUME NEW e \in Conn PROVE Offering(e)'
  BY <1>0 DEF Inv, Offering, Serving, SignalingTypeOK, ManagerTypeOK, Generations, Loop,
              Message, Phase
<1> QED BY <1>0, <1>1, <1>2, <1>3, <1>4 DEF Inv, ManagersInHand

LEMMA CreateOfferKeeps ==
    ASSUME Inv, NEW c \in Conn, CreateOffer(c)
    PROVE  Inv'
<1> USE DEF CreateOffer, Go, CreatePeer, OfferMade, conns, lock, loop, offers,
            signaling, managerVars, closing, ice
<1>0. SignalingTypeOK /\ OneLive /\ MaxConn \in Nat /\ Manager = 1 .. MaxConn
  BY Facts
<1>1. SignalingTypeOK'
  <2>1. ManagerTypeOK'
    <3>1. CASE CreatePeer(owner[c])
      BY <1>0, <3>1 DEF SignalingTypeOK, ManagerTypeOK
    <3>2. CASE OfferMade(owner[c])
      BY <1>0, <3>2 DEF SignalingTypeOK, ManagerTypeOK
    <3> QED BY <3>1, <3>2
  <2>2. /\ offer' \in [Conn -> {"no", "create", "peer", "offer", "send", "watch", "abort",
                           "aborting", "done"}]
        /\ \A e \in Conn : e # c => offer'[e] = offer[e]
    BY <1>0 DEF SignalingTypeOK
  <2>3. CASE offer[c] = "peer" /\ offer'[c] = "offer" /\ UNCHANGED sig
    BY <1>0, <2>1, <2>2, <2>3 DEF SignalingTypeOK, Critical
  <2>4. CASE offer[c] = "offer" /\ offer'[c] = "send" /\ sig' = Free
    <3>1. sig = c /\ sig' = 0 /\ c \in Nat /\ c # MaxConn + 1 /\ c # MaxConn + 2 /\ c # 0
      BY <1>0, <2>4 DEF SignalingTypeOK, Critical, Conn, Free
    <3>2. /\ run # "swap" /\ stop # "shut"
          /\ \A e \in Conn : e # c => ~Critical(e) /\ ~Critical(e)' /\ e # 0
      BY <1>0, <2>2, <3>1 DEF SignalingTypeOK, Critical, Runner, Stopper, Conn
    <3>3. ~Critical(c)'
      BY <2>4, <1>0 DEF Critical, SignalingTypeOK
    <3> HIDE DEF CreateOffer, OfferFails, Go, OfferMade, CreatePeer
    <3>4. UNCHANGED <<control, dialled, losing, cancelled, usingWebRTC, current, doomed, run,
                      got, owner, sent, stop>>
      BY DEF CreateOffer, OfferFails, conns, loop
    <3> QED BY <1>0, <2>1, <2>2, <3>1, <3>2, <3>3, <3>4
               DEF SignalingTypeOK, Free, Runner, Stopper
  <2> QED BY <1>0, <2>3, <2>4 DEF SignalingTypeOK
<1>2. (OneLive /\ Doomed /\ Loop /\ Answering)'
  BY <1>0 DEF Inv, OneLive, Doomed, Loop, Answering
<1>3. Generations'
  <2>1. CASE offer[c] = "peer"
    <3>1. owner[c] \in Manager /\ owner[c] <= current
      BY <2>1 DEF Inv, Offering
    <3>2. \A m \in Manager \ {owner[c]} : peer'[m] = peer[m]
      BY <1>0, <2>1 DEF SignalingTypeOK, ManagerTypeOK
    <3>3. UNCHANGED <<life, closedBy, remoteSet, pendingICE>> /\ ~(owner[c] > current)
      BY <1>0, <2>1, <3>1 DEF SignalingTypeOK
    <3> QED BY <1>0, <3>1, <3>2, <3>3 DEF Inv, Generations
  <2>2. CASE offer[c] # "peer"
    BY <2>2 DEF Inv, Generations
  <2> QED BY <2>1, <2>2
<1>4. Closing'
  BY SMTT(30), <1>0, CandidateAssumption DEF Inv, Closing, Serving, SignalingTypeOK,
                                             ManagerTypeOK, Generations, Loop, Offering,
                                             Doomed, Critical, Conn, Message, Phase
<1>5. ASSUME NEW e \in Conn PROVE Offering(e)'
  BY SMTT(30), <1>0 DEF Inv, Offering, Serving, SignalingTypeOK, ManagerTypeOK,
                        Generations, Loop, Message, Phase
<1>6. OwnerLeavesNothing'
  <2>1. ASSUME NEW m \in Manager, life'[m] = "closed", closedBy'[m] = "owner"
        PROVE  peer'[m] # "held"
    <3>1. UNCHANGED closing /\ (peer'[m] = peer[m] \/ (m = owner[c] /\ offer[c] = "peer"))
      BY <1>0 DEF SignalingTypeOK, ManagerTypeOK
    <3> QED BY <2>1, <3>1 DEF Inv, OwnerLeavesNothing, Closing
  <2> QED BY <2>1 DEF OwnerLeavesNothing
<1>7. NoCandidateLost'
  <2>1. CASE peer[current] = "held"
    BY <1>0, <2>1 DEF Inv, NoCandidateLost
  <2>2. CASE peer[current] # "held" /\ peer'[current] = "held"
    <3>1. CreatePeer(owner[c]) /\ owner[c] = current /\ peer[current] = "none"
          /\ offer[c] = "peer"
      BY <1>0, <2>2 DEF SignalingTypeOK, ManagerTypeOK
    <3>2. ASSUME got \ {"ack"} # {} PROVE FALSE
      <4>1. run \notin {"down", "gone"} /\ dialled \in Conn
        BY <1>0, <3>2 DEF Inv, Loop, SignalingTypeOK, Conn
      <4>2. PICK s \in sent[dialled] : s[2] = "offer"
        BY <3>2 DEF Inv, Loop
      <4>3. peer[owner[dialled]] # "none" /\ owner[dialled] = current
        BY <4>1, <4>2 DEF Inv, Offering
      <4> QED BY <3>1, <4>3
    <3>3. Candidate \cap (got \ {run}) = {}
      BY <3>2, CandidateAssumption
    <3>4. remoteSet[current] = "yes" => pendingICE[current] = {}
      BY <1>0 DEF Inv, Answering, SignalingTypeOK
    <3>5. UNCHANGED <<ice, current, got, run>>
      BY <3>1
    <3> QED BY <3>3, <3>4, <3>5 DEF NoCandidateLost, ice
  <2> QED BY <2>1, <2>2 DEF NoCandidateLost
<1> QED BY <1>0, <1>1, <1>2, <1>3, <1>4, <1>5, <1>6, <1>7 DEF Inv, ManagersInHand

LEMMA OfferFailsKeeps ==
    ASSUME Inv, NEW c \in Conn, OfferFails(c)
    PROVE  Inv'
<1> USE DEF OfferFails, Go, conns, lock, loop, offers, signaling, managerVars, closing,
            ice
<1>0. SignalingTypeOK /\ OneLive /\ MaxConn \in Nat /\ Manager = 1 .. MaxConn
  BY Facts
<1>1. SignalingTypeOK'
  <2>1. ManagerTypeOK'
    BY <1>0 DEF SignalingTypeOK, ManagerTypeOK
  <2>2. /\ offer' \in [Conn -> {"no", "create", "peer", "offer", "send", "watch", "abort",
                           "aborting", "done"}]
        /\ \A e \in Conn : e # c => offer'[e] = offer[e]
    BY <1>0 DEF SignalingTypeOK
  <2>3. offer'[c] = "abort" /\ sig = c
    BY <1>0 DEF SignalingTypeOK, Critical
  <2>4. offer'[c] = "abort" /\ sig' = Free /\ sig = c
    BY <2>3
  <2> QED
    <3>1. sig = c /\ sig' = 0 /\ c \in Nat /\ c # MaxConn + 1 /\ c # MaxConn + 2 /\ c # 0
      BY <1>0, <2>4 DEF SignalingTypeOK, Critical, Conn, Free
    <3>2. /\ run # "swap" /\ stop # "shut"
          /\ \A e \in Conn : e # c => ~Critical(e) /\ ~Critical(e)' /\ e # 0
      BY <1>0, <2>2, <3>1 DEF SignalingTypeOK, Critical, Runner, Stopper, Conn
    <3>3. ~Critical(c)'
      BY <2>4, <1>0 DEF Critical, SignalingTypeOK
    <3> HIDE DEF CreateOffer, OfferFails, Go, OfferMade, CreatePeer
    <3>4. UNCHANGED <<control, dialled, losing, cancelled, usingWebRTC, current, doomed, run,
                      got, owner, sent, stop>>
      BY DEF CreateOffer, OfferFails, conns, loop
    <3> QED BY <1>0, <2>1, <2>2, <3>1, <3>2, <3>3, <3>4
               DEF SignalingTypeOK, Free, Runner, Stopper
<1>2. (/\ OneLive /\ Generations /\ Doomed /\ Loop /\ Answering /\ OwnerLeavesNothing
       /\ NoCandidateLost)'
  BY <1>0 DEF Inv, OneLive, Generations, Doomed, Loop, Answering, OwnerLeavesNothing,
              NoCandidateLost
<1>3. Closing'
  BY <1>0 DEF Inv, Closing, Serving, SignalingTypeOK, ManagerTypeOK, Generations, Loop,
              Offering, Doomed, Critical, Conn, Message
<1>4. ASSUME NEW e \in Conn PROVE Offering(e)'
  BY <1>0 DEF Inv, Offering, Serving, SignalingTypeOK, ManagerTypeOK, Generations, Loop,
              Message, Phase
<1> QED BY <1>0, <1>1, <1>2, <1>3, <1>4 DEF Inv, ManagersInHand

LEMMA AbortKeeps ==
    ASSUME Inv, NEW c \in Conn, Abort(c)
    PROVE  Inv'
<1> USE DEF Abort, Go, TakeToClose, CloseReturns, conns, lock, loop, offers, signaling,
            managerVars, closing, ice
<1>0. SignalingTypeOK /\ OneLive /\ MaxConn \in Nat /\ Manager = 1 .. MaxConn
  BY Facts
<1>1. SignalingTypeOK'
  <2>1. ManagerTypeOK'
    BY <1>0 DEF SignalingTypeOK, ManagerTypeOK
  <2>2. /\ offer' \in [Conn -> {"no", "create", "peer", "offer", "send", "watch", "abort",
                                "aborting", "done"}]
        /\ \A e \in Conn : e # c => offer'[e] = offer[e]
    BY <1>0 DEF SignalingTypeOK
  <2>3. c \in Nat /\ c # Free /\ c # Runner /\ c # Stopper
    BY <1>0 DEF Conn, Free, Runner, Stopper
  <2>4. UNCHANGED <<control, dialled, losing, cancelled, usingWebRTC, current, run, got, owner,
                    sent, stop>>
    OBVIOUS
  <2>5. doomed' \in Manager \cup {0}
    BY <1>0 DEF SignalingTypeOK
  <2>6. CASE offer[c] = "abort" /\ offer'[c] = "aborting" /\ sig = Free /\ sig' = c
    <3>1. /\ run # "swap" /\ stop # "shut" /\ Critical(c)'
          /\ \A e \in Conn : e # c => ~Critical(e) /\ ~Critical(e)' /\ e # Free
      BY <1>0, <2>2, <2>3, <2>6
         DEF SignalingTypeOK, Critical, Conn, Free, Runner, Stopper
    <3> HIDE DEF Abort, Go, TakeToClose, CloseReturns
    <3> QED BY <1>0, <2>1, <2>2, <2>3, <2>4, <2>5, <2>6, <3>1
            DEF SignalingTypeOK, Free, Runner, Stopper
  <2>7. CASE offer[c] = "aborting" /\ offer'[c] = "done" /\ sig = c /\ sig' = Free
    <3>1. /\ run # "swap" /\ stop # "shut" /\ ~Critical(c)'
          /\ \A e \in Conn : e # c => ~Critical(e) /\ ~Critical(e)' /\ e # Free
      BY <1>0, <2>2, <2>3, <2>7 DEF SignalingTypeOK, Critical, Conn, Free
    <3> HIDE DEF Abort, Go, TakeToClose, CloseReturns
    <3> QED BY <1>0, <2>1, <2>2, <2>3, <2>4, <2>5, <2>7, <3>1
            DEF SignalingTypeOK, Free, Runner, Stopper
  <2> QED BY <1>0, <2>6, <2>7 DEF SignalingTypeOK
<1>2. (Generations /\ Loop /\ Answering /\ OwnerLeavesNothing /\ NoCandidateLost)'
  BY <1>0 DEF Inv, Generations, Loop, Answering, OwnerLeavesNothing, NoCandidateLost
<1>3. OneLive'
  BY <1>0 DEF Inv, OneLive, SignalingTypeOK, ManagerTypeOK, Doomed
<1>4. Doomed'
  <2>1. \A e \in Conn : e # Free
    BY <1>0 DEF Conn, Free
  <2>2. CASE offer[c] = "abort" /\ sig = Free /\ sig' = c
    BY <1>0, <2>1, <2>2 DEF Inv, Doomed, SignalingTypeOK, Critical
  <2>3. CASE offer[c] = "aborting" /\ sig = c /\ doomed' = 0
    BY <2>3 DEF Doomed
  <2> QED BY <2>2, <2>3
<1>5. Closing'
  BY <1>0 DEF Inv, Closing, Serving, SignalingTypeOK, ManagerTypeOK, Generations, Loop,
              Offering, Doomed, Critical, Conn, Message
<1>6. ASSUME NEW e \in Conn PROVE Offering(e)'
  BY <1>0, CandidateAssumption DEF Inv, Offering, Serving, SignalingTypeOK,
                                   ManagerTypeOK, Generations, Loop, Message, Phase
<1> QED BY <1>0, <1>1, <1>2, <1>3, <1>4, <1>5, <1>6 DEF Inv, ManagersInHand

LEMMA SendOfferKeeps ==
    ASSUME Inv, NEW c \in Conn, SendOffer(c)
    PROVE  Inv'
<1> USE DEF SendOffer, Go, conns, lock, loop, offers, signaling, managerVars, closing,
            ice
<1>0. SignalingTypeOK /\ OneLive /\ MaxConn \in Nat /\ Manager = 1 .. MaxConn
  BY Facts
<1>1. SignalingTypeOK'
  <2>1. ManagerTypeOK'
    BY <1>0 DEF SignalingTypeOK, ManagerTypeOK
  <2>2. /\ offer' \in [Conn -> {"no", "create", "peer", "offer", "send", "watch", "abort",
                           "aborting", "done"}]
        /\ \A e \in Conn : e # c => offer'[e] = offer[e]
    BY <1>0 DEF SignalingTypeOK
  <2>3. offer[c] = "send" /\ offer'[c] \in {"watch", "done"}
    BY <1>0 DEF SignalingTypeOK
  <2>4. owner[c] \in Manager
    BY <2>3 DEF Inv, Offering
  <2>5. sent' \in [Conn -> SUBSET (Manager \X {"offer", "candidate"})]
    BY <1>0, <2>4 DEF SignalingTypeOK
  <2> QED BY <1>0, <2>1, <2>2, <2>3, <2>5 DEF SignalingTypeOK, Critical
<1>2. (OneLive /\ Generations /\ Answering /\ OwnerLeavesNothing /\ NoCandidateLost)'
  BY <1>0 DEF Inv, OneLive, Generations, Answering, OwnerLeavesNothing, NoCandidateLost
<1>3. Doomed'
  BY <1>0 DEF Inv, Doomed, SignalingTypeOK, Critical, Conn, Free
<1>4. Loop'
  BY <1>0 DEF Inv, Loop, SignalingTypeOK, Phase, Message, Offering, Conn
<1>5. Closing'
  BY <1>0 DEF Inv, Closing, Serving, SignalingTypeOK, ManagerTypeOK, Generations, Loop,
              Offering, Doomed, Critical, Conn, Message
<1>6. ASSUME NEW e \in Conn PROVE Offering(e)'
  BY <1>0 DEF Inv, Offering, Serving, SignalingTypeOK, ManagerTypeOK, Generations, Loop,
              Message, Phase
<1> QED BY <1>0, <1>1, <1>2, <1>3, <1>4, <1>5, <1>6 DEF Inv, ManagersInHand

LEMMA WatchdogKeeps ==
    ASSUME Inv, NEW c \in Conn, Watchdog(c)
    PROVE  Inv'
<1> USE DEF Watchdog, Go, activeWebRTC, conns, lock, loop, offers, signaling,
            managerVars, closing, ice
<1>0. SignalingTypeOK /\ OneLive /\ MaxConn \in Nat /\ Manager = 1 .. MaxConn
  BY Facts
<1>1. SignalingTypeOK'
  <2>1. ManagerTypeOK'
    BY <1>0 DEF SignalingTypeOK, ManagerTypeOK
  <2> QED BY <1>0, <2>1, CandidateAssumption DEF Inv, SignalingTypeOK, Conn, Critical,
                                                 Free, Runner, Stopper, Message, Phase,
                                                 Generations, Doomed, Loop
<1>2. (/\ OneLive /\ Generations /\ Loop /\ Answering /\ OwnerLeavesNothing
       /\ NoCandidateLost)'
  BY <1>0 DEF Inv, OneLive, Generations, Loop, Answering, OwnerLeavesNothing,
              NoCandidateLost
<1>3. Doomed'
  BY <1>0 DEF Inv, Doomed, SignalingTypeOK, Critical, Conn, Free
<1>4. Closing'
  BY <1>0 DEF Inv, Closing, Serving, SignalingTypeOK, ManagerTypeOK, Generations, Loop,
              Offering, Doomed, Critical, Conn, Message
<1>5. ASSUME NEW e \in Conn PROVE Offering(e)'
  BY <1>0 DEF Inv, Offering, Serving, SignalingTypeOK, ManagerTypeOK, Generations, Loop,
              Message, Phase
<1> QED BY <1>0, <1>1, <1>2, <1>3, <1>4, <1>5 DEF Inv, ManagersInHand

LEMMA SendCandidateKeeps ==
    ASSUME Inv, NEW c \in Conn, SendCandidate(c)
    PROVE  Inv'
<1> USE DEF SendCandidate, activeWebRTC, conns, lock, loop, offers, signaling,
            managerVars, closing, ice
<1>0. SignalingTypeOK /\ OneLive /\ MaxConn \in Nat /\ Manager = 1 .. MaxConn
  BY Facts
<1>1. SignalingTypeOK'
  <2>1. ManagerTypeOK'
    BY <1>0 DEF SignalingTypeOK, ManagerTypeOK
  <2> QED BY <1>0, <2>1 DEF Inv, SignalingTypeOK, Conn, Critical, Free, Runner, Stopper,
                            Message, Phase, Generations, Doomed, Loop
<1>2. (/\ OneLive /\ Generations /\ Doomed /\ Loop /\ Closing /\ Answering
       /\ OwnerLeavesNothing /\ NoCandidateLost /\ \A e \in Conn : Offering(e))'
  BY <1>0 DEF Inv, OneLive, Generations, Doomed, Loop, Closing, Answering, Offering,
              OwnerLeavesNothing, NoCandidateLost, Serving
<1> QED BY <1>0, <1>1, <1>2 DEF Inv, ManagersInHand

-----------------------------------------------------------------------------
(* Stop keeps it.                                                          *)

LEMMA StopBeginsKeeps ==
    ASSUME Inv, StopBegins
    PROVE  Inv'
<1> USE DEF StopBegins, conns, lock, loop, offers, signaling, managerVars, closing, ice
<1>0. SignalingTypeOK /\ OneLive /\ MaxConn \in Nat /\ Manager = 1 .. MaxConn
  BY Facts
<1>1. SignalingTypeOK'
  <2>1. ManagerTypeOK'
    BY <1>0 DEF SignalingTypeOK, ManagerTypeOK
  <2> QED BY <1>0, <2>1 DEF Inv, SignalingTypeOK, Conn, Critical, Free, Runner, Stopper,
                            Message, Phase, Generations, Doomed, Loop
<1>2. (/\ OneLive /\ Generations /\ Doomed /\ Loop /\ Closing /\ Answering
       /\ OwnerLeavesNothing /\ NoCandidateLost /\ \A c \in Conn : Offering(c))'
  BY <1>0 DEF Inv, OneLive, Generations, Doomed, Loop, Closing, Answering, Offering,
              OwnerLeavesNothing, NoCandidateLost, Serving
<1> QED BY <1>0, <1>1, <1>2 DEF Inv, ManagersInHand

LEMMA StopHasClosedKeeps ==
    ASSUME Inv, StopHasClosed
    PROVE  Inv'
<1> USE DEF StopHasClosed, conns, lock, loop, offers, signaling, managerVars, closing,
            ice
<1>0. SignalingTypeOK /\ OneLive /\ MaxConn \in Nat /\ Manager = 1 .. MaxConn
  BY Facts
<1>1. SignalingTypeOK'
  <2>1. ManagerTypeOK'
    BY <1>0 DEF SignalingTypeOK, ManagerTypeOK
  <2> QED BY <1>0, <2>1 DEF Inv, SignalingTypeOK, Conn, Critical, Free, Runner, Stopper,
                            Message, Phase, Generations, Doomed, Loop
<1>2. (/\ OneLive /\ Generations /\ Doomed /\ Loop /\ Closing /\ Answering
       /\ OwnerLeavesNothing /\ NoCandidateLost /\ \A c \in Conn : Offering(c))'
  BY <1>0 DEF Inv, OneLive, Generations, Doomed, Loop, Closing, Answering, Offering,
              OwnerLeavesNothing, NoCandidateLost, Serving
<1> QED BY <1>0, <1>1, <1>2 DEF Inv, ManagersInHand

LEMMA StopClosesKeeps ==
    ASSUME Inv, StopCloses
    PROVE  Inv'
<1> USE DEF StopCloses, TakeToClose, CloseReturns, conns, lock, loop, offers, signaling,
            managerVars, closing, ice
<1>0. SignalingTypeOK /\ OneLive /\ MaxConn \in Nat /\ Manager = 1 .. MaxConn
  BY Facts
<1>1. SignalingTypeOK'
  <2>1. ManagerTypeOK'
    BY <1>0 DEF SignalingTypeOK, ManagerTypeOK
  <2> QED BY <1>0, <2>1 DEF Inv, SignalingTypeOK, Conn, Critical, Free, Runner, Stopper,
                            Message, Phase, Generations, Doomed, Loop
<1>2. (/\ Generations /\ Loop /\ Answering /\ OwnerLeavesNothing /\ NoCandidateLost
       /\ \A c \in Conn : Offering(c))'
  BY <1>0 DEF Inv, Generations, Loop, Answering, Offering, OwnerLeavesNothing,
              NoCandidateLost, Serving
<1>3. OneLive'
  BY <1>0 DEF Inv, OneLive, SignalingTypeOK, ManagerTypeOK, Doomed, Critical
<1>4. Doomed'
  BY <1>0 DEF Inv, Doomed, SignalingTypeOK, Critical, Conn, Free
<1>5. Closing'
  BY <1>0 DEF Inv, Closing, Serving, SignalingTypeOK, ManagerTypeOK, Generations, Loop,
              Offering, Doomed, Critical, Conn, Message
<1> QED BY <1>0, <1>1, <1>2, <1>3, <1>4, <1>5 DEF Inv, ManagersInHand

LEMMA StopReturnsKeeps ==
    ASSUME Inv, StopReturns
    PROVE  Inv'
<1> USE DEF StopReturns, conns, lock, loop, offers, signaling, managerVars, closing, ice
<1>0. SignalingTypeOK /\ OneLive /\ MaxConn \in Nat /\ Manager = 1 .. MaxConn
  BY Facts
<1>1. SignalingTypeOK'
  <2>1. ManagerTypeOK'
    BY <1>0 DEF SignalingTypeOK, ManagerTypeOK
  <2> QED BY <1>0, <2>1 DEF Inv, SignalingTypeOK, Conn, Critical, Free, Runner, Stopper,
                            Message, Phase, Generations, Doomed, Loop
<1>2. (/\ OneLive /\ Generations /\ Doomed /\ Loop /\ Closing /\ Answering
       /\ OwnerLeavesNothing /\ NoCandidateLost /\ \A c \in Conn : Offering(c))'
  BY <1>0 DEF Inv, OneLive, Generations, Doomed, Loop, Closing, Answering, Offering,
              OwnerLeavesNothing, NoCandidateLost, Serving
<1> QED BY <1>0, <1>1, <1>2 DEF Inv, ManagersInHand

-----------------------------------------------------------------------------
(* The managers keep it.                                                   *)

LEMMA OwnerClosesKeeps ==
    ASSUME Inv, OwnerCloses
    PROVE  Inv'
<1> USE DEF OwnerCloses, BeginClose, conns, lock, loop, offers, signaling, managerVars,
            closing, ice
<1>0. SignalingTypeOK /\ OneLive /\ MaxConn \in Nat /\ Manager = 1 .. MaxConn
  BY Facts
<1>1. SignalingTypeOK'
  <2>1. ManagerTypeOK'
    BY <1>0 DEF SignalingTypeOK, ManagerTypeOK
  <2> QED BY <1>0, <2>1 DEF Inv, SignalingTypeOK, Conn, Critical, Free, Runner, Stopper,
                            Message, Phase, Generations, Doomed, Loop
<1>2. (/\ OneLive /\ Generations /\ Doomed /\ Loop /\ Answering /\ OwnerLeavesNothing
       /\ NoCandidateLost /\ \A c \in Conn : Offering(c))'
  BY <1>0 DEF Inv, OneLive, Generations, Doomed, Loop, Answering, Offering,
              OwnerLeavesNothing, NoCandidateLost, Serving
<1>3. Closing'
  BY <1>0 DEF Inv, Closing, Serving, SignalingTypeOK, ManagerTypeOK, Generations, Loop,
              Offering, Doomed, Critical, Conn, Message
<1> QED BY <1>0, <1>1, <1>2, <1>3 DEF Inv, ManagersInHand

LEMMA ManagerActsKeeps ==
    ASSUME Inv, ManagerActs
    PROVE  Inv'
<1> USE DEF ManagerActs, GiveUp, BeginClose, TearDown, conns, lock, loop, offers,
            signaling, managerVars, closing, ice
<1>0. SignalingTypeOK /\ OneLive /\ MaxConn \in Nat /\ Manager = 1 .. MaxConn
  BY Facts
<1>1. SignalingTypeOK'
  <2>1. ASSUME NEW m \in Manager, GiveUp(m) PROVE ManagerTypeOK'
    BY <1>0, <2>1 DEF SignalingTypeOK, ManagerTypeOK
  <2>2. ASSUME NEW m \in Manager, TearDown(m) PROVE ManagerTypeOK'
    BY <1>0, <2>2 DEF SignalingTypeOK, ManagerTypeOK
  <2>3. ManagerTypeOK'
    BY <2>1, <2>2
  <2> HIDE DEF GiveUp, TearDown
  <2> QED BY <1>0, <2>3 DEF SignalingTypeOK, Critical
<1>2. (Doomed /\ Loop /\ Answering)'
  BY <1>0 DEF Inv, Doomed, Loop, Answering
<1>3. OneLive'
  BY <1>0 DEF Inv, OneLive, SignalingTypeOK, ManagerTypeOK, Doomed
<1>4. Generations'
  BY <1>0 DEF Inv, Generations, SignalingTypeOK, ManagerTypeOK, Offering, Loop
<1>5. Closing'
  BY <1>0 DEF Inv, Closing, Serving, SignalingTypeOK, ManagerTypeOK, Generations, Loop,
              Offering, Doomed, Critical, Conn, Message
<1>6. ASSUME NEW c \in Conn PROVE Offering(c)'
  BY <1>0 DEF Inv, Offering, Serving, SignalingTypeOK, ManagerTypeOK, Generations, Loop,
              Message, Phase
<1>7. OwnerLeavesNothing'
  <2>1. ASSUME NEW m \in Manager, GiveUp(m) PROVE OwnerLeavesNothing'
    BY <1>0, <2>1 DEF Inv, OwnerLeavesNothing
  <2>2. ASSUME NEW m \in Manager, TearDown(m) PROVE OwnerLeavesNothing'
    BY <1>0, <2>2 DEF Inv, OwnerLeavesNothing, SignalingTypeOK, ManagerTypeOK
  <2> QED BY <2>1, <2>2
<1>8. NoCandidateLost'
  BY <1>0 DEF Inv, NoCandidateLost, Answering, SignalingTypeOK, ManagerTypeOK,
              Generations, Loop, Offering, Message, Phase
<1> QED BY <1>0, <1>1, <1>2, <1>3, <1>4, <1>5, <1>6, <1>7, <1>8 DEF Inv, ManagersInHand

-----------------------------------------------------------------------------
(* The invariant.                                                          *)

LEMMA InitEstablishes ==
    ASSUME Init
    PROVE  Inv
<1> USE DEF Init, ManagerInit
<1>0. MaxConn \in Nat \ {0} /\ Manager = 1 .. MaxConn
  BY MaxConnAssumption, ManagerAssumption DEF Conn
<1>1. ManagersInHand
  <2>1. ManagerTypeOK
    BY <1>0 DEF ManagerTypeOK
  <2>2. \A c \in Conn : c # Free /\ ~Critical(c)
    BY <1>0 DEF Conn, Free, Critical
  <2>3. Free # Runner /\ Free # Stopper
    BY <1>0 DEF Free, Runner, Stopper
  <2>4. offer \in [Conn -> {"no"}] /\ owner \in [Conn -> {0}] /\ sent \in [Conn -> {{}}]
    OBVIOUS
  <2>5. control = 0 /\ dialled = 0 /\ current = 1 /\ doomed = 0 /\ sig = Free /\ run = "down"
        /\ got = {} /\ stop = "no" /\ ~losing /\ ~cancelled /\ ~usingWebRTC
    OBVIOUS
  <2> HIDE DEF Init
  <2>6. <<losing, cancelled, usingWebRTC>> \in BOOLEAN \X BOOLEAN \X BOOLEAN
    BY DEF Init
  <2>7. SignalingTypeOK
    BY <1>0, <2>1, <2>2, <2>3, <2>4, <2>5, <2>6 DEF SignalingTypeOK, Phase
  <2> QED BY <1>0, <2>7 DEF Init, ManagerInit, ManagersInHand, OneLive
<1>2. Generations /\ Doomed /\ Answering
  BY <1>0 DEF Generations, Doomed, Answering
<1>3. Loop
  <2>1. run \notin Message
    BY CandidateAssumption DEF Message, Phase
  <2> QED BY <2>1 DEF Loop
<1>4. Closing /\ \A c \in Conn : Offering(c)
  BY <1>0 DEF Closing, Offering, Serving, Conn
<1>5. OwnerLeavesNothing /\ NoCandidateLost
  BY <1>0 DEF OwnerLeavesNothing, NoCandidateLost
<1> QED BY <1>1, <1>2, <1>3, <1>4, <1>5 DEF Inv

LEMMA StutterKeeps ==
    ASSUME Inv, UNCHANGED vars
    PROVE  Inv'
<1> USE DEF vars, signaling, conns, lock, loop, offers, managerVars, closing, ice
<1>1. ManagersInHand' /\ Generations' /\ Doomed'
  BY DEF Inv, ManagersInHand, OneLive, SignalingTypeOK, ManagerTypeOK, Critical,
         Generations, Doomed
<1>2. Loop' /\ Closing' /\ Answering'
  BY DEF Inv, Loop, Closing, Serving, Answering
<1>3. (\A c \in Conn : Offering(c))' /\ OwnerLeavesNothing' /\ NoCandidateLost'
  BY DEF Inv, Offering, Serving, OwnerLeavesNothing, NoCandidateLost
<1> QED BY <1>1, <1>2, <1>3 DEF Inv

LEMMA NextKeeps ==
    ASSUME Inv, [Next]_vars
    PROVE  Inv'
<1>1. CASE RunStep
  BY <1>1, DialKeeps, PrepareKeeps, PrepareNothingKeeps, ClosedKeeps, HandleAckKeeps,
     HandleAnswerKeeps, HandleCandidateKeeps, HandleEstablishedKeeps, HandleFailedKeeps,
     ReadEndsKeeps DEF RunStep
<1>2. ASSUME NEW msg \in Message, Receive(msg)
      PROVE  Inv'
  BY <1>2, ReceiveKeeps
<1>3. CASE Lose \/ CleanUp
  BY <1>3, LoseKeeps, CleanUpKeeps
<1>4. ASSUME NEW c \in Conn, OfferStep(c) \/ SendCandidate(c)
      PROVE  Inv'
  BY <1>4, LockKeeps, CreateOfferKeeps, OfferFailsKeeps, AbortKeeps, SendOfferKeeps,
     WatchdogKeeps, SendCandidateKeeps DEF OfferStep
<1>5. CASE StopBegins \/ StopStep
  BY <1>5, StopBeginsKeeps, StopHasClosedKeeps, StopClosesKeeps, StopReturnsKeeps
     DEF StopStep
<1>6. CASE OwnerCloses \/ ManagerActs
  BY <1>6, OwnerClosesKeeps, ManagerActsKeeps
<1>7. CASE UNCHANGED vars
  BY <1>7, StutterKeeps
<1> QED BY <1>1, <1>2, <1>3, <1>4, <1>5, <1>6, <1>7 DEF Next, Stopped

\* Every state of the signaling client satisfies the invariant.
THEOREM SignalingInvariant == Spec => []Inv
<1>1. Inv /\ [Next]_vars => Inv'
  BY NextKeeps
<1> QED BY InitEstablishes, <1>1, PTL DEF Spec

\* signalingMu is held by one goroutine at a time, inside its critical sections,
\* and a manager that was replaced is closed or about to be by who replaced it
\* (prepareWebRTCReconnect, closeWebRTCManager, Stop).
THEOREM ManagersStayInHand == Spec => []ManagersInHand
<1>1. Inv => ManagersInHand
  BY DEF Inv
<1> QED BY SignalingInvariant, <1>1, PTL

\* Neither an offer goroutine nor a callback of an older manager writes on a newer
\* control connection (the double snapshot of signaling.go).
THEOREM SignalsAreOfCurrent == Spec => []SignalsOfCurrent
<1>1. Inv => SignalsOfCurrent
  BY DEF Inv, Offering, SignalsOfCurrent
<1> QED BY SignalingInvariant, <1>1, PTL

\* A manager closed by its client holds no peer connection, although the offer
\* goroutine may be about to create one when the client closes (signalingMu).
THEOREM OwnerFreesThePeer == Spec => []OwnerLeavesNothing
<1>1. Inv => OwnerLeavesNothing
  BY DEF Inv
<1> QED BY SignalingInvariant, <1>1, PTL

\* A candidate that arrives before the answer, while it is applied, or after it was
\* refused, is kept until an answer is accepted (SetRemoteDescription and
\* AddICECandidate, manager.go).
THEOREM CandidatesAreKept == Spec => []NoCandidateLost
<1>1. Inv => NoCandidateLost
  BY DEF Inv
<1> QED BY SignalingInvariant, <1>1, PTL

=============================================================================

--------------------------- MODULE SidecarManager ---------------------------
(***************************************************************************)
(* webrtc/manager.go of the sidecar: managers of the server's side of a    *)
(* peer connection.  They answer offers; pion hands them the data channel. *)
(* A manager is closed once, by its pool or by itself (idle, ICE or peer   *)
(* connection failed, channel closed), and pion's callbacks run in         *)
(* goroutines of their own, so that they may come after that.              *)
(***************************************************************************)
EXTENDS Naturals, FiniteSets

CONSTANTS
    Manager,      \* manager objects, numbered in the order of their creation
    Candidate     \* ICE candidates of the client

VARIABLES
    life,         \* of each manager: closeOnce and how far doClose has come
    state,        \* m.state
    pc, dc,       \* the peer connection and the data channel of m
    remoteSet, pendingICE    \* guarded by pendingICEMu

ice == <<remoteSet, pendingICE>>
managerVars == <<life, state, pc, dc, ice>>

ASSUME ManagerAssumption == Manager \subseteq Nat /\ IsFiniteSet(Manager)

ManagerTypeOK ==
    /\ life \in [Manager -> {"unborn", "open", "closing", "closed"}]
    /\ state \in [Manager -> {"idle", "connecting", "connected", "closed"}]
    /\ pc \in [Manager -> {"none", "held", "shut"}]
    /\ dc \in [Manager -> {"none", "held", "opened", "dropped", "over"}]
    /\ remoteSet \in [Manager -> {"no", "marked", "yes"}]
    /\ pendingICE \in [Manager -> SUBSET Candidate]

ManagerInit ==
    /\ life = [m \in Manager |-> "unborn"]
    /\ state = [m \in Manager |-> "idle"]
    /\ pc = [m \in Manager |-> "none"] /\ dc = [m \in Manager |-> "none"]
    /\ remoteSet = [m \in Manager |-> "no"]
    /\ pendingICE = [m \in Manager |-> {}]

\* NewManager followed by CreatePeerConnection, which may fail: the manager
\* then lives on, without a peer connection, until its idle timer fires.
NewManager(m, ok) ==
    /\ life[m] = "unborn" /\ \A n \in Manager : life[n] = "unborn" => m <= n
    /\ life' = [life EXCEPT ![m] = "open"]
    /\ pc' = [pc EXCEPT ![m] = IF ok THEN "held" ELSE @]
    /\ state' = [state EXCEPT ![m] = IF ok THEN "connecting" ELSE @]
    /\ UNCHANGED <<dc, ice>>

-----------------------------------------------------------------------------
(* Closing.                                                                *)

\* closeOnce lets the first in, who cancels and marks the manager closed.
BeginClose(m) ==
    /\ life[m] = "open"
    /\ life' = [life EXCEPT ![m] = "closing"]
    /\ state' = [state EXCEPT ![m] = "closed"]
    /\ UNCHANGED <<pc, dc, ice>>

\* The channel and the peer connection are taken from m and closed: `dropped'
\* before the channel has opened, `over' after that.
ShutPeer(m) ==
    /\ life[m] = "closing"
    /\ life' = [life EXCEPT ![m] = "closed"]
    /\ dc' = [dc EXCEPT ![m] = CASE @ = "held" -> "dropped" [] @ = "opened" -> "over"
                                 [] OTHER -> @]
    /\ pc' = [pc EXCEPT ![m] = IF @ = "held" THEN "shut" ELSE @]
    /\ UNCHANGED <<state, ice>>

\* A Close that comes second waits in closeOnce for the first.
CloseReturns(m) == life[m] = "closed"

-----------------------------------------------------------------------------
(* Offer and candidates.                                                   *)

Holds(m) == pc[m] = "held"

\* SetRemoteOffer marks first, so that candidates need not wait any longer.
MarkRemote(m) ==
    /\ Holds(m) /\ remoteSet[m] = "no"
    /\ remoteSet' = [remoteSet EXCEPT ![m] = "marked"]
    /\ UNCHANGED <<life, state, pc, dc, pendingICE>>

\* pion refuses the offer, and what was buffered is put back.
OfferRefused(m) ==
    /\ remoteSet[m] = "marked"
    /\ remoteSet' = [remoteSet EXCEPT ![m] = "no"]
    /\ UNCHANGED <<life, state, pc, dc, pendingICE>>

\* pion takes the offer and then the candidates that were buffered; the answer
\* is made.
OfferTaken(m) ==
    /\ remoteSet[m] = "marked" /\ Holds(m)
    /\ remoteSet' = [remoteSet EXCEPT ![m] = "yes"]
    /\ pendingICE' = [pendingICE EXCEPT ![m] = {}]
    /\ UNCHANGED <<life, state, pc, dc>>

\* AddICECandidate buffers before the remote description.  After it the
\* candidate goes to pion, which refuses it as long as the description is only
\* marked (an "acceptable trade-off", says the code).
AddICECandidate(m, k) ==
    /\ life[m] = "open"
    /\ pendingICE' = [pendingICE EXCEPT ![m] = IF remoteSet[m] = "no" THEN @ \cup {k} ELSE @]
    /\ UNCHANGED <<life, state, pc, dc, remoteSet>>

-----------------------------------------------------------------------------
(* Callbacks of pion, which may come late.                                 *)

OnDataChannel(m) ==
    /\ remoteSet[m] = "yes" /\ dc[m] = "none"
    /\ dc' = [dc EXCEPT ![m] = "held"]
    /\ UNCHANGED <<life, state, pc, ice>>

\* A late one marks a closed manager connected.
OnOpen(m) ==
    /\ dc[m] \in {"held", "dropped"}
    /\ dc' = [dc EXCEPT ![m] = IF @ = "held" THEN "opened" ELSE "over"]
    /\ state' = [state EXCEPT ![m] = "connected"]
    /\ UNCHANGED <<life, pc, ice>>

Negotiates(m) ==
    \/ MarkRemote(m) \/ OfferRefused(m) \/ OfferTaken(m)
    \/ \E k \in Candidate : AddICECandidate(m, k)
    \/ OnDataChannel(m) \/ OnOpen(m)

=============================================================================

---------------------------- MODULE PeerManager ----------------------------
(***************************************************************************)
(* webrtc/manager.go of the client: what WebRTC managers hold.  Each has   *)
(* one peer connection (with its data channel), a buffer of ICE            *)
(* candidates that wait for the answer, and is closed once, by its owner   *)
(* or by itself.  ManagerState adds the connection state and the sending   *)
(* of data; Signaling is the owner.                                        *)
(*                                                                         *)
(* Whatever makes a manager give up by itself (its idle timer, ICE, the    *)
(* peer connection or the channel failing) may happen at any moment: time  *)
(* is not modelled, so that resetting the idle timer changes nothing.      *)
(***************************************************************************)
EXTENDS Naturals

CONSTANTS
    Manager,      \* the managers a client may create
    Candidate     \* ICE candidates of the server

VARIABLES
    life,         \* of each manager: closeOnce and how far doClose has come
    closedBy,     \* who ran doClose
    peer,         \* the peer connection and data channel (m.pc, m.dc)
    remoteSet, pendingICE,   \* guarded by pendingICEMu
    added         \* candidates pion has accepted

ice == <<remoteSet, pendingICE, added>>
closing == <<life, closedBy>>
managerVars == <<closing, peer, ice>>

Cancelled(m) == life[m] \in {"closing", "closed"}

ManagerTypeOK ==
    /\ life \in [Manager -> {"unborn", "open", "closing", "closed"}]
    /\ closedBy \in [Manager -> {"nobody", "itself", "owner"}]
    /\ peer \in [Manager -> {"none", "held", "shut"}]
    /\ remoteSet \in [Manager -> {"no", "marked", "accepted", "yes"}]
    /\ <<pendingICE, added>> \in [Manager -> SUBSET Candidate] \X [Manager -> SUBSET Candidate]

-----------------------------------------------------------------------------
(* Creation and closing.                                                   *)

\* NewManager.
NewManager(m) ==
    /\ life[m] = "unborn"
    /\ life' = [life EXCEPT ![m] = "open"]
    /\ UNCHANGED <<closedBy, peer, ice>>

\* closeOnce lets one doClose in, which cancels the manager's context.
BeginClose(m, who) ==
    /\ life[m] = "open"
    /\ life' = [life EXCEPT ![m] = "closing"]
    /\ closedBy' = [closedBy EXCEPT ![m] = who]
    /\ UNCHANGED <<peer, ice>>

GiveUp(m) == BeginClose(m, "itself")

\* m.dc and m.pc are taken and closed: the close is over.
TearDown(m) ==
    /\ life[m] = "closing"
    /\ life' = [life EXCEPT ![m] = "closed"]
    /\ peer' = [peer EXCEPT ![m] = IF @ = "held" THEN "shut" ELSE @]
    /\ UNCHANGED <<closedBy, ice>>

-----------------------------------------------------------------------------
(* Offer, answer and candidates.                                           *)

\* CreateOffer up to the assignment of m.pc and m.dc, whatever m's life is.
CreatePeer(m) ==
    /\ peer[m] = "none"
    /\ peer' = [peer EXCEPT ![m] = "held"]
    /\ UNCHANGED <<closing, ice>>

\* Its descriptions; pion refuses on a peer connection that is closed.
OfferMade(m) == peer[m] = "held" /\ UNCHANGED managerVars

\* SetRemoteDescription marks first, so that candidates that arrive meanwhile
\* need not wait, then asks pion; a refusal puts the buffered ones back.
MarkRemote(m) ==
    /\ peer[m] = "held" /\ remoteSet[m] = "no"
    /\ remoteSet' = [remoteSet EXCEPT ![m] = "marked"]
    /\ UNCHANGED <<closing, peer, pendingICE, added>>

FaultyRemoteRefused(m) ==
    /\ remoteSet[m] = "marked"
    /\ remoteSet' = [remoteSet EXCEPT ![m] = "no"]
    /\ pendingICE' = [pendingICE EXCEPT ![m] = {}]
    /\ UNCHANGED <<closing, peer, added>>
RemoteRefused(m) ==
    /\ remoteSet[m] = "marked"
    /\ remoteSet' = [remoteSet EXCEPT ![m] = "no"]
    /\ UNCHANGED <<closing, peer, pendingICE, added>>

RemoteAccepted(m) ==
    /\ remoteSet[m] = "marked" /\ peer[m] = "held"
    /\ remoteSet' = [remoteSet EXCEPT ![m] = "accepted"]
    /\ UNCHANGED <<closing, peer, pendingICE, added>>

FlushPending(m) ==
    /\ remoteSet[m] = "accepted"
    /\ remoteSet' = [remoteSet EXCEPT ![m] = "yes"]
    /\ added' = [added EXCEPT ![m] = IF peer[m] = "held" THEN @ \cup pendingICE[m] ELSE @]
    /\ pendingICE' = [pendingICE EXCEPT ![m] = {}]
    /\ UNCHANGED <<closing, peer>>

\* Buffered before the remote description is marked, given to pion after it,
\* which refuses it until it has accepted the description.
AddICECandidate(m, k) ==
    /\ \/ /\ remoteSet[m] = "no"
          /\ pendingICE' = [pendingICE EXCEPT ![m] = @ \cup {k}]
          /\ UNCHANGED added
       \/ /\ remoteSet[m] \in {"accepted", "yes"} /\ peer[m] = "held"
          /\ added' = [added EXCEPT ![m] = @ \cup {k}]
          /\ UNCHANGED pendingICE
       \/ /\ remoteSet[m] # "no"
          /\ remoteSet[m] = "marked" \/ peer[m] # "held"
          /\ UNCHANGED <<pendingICE, added>>
    /\ UNCHANGED <<closing, peer, remoteSet>>

-----------------------------------------------------------------------------
ManagerInit(first) ==
    /\ life = [m \in Manager |-> IF m = first THEN "open" ELSE "unborn"]
    /\ closedBy = [m \in Manager |-> "nobody"]
    /\ peer = [m \in Manager |-> "none"]
    /\ remoteSet = [m \in Manager |-> "no"]
    /\ pendingICE = [m \in Manager |-> {}]
    /\ added = [m \in Manager |-> {}]

=============================================================================

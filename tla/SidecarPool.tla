---------------------------- MODULE SidecarPool ----------------------------
(***************************************************************************)
(* webrtc/pool.go of the sidecar: the managers by connection id.  Remove   *)
(* and CloseAll take managers out under the pool's mutex and close them,   *)
(* one after the other, outside of it.                                     *)
(***************************************************************************)
EXTENDS SidecarManager

CONSTANTS
    ConnId,       \* connection ids
    Closer        \* goroutines that call Remove and CloseAll

VARIABLES
    managers,     \* p.managers: the managers in the pool under each id
    hands,        \* the managers each closer has taken out and not yet closed
    totalCreated, totalClosed,
    told          \* managers reported to onConnectionClosed

poolVars == <<managers, hands, totalCreated, totalClosed, told>>

InPool == UNION {managers[i] : i \in ConnId}

InHands == UNION {hands[c] : c \in Closer}

PoolTypeOK ==
    /\ ManagerTypeOK
    /\ managers \in [ConnId -> SUBSET Manager]
    /\ \A i \in ConnId : Cardinality(managers[i]) <= 1
    /\ hands \in [Closer -> SUBSET Manager]
    /\ totalCreated \in 0 .. Cardinality(Manager)
    /\ totalClosed \in 0 .. Cardinality(Manager)
    /\ told \subseteq Manager

PoolInit ==
    /\ ManagerInit
    /\ managers = [i \in ConnId |-> {}]
    /\ hands = [c \in Closer |-> {}]
    /\ totalCreated = 0 /\ totalClosed = 0 /\ told = {}

\* Create refuses an id that is in the pool, even if its manager has closed.
FaultyCreate(i, m, ok) ==
    /\ NewManager(m, ok)
    /\ managers' = [managers EXCEPT ![i] = IF ok THEN {m} ELSE @]
    /\ totalCreated' = IF ok THEN totalCreated + 1 ELSE totalCreated
    /\ UNCHANGED <<hands, totalClosed, told>>
Create(i, m, ok) ==
    /\ managers[i] = {}
    /\ NewManager(m, ok)
    /\ managers' = [managers EXCEPT ![i] = IF ok THEN {m} ELSE @]
    /\ totalCreated' = IF ok THEN totalCreated + 1 ELSE totalCreated
    /\ UNCHANGED <<hands, totalClosed, told>>

\* Remove and CloseAll: out of the pool at once ...
TakesOut(c, ids) ==
    /\ hands[c] = {}
    /\ hands' = [hands EXCEPT ![c] = UNION {managers[i] : i \in ids}]
    /\ managers' = [i \in ConnId |-> IF i \in ids THEN {} ELSE managers[i]]
    /\ UNCHANGED <<totalCreated, totalClosed, told, managerVars>>

Remove(c, i) == managers[i] # {} /\ TakesOut(c, {i})

CloseAll(c) == TakesOut(c, ConnId)

\* ... then each is closed, counted and reported.
\* (The order is that of a map: here the oldest comes first.)
First(c, m) == m \in hands[c] /\ \A n \in hands[c] : m <= n

EntersClose(c, m) ==
    /\ First(c, m)
    /\ BeginClose(m)
    /\ UNCHANGED poolVars

LeavesClose(c, m) ==
    /\ First(c, m) /\ CloseReturns(m)
    /\ hands' = [hands EXCEPT ![c] = @ \ {m}]
    /\ totalClosed' = totalClosed + 1
    /\ told' = told \cup {m}
    /\ UNCHANGED <<managers, totalCreated, managerVars>>

Works(c) == \E m \in Manager : EntersClose(c, m) \/ LeavesClose(c, m)

\* Managers that close by themselves, because nothing was sent for a while, the
\* peer connection has failed or the channel has ended, do not leave the pool.
IdleTimeout(m) == BeginClose(m) /\ UNCHANGED poolVars

PeerFails(m) == Holds(m) /\ BeginClose(m) /\ UNCHANGED poolVars

ChannelEnds(m) == dc[m] \in {"held", "opened"} /\ BeginClose(m) /\ UNCHANGED poolVars

PoolNext ==
    \/ \E i \in ConnId, m \in Manager, ok \in BOOLEAN : Create(i, m, ok)
    \/ \E m \in Manager :
        \/ IdleTimeout(m) \/ PeerFails(m) \/ ChannelEnds(m)
        \/ Negotiates(m) /\ UNCHANGED poolVars

-----------------------------------------------------------------------------
(* Properties.                                                             *)

\* Every manager that was created is in the pool, in the hands of one closer, or
\* closed, counted and reported: none is counted twice and none is dropped
\* without being closed, however Create, Remove and CloseAll overlap.
Accounted ==
    /\ totalCreated = Cardinality(InPool) + Cardinality(InHands) + totalClosed
    /\ Cardinality(told) = totalClosed
    /\ told \cap (InPool \cup InHands) = {}
    /\ \A m \in told : CloseReturns(m)
    /\ \A c, d \in Closer : c # d => hands[c] \cap hands[d] = {}

=============================================================================

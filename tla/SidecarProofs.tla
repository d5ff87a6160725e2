---------------------------- MODULE SidecarProofs ----------------------------
(***************************************************************************)
(* Proofs about Sidecar, for any numbers of connections, connection ids    *)
(* and managers: the pool loses no manager and counts none twice.          *)
(*                                                                         *)
(* The inductive invariant replaces the sums of Accounted by one set, the  *)
(* managers that are Tracked, and says that the places a manager may be    *)
(* tracked in (an id of the pool, the hands of one closer, the report)     *)
(* exclude each other.  A manager that is not born is in none of them.     *)
(***************************************************************************)
EXTENDS Sidecar, FiniteSetTheorems, TLAPS

Tracked == InPool \cup InHands \cup told

Apart ==
    /\ \A i, j \in ConnId : i # j => managers[i] \cap managers[j] = {}
    /\ \A c, d \in Closer : c # d => hands[c] \cap hands[d] = {}
    /\ \A i \in ConnId, c \in Closer : managers[i] \cap hands[c] = {}
    /\ \A i \in ConnId : managers[i] \cap told = {}
    /\ \A c \in Closer : hands[c] \cap told = {}

Counted ==
    /\ totalCreated = Cardinality(Tracked)
    /\ totalClosed = Cardinality(told)

Inv ==
    /\ TypeOK
    /\ Apart
    /\ Counted
    /\ \A m \in Tracked : life[m] # "unborn"
    /\ \A m \in told : life[m] = "closed"

-----------------------------------------------------------------------------
(* Lemmas about the sets of managers.                                      *)

LEMMA TrackedFinite ==
    ASSUME PoolTypeOK
    PROVE  /\ InPool \subseteq Manager /\ InHands \subseteq Manager /\ told \subseteq Manager
           /\ \A S \in SUBSET Manager :
                 IsFiniteSet(S) /\ Cardinality(S) \in Nat
                    /\ Cardinality(S) <= Cardinality(Manager)
           /\ Cardinality(Manager) \in Nat
<1>1. InPool \subseteq Manager /\ InHands \subseteq Manager /\ told \subseteq Manager
  BY DEF PoolTypeOK, InPool, InHands
<1>2. \A S \in SUBSET Manager :
         IsFiniteSet(S) /\ Cardinality(S) <= Cardinality(Manager)
  BY ManagerAssumption, FS_Subset
<1> QED BY <1>1, <1>2, ManagerAssumption, FS_CardinalityType

\* A step of a manager's own leaves the pool alone; managers are not unborn, and
\* those that have closed stay closed.
LEMMA ManagerStep ==
    ASSUME Inv, TypeOK', UNCHANGED poolVars,
           \A m \in Manager : /\ life[m] # "unborn" => life'[m] # "unborn"
                              /\ life[m] = "closed" => life'[m] = "closed"
    PROVE  Inv'
<1> USE DEF poolVars
<1>1. Tracked' = Tracked /\ Tracked \subseteq Manager
  BY TrackedFinite DEF Tracked, InPool, InHands, Inv, TypeOK
<1>2. Apart'
  BY DEF Inv, Apart
<1>3. Counted'
  BY <1>1 DEF Inv, Counted
<1> QED BY <1>1, <1>2, <1>3 DEF Inv, Tracked

LEMMA ManagerStepTypes ==
    ASSUME TypeOK, ManagerTypeOK', UNCHANGED <<poolVars, sidecarVars>>
    PROVE  TypeOK'
BY DEF TypeOK, PoolTypeOK, poolVars, sidecarVars

LEMMA CreateKeeps ==
    ASSUME Inv, NEW i \in ConnId, NEW m \in Manager, NEW ok \in BOOLEAN, Create(i, m, ok),
           UNCHANGED sidecarVars
    PROVE  Inv'
<1> USE DEF Create, NewManager
<1>1. PoolTypeOK /\ TypeOK
  BY DEF Inv, TypeOK
<1>2. ManagerTypeOK'
  BY <1>1 DEF PoolTypeOK, ManagerTypeOK, ice
<1>3. \A n \in Manager : /\ life[n] # "unborn" => life'[n] # "unborn"
                         /\ life[n] = "closed" => life'[n] = "closed"
  BY <1>1 DEF PoolTypeOK, ManagerTypeOK
<1>4. CASE ~ok
  <2>1. UNCHANGED poolVars
    BY <1>1, <1>4 DEF poolVars, PoolTypeOK
  <2> QED BY <1>1, <1>2, <1>3, <2>1, ManagerStep, ManagerStepTypes
<1>5. CASE ok
  <2> USE <1>5
  <2>1. m \notin Tracked
    BY DEF Inv
  <2>2. /\ managers' \in [ConnId -> SUBSET Manager]
        /\ managers'[i] = {m}
        /\ \A j \in ConnId \ {i} : managers'[j] = managers[j]
    BY <1>1 DEF PoolTypeOK
  <2>3. InPool' = InPool \cup {m}
    BY <2>2 DEF InPool
  <2>4. Tracked' = Tracked \cup {m} /\ Tracked \subseteq Manager /\ Tracked' \subseteq Manager
    BY <1>1, <2>3, TrackedFinite DEF Tracked, InHands
  <2>5. Cardinality(Tracked') = Cardinality(Tracked) + 1
    BY <1>1, <2>1, <2>4, TrackedFinite, FS_AddElement
  <2>6. Counted'
    BY <2>5 DEF Inv, Counted
  <2>7. TypeOK'
    <3>1. totalCreated' \in 0 .. Cardinality(Manager)
      BY <1>1, <2>4, <2>6, TrackedFinite DEF Counted
    <3>2. \A j \in ConnId : Cardinality(managers'[j]) <= 1
      <4>1. Cardinality({m}) = 1
        BY FS_Singleton
      <4> QED BY <1>1, <2>2, <4>1 DEF PoolTypeOK
    <3> QED BY <1>1, <1>2, <2>2, <3>1, <3>2 DEF TypeOK, PoolTypeOK, sidecarVars
  <2>8. Apart'
    BY <2>1, <2>2 DEF Inv, Apart, Tracked, InPool, InHands
  <2>9. life'[m] = "open"
    BY <1>1 DEF PoolTypeOK, ManagerTypeOK
  <2> QED BY <1>3, <2>4, <2>6, <2>7, <2>8, <2>9, TrackedFinite, <1>1 DEF Inv
<1> QED BY <1>4, <1>5

\* Taking managers out moves them from the pool to the hands of one closer.
LEMMA TakesOutKeeps ==
    ASSUME Inv, NEW c \in Closer, NEW ids \in SUBSET ConnId, TakesOut(c, ids),
           conn' \in [Conn -> {"new", "handled", "left", "cleaning", "gone"}],
           serving' \in {"yes", "signalled", "closing", "stopped"},
           UNCHANGED <<java, waiting>>
    PROVE  Inv'
<1> USE DEF TakesOut, managerVars
<1>1. PoolTypeOK /\ TypeOK
  BY DEF Inv, TypeOK
<1>2. /\ managers' \in [ConnId -> SUBSET Manager]
      /\ \A j \in ConnId : managers'[j] = IF j \in ids THEN {} ELSE managers[j]
  BY <1>1 DEF PoolTypeOK
<1>3. /\ hands' \in [Closer -> SUBSET Manager]
      /\ hands'[c] = UNION {managers[j] : j \in ids}
      /\ \A d \in Closer \ {c} : hands'[d] = hands[d]
  BY <1>1 DEF PoolTypeOK
<1>4. Tracked' = Tracked /\ Tracked \subseteq Manager
  <2>1. InHands' = InHands \cup UNION {managers[j] : j \in ids}
    BY <1>3 DEF InHands
  <2>2. InPool = InPool' \cup UNION {managers[j] : j \in ids}
    BY <1>2 DEF InPool
  <2> QED BY <1>1, <2>1, <2>2, TrackedFinite DEF Tracked
<1>5. TypeOK'
  <2>1. \A j \in ConnId : Cardinality(managers'[j]) <= 1
    BY <1>1, <1>2, FS_EmptySet DEF PoolTypeOK
  <2> QED BY <1>1, <1>2, <1>3, <2>1 DEF TypeOK, PoolTypeOK, ManagerTypeOK, ice
<1>6. Apart'
  BY <1>2, <1>3 DEF Inv, Apart
<1>7. Counted'
  BY <1>4 DEF Inv, Counted
<1> QED BY <1>4, <1>5, <1>6, <1>7 DEF Inv

LEMMA LeavesCloseKeeps ==
    ASSUME Inv, NEW c \in Closer, NEW m \in Manager, LeavesClose(c, m), UNCHANGED sidecarVars
    PROVE  Inv'
<1> USE DEF LeavesClose, First, CloseReturns, managerVars
<1>1. PoolTypeOK /\ TypeOK
  BY DEF Inv, TypeOK
<1>2. /\ hands' \in [Closer -> SUBSET Manager]
      /\ hands'[c] = hands[c] \ {m}
      /\ \A d \in Closer \ {c} : hands'[d] = hands[d]
  BY <1>1 DEF PoolTypeOK
<1>3. m \notin told /\ \A d \in Closer \ {c} : m \notin hands[d]
  BY DEF Inv, Apart
<1>4. InHands = InHands' \cup {m}
  BY <1>2 DEF InHands
<1>5. Tracked' = Tracked /\ Tracked \subseteq Manager /\ told' \subseteq Manager
  BY <1>1, <1>4, TrackedFinite DEF Tracked, InPool
<1>6. Cardinality(told') = Cardinality(told) + 1
  BY <1>1, <1>3, TrackedFinite, FS_AddElement
<1>7. Counted'
  BY <1>5, <1>6 DEF Inv, Counted
<1>8. TypeOK'
  <2>1. totalClosed' \in 0 .. Cardinality(Manager)
    BY <1>1, <1>5, <1>7, TrackedFinite DEF Counted
  <2> QED BY <1>1, <1>2, <1>5, <2>1 DEF TypeOK, PoolTypeOK, ManagerTypeOK, ice, sidecarVars
<1>9. Apart'
  BY <1>2, <1>3 DEF Inv, Apart
<1> QED BY <1>5, <1>7, <1>8, <1>9 DEF Inv

\* The steps of a manager: closing, freeing what it holds, negotiating.
LEMMA OwnStepKeeps ==
    ASSUME Inv, NEW m \in Manager, BeginClose(m) \/ ShutPeer(m) \/ Negotiates(m),
           UNCHANGED <<poolVars, sidecarVars>>
    PROVE  Inv'
<1>1. ManagerTypeOK
  BY DEF Inv, TypeOK, PoolTypeOK
<1>2. CASE BeginClose(m)
  <2>1. /\ ManagerTypeOK'
        /\ \A n \in Manager : /\ life[n] # "unborn" => life'[n] # "unborn"
                              /\ life[n] = "closed" => life'[n] = "closed"
    BY <1>1, <1>2 DEF ManagerTypeOK, BeginClose, ice
  <2>2. TypeOK' /\ UNCHANGED poolVars
    BY <2>1, ManagerStepTypes DEF Inv
  <2> QED BY <2>1, <2>2, ManagerStep
<1>3. CASE ShutPeer(m)
  <2>1. /\ ManagerTypeOK'
        /\ \A n \in Manager : /\ life[n] # "unborn" => life'[n] # "unborn"
                              /\ life[n] = "closed" => life'[n] = "closed"
    BY <1>1, <1>3 DEF ManagerTypeOK, ShutPeer, ice
  <2>2. TypeOK' /\ UNCHANGED poolVars
    BY <2>1, ManagerStepTypes DEF Inv
  <2> QED BY <2>1, <2>2, ManagerStep
<1>4. CASE Negotiates(m)
  <2>1. UNCHANGED life
    BY <1>4 DEF Negotiates, MarkRemote, OfferRefused, OfferTaken, AddICECandidate,
       OnDataChannel, OnOpen
  <2>2. ManagerTypeOK'
    <3>1. CASE MarkRemote(m) \/ OfferRefused(m) \/ OfferTaken(m)
      BY <1>1, <3>1 DEF ManagerTypeOK, MarkRemote, OfferRefused, OfferTaken
    <3>2. ASSUME NEW k \in Candidate, AddICECandidate(m, k) PROVE ManagerTypeOK'
      BY <1>1, <3>2 DEF ManagerTypeOK, AddICECandidate
    <3>3. CASE OnDataChannel(m) \/ OnOpen(m)
      BY <1>1, <3>3 DEF ManagerTypeOK, OnDataChannel, OnOpen, ice
    <3> QED BY <1>4, <3>1, <3>2, <3>3 DEF Negotiates
  <2> QED BY <2>1, <2>2, ManagerStep, ManagerStepTypes DEF Inv
<1> QED BY <1>2, <1>3, <1>4

\* The steps of the server that leave the pool alone.
LEMMA ServerStepKeeps ==
    ASSUME Inv, UNCHANGED <<poolVars, managerVars>>,
           conn' \in [Conn -> {"new", "handled", "left", "cleaning", "gone"}],
           serving' \in {"yes", "signalled", "closing", "stopped"},
           java' \subseteq Conn, waiting' \subseteq Conn
    PROVE  Inv'
<1>1. TypeOK'
  BY DEF Inv, TypeOK, PoolTypeOK, ManagerTypeOK, poolVars, managerVars, ice
<1> QED BY <1>1, ManagerStep DEF managerVars

-----------------------------------------------------------------------------
(* The theorems.                                                           *)

LEMMA InitEstablishes ==
    ASSUME Init
    PROVE  Inv
<1> USE DEF Init, PoolInit, ManagerInit
<1>1. Cardinality({}) = 0 /\ Cardinality(Manager) \in Nat
  BY FS_EmptySet, FS_CardinalityType, ManagerAssumption
<1>2. Tracked = {} /\ told = {}
  BY DEF Tracked, InPool, InHands
<1>3. TypeOK
  BY <1>1 DEF TypeOK, PoolTypeOK, ManagerTypeOK
<1> QED BY <1>1, <1>2, <1>3 DEF Inv, Apart, Counted

LEMMA ConnStepKeeps ==
    ASSUME Inv, NEW c \in Conn, Accept(c) \/ HangUp(c) \/ HandlerLeaves(c) \/ ConnStep(c)
    PROVE  Inv'
<1>1. /\ conn \in [Conn -> {"new", "handled", "left", "cleaning", "gone"}]
      /\ java \subseteq Conn /\ waiting \subseteq Conn
      /\ serving \in {"yes", "signalled", "closing", "stopped"} /\ c \in Closer
  BY CloserAssumption DEF Inv, TypeOK
<1>2. CASE Accept(c)
  BY <1>1, <1>2, ServerStepKeeps DEF Accept, Moves
<1>3. CASE HangUp(c)
  BY <1>1, <1>3, ServerStepKeeps DEF HangUp
<1>4. CASE HandlerLeaves(c)
  BY <1>1, <1>4, ServerStepKeeps DEF HandlerLeaves, Moves
<1>5. CASE OnDisconnect(c)
  <2>1. /\ TakesOut(c, ConnId) /\ UNCHANGED <<java, waiting, serving>>
        /\ conn' \in [Conn -> {"new", "handled", "left", "cleaning", "gone"}]
    BY <1>1, <1>5 DEF OnDisconnect, Moves, CloseAll
  <2> QED BY <1>1, <2>1, TakesOutKeeps
<1>6. CASE CleanedUp(c)
  BY <1>1, <1>6, ServerStepKeeps DEF CleanedUp, Moves
<1>7. CASE Works(c) /\ UNCHANGED sidecarVars
  BY <1>1, <1>7, LeavesCloseKeeps, OwnStepKeeps DEF Works, EntersClose
<1> QED BY <1>2, <1>3, <1>4, <1>5, <1>6, <1>7 DEF ConnStep

LEMMA MainStepKeeps ==
    ASSUME Inv, Signal \/ MainStep
    PROVE  Inv'
<1>1. /\ conn \in [Conn -> {"new", "handled", "left", "cleaning", "gone"}]
      /\ java \subseteq Conn /\ waiting \subseteq Conn /\ main \in Closer
  BY CloserAssumption DEF Inv, TypeOK
<1>2. CASE Signal
  <2>1. TakesOut(main, ConnId) /\ UNCHANGED <<conn, java, waiting>> /\ serving' = "signalled"
    BY <1>2 DEF Signal, CloseAll
  <2> QED BY <1>1, <2>1, TakesOutKeeps
<1>3. CASE CloseServer \/ Stopped
  BY <1>1, <1>3, ServerStepKeeps DEF CloseServer, Stopped
<1>4. CASE Works(main) /\ UNCHANGED sidecarVars
  BY <1>1, <1>4, LeavesCloseKeeps, OwnStepKeeps DEF Works, EntersClose
<1> QED BY <1>2, <1>3, <1>4 DEF MainStep

LEMMA NextKeeps ==
    ASSUME Inv, [Next]_vars
    PROVE  Inv'
<1>1. CASE PoolNext /\ UNCHANGED sidecarVars
  <2>1. ASSUME NEW m \in Manager,
               \/ IdleTimeout(m) \/ PeerFails(m) \/ ChannelEnds(m)
               \/ Negotiates(m) /\ UNCHANGED poolVars
        PROVE  Inv'
    BY <1>1, <2>1, OwnStepKeeps DEF IdleTimeout, PeerFails, ChannelEnds
  <2> QED BY <1>1, <2>1, CreateKeeps DEF PoolNext
<1>2. ASSUME NEW i \in ConnId, NEW c \in Conn, Remove(c, i), UNCHANGED sidecarVars
      PROVE  Inv'
  <2>1. /\ TakesOut(c, {i}) /\ c \in Closer /\ UNCHANGED <<java, waiting>>
        /\ conn' \in [Conn -> {"new", "handled", "left", "cleaning", "gone"}]
        /\ serving' \in {"yes", "signalled", "closing", "stopped"}
    BY <1>2, CloserAssumption DEF Remove, sidecarVars, Inv, TypeOK
  <2> QED BY <2>1, TakesOutKeeps
<1>3. ASSUME NEW m \in Manager, Frees(m) PROVE Inv'
  BY <1>3, OwnStepKeeps DEF Frees
<1>4. CASE UNCHANGED vars
  BY <1>4, ServerStepKeeps DEF vars, sidecarVars, Inv, TypeOK
<1> QED BY <1>1, <1>2, <1>3, <1>4, ConnStepKeeps, MainStepKeeps DEF Next

\* The tracked managers, wherever they are, are those that were created; no two
\* places share one.
THEOREM PoolInvariant == Spec => []Inv
<1>1. Init => Inv
  BY InitEstablishes
<1>2. Inv /\ [Next]_vars => Inv'
  BY NextKeeps
<1> QED BY <1>1, <1>2, PTL DEF Spec

\* Create, Remove, CloseAll, the idle timers and the callbacks of pion, in any
\* order: every manager is accounted for, and none is closed or counted twice.
THEOREM NoManagerLost == Spec => []PoolSound
<1>1. ASSUME Inv PROVE PoolSound
  <2>1. PoolTypeOK /\ InPool \cap InHands = {} /\ told \cap (InPool \cup InHands) = {}
    BY <1>1 DEF Inv, TypeOK, Apart, InPool, InHands
  <2>2. /\ \A S \in SUBSET Manager : IsFiniteSet(S) /\ Cardinality(S) \in Nat
        /\ InPool \subseteq Manager /\ InHands \subseteq Manager /\ told \subseteq Manager
    BY <2>1, TrackedFinite
  <2>3. Cardinality(InPool \cup InHands) = Cardinality(InPool) + Cardinality(InHands)
    <3>1. Cardinality(InPool \cap InHands) = 0
      BY <2>1, FS_EmptySet
    <3>2. /\ IsFiniteSet(InPool) /\ IsFiniteSet(InHands)
          /\ Cardinality(InPool) \in Nat /\ Cardinality(InHands) \in Nat
      BY <2>2
    <3>3. Cardinality(InPool \cup InHands)
            = Cardinality(InPool) + Cardinality(InHands) - Cardinality(InPool \cap InHands)
      BY <3>2, FS_Union
    <3> QED BY <3>1, <3>2, <3>3
  <2>4. Cardinality(Tracked) = Cardinality(InPool \cup InHands) + Cardinality(told)
    <3>1. Cardinality((InPool \cup InHands) \cap told) = 0
      <4>1. (InPool \cup InHands) \cap told = {}
        BY <2>1
      <4> QED BY <4>1, FS_EmptySet
    <3>2. /\ IsFiniteSet(InPool \cup InHands) /\ IsFiniteSet(told)
          /\ Cardinality(InPool \cup InHands) \in Nat /\ Cardinality(told) \in Nat
      <4>1. (InPool \cup InHands) \subseteq Manager
        BY <2>2
      <4> QED BY <2>2, <4>1
    <3>3. Cardinality((InPool \cup InHands) \cup told)
            = Cardinality(InPool \cup InHands) + Cardinality(told)
                - Cardinality((InPool \cup InHands) \cap told)
      BY <3>2, FS_Union
    <3> QED BY <3>1, <3>2, <3>3 DEF Tracked
  <2>5. Accounted
    BY <1>1, <2>1, <2>3, <2>4 DEF Inv, Apart, Counted, Accounted, CloseReturns
  <2> QED BY <1>1, <2>5 DEF Inv, PoolSound
<1> QED BY <1>1, PoolInvariant, PTL
=============================================================================

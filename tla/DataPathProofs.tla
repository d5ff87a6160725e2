--------------------------- MODULE DataPathProofs ---------------------------
(***************************************************************************)
(* Proofs about DataPath: the state of a WebRTC manager, the window of its *)
(* data channel and the batches of its BatchSender, for any senders, water *)
(* marks and sizes.                                                        *)
(***************************************************************************)
EXTENDS DataPath, FiniteSetTheorems, TLAPS

\* Before pion has opened the channel, nobody has asked for a state that says
\* it has, except for the reconnection that ICE may ask for at any time: the
\* actor refuses that one then.
Up == {"WebRTCConnected", "WebRTCReconnecting", "WebRTCFailed"}

StateInv ==
    channel \in {"none", "offered"} =>
        /\ state \notin Up /\ actor \notin Up
        /\ \A i \in 1 .. Len(stateCh) : stateCh[i] \notin Up \ {"WebRTCReconnecting"}

\* Whoever has passed the test has a unit to add to the buffer.
Writers == {s \in Sender : loc[s] = "write"}

WindowInv == buffered + Cardinality(Writers) < High + Cardinality(Sender)

\* A buffer is in the pool, is the batch in the making or is dispatched by one
\* goroutine; the batch in the making ends with the last message accepted.
PlaceInv ==
    /\ pending \notin pool
    /\ \A s \in Caller : payload[s] \cap pool = {} /\ pending \notin payload[s]
    /\ \A s \in Caller : \A a, b \in payload[s] : a = b
    /\ \A s, t \in Caller : s # t => payload[s] \cap payload[t] = {}
    /\ \A s \in Caller : \A b \in payload[s] : content[b] # <<>>
    /\ <<>> \notin written \cup lost
    /\ count = Len(content[pending])
    /\ count > 0 => content[pending][count] = msgsIn

Inv == TypeOK /\ StateInv /\ WindowInv /\ PlaceInv /\ EachOnce

-----------------------------------------------------------------------------
(* Types *)

MachineType ==
    /\ state \in ConnectionState
    /\ stateCh \in Seq(ConnectionState) /\ Len(stateCh) <= QueueCap
    /\ actor \in ConnectionState \cup {"ready", "done"}
    /\ closeDone \in BOOLEAN
    /\ channel \in {"none", "offered", "open", "closed", "reported"}
    /\ swings \in 0 .. MaxSwings
WindowType ==
    /\ buffered \in Nat /\ resume \in BOOLEAN
    /\ loc \in [Sender -> {"out", "test", "drain", "retest", "wait", "write", "sent", "failed"}]

LEMMA TypesAreTypeOK ==
    /\ TypeOK <=> ManagerTypeOK /\ MachineType /\ WindowType /\ BatchTypeOK
    /\ TypeOK' <=> ManagerTypeOK' /\ MachineType' /\ WindowType' /\ BatchTypeOK'
BY DEF TypeOK, StateTypeOK, MachineType, WindowType

LEMMA States ==
    ConnectionState = {"Idle", "GatheringICE", "Connecting", "WebRTCConnected",
                       "WebRTCFailed", "WebRTCReconnecting", "TCPRelay", "Closing", "Closed"}
BY DEF ConnectionState, stateTransitions

\* Reconnecting follows a state of a channel that is or was up.
LEMMA OnlyFromUp ==
    ASSUME NEW from \in ConnectionState, isValidTransition(from, "WebRTCReconnecting")
    PROVE  from \in Up
<1>1. /\ ~isValidTransition("Idle", "WebRTCReconnecting")
      /\ ~isValidTransition("GatheringICE", "WebRTCReconnecting")
      /\ ~isValidTransition("Connecting", "WebRTCReconnecting")
      /\ ~isValidTransition("TCPRelay", "WebRTCReconnecting")
      /\ ~isValidTransition("Closing", "WebRTCReconnecting")
      /\ ~isValidTransition("Closed", "WebRTCReconnecting")
  BY DEF isValidTransition, stateTransitions
<1>2. QED
  BY <1>1, States DEF Up

-----------------------------------------------------------------------------
(* The state machine *)

LEMMA RequestedEffect ==
    ASSUME MachineType, NEW to \in ConnectionState, Requested(to)
    PROVE  /\ stateCh' \in Seq(ConnectionState) /\ Len(stateCh') <= QueueCap
           /\ \A i \in 1 .. Len(stateCh') :
                 \/ stateCh'[i] = to
                 \/ \E j \in 1 .. Len(stateCh) : stateCh'[i] = stateCh[j]
<1>1. CASE Len(stateCh) < QueueCap /\ stateCh' = Append(stateCh, to)
  BY <1>1, QueueCapAssumption DEF MachineType
<1>2. CASE UNCHANGED stateCh
  BY <1>2 DEF MachineType
<1>3. QED
  BY <1>1, <1>2 DEF Requested

LEMMA ActorKeeps ==
    ASSUME MachineType, StateInv, ActorLoads \/ ActorStores \/ ActorEnds
    PROVE  MachineType' /\ StateInv' /\ UNCHANGED <<window, managerVars>>
<1>1. CASE ActorLoads
  <2> DEFINE h == Head(stateCh)
             t == Tail(stateCh)
  <2>1. /\ stateCh # <<>> /\ stateCh' = t
        /\ actor' = IF isValidTransition(state, h) THEN h ELSE actor
        /\ UNCHANGED <<state, closeDone, channel, swings, window, managerVars>>
    BY <1>1 DEF ActorLoads
  <2>2. /\ Len(stateCh) \in Nat \ {0} /\ h = stateCh[1] /\ h \in ConnectionState
        /\ t \in Seq(ConnectionState) /\ Len(t) = Len(stateCh) - 1
        /\ \A i \in 1 .. Len(t) : t[i] = stateCh[i + 1]
    BY <2>1 DEF MachineType
  <2>3. Len(t) <= QueueCap
    BY <2>2, QueueCapAssumption DEF MachineType
  <2>. HIDE DEF h, t
  <2>4. MachineType'
    BY <2>1, <2>2, <2>3 DEF MachineType
  <2>5. ASSUME channel \in {"none", "offered"}
        PROVE  /\ actor' \notin Up
               /\ \A i \in 1 .. Len(t) : t[i] \notin Up \ {"WebRTCReconnecting"}
    <3>1. h \notin Up \ {"WebRTCReconnecting"} /\ state \notin Up /\ actor \notin Up
      BY <2>2, <2>5 DEF StateInv
    <3>2. h = "WebRTCReconnecting" => ~isValidTransition(state, h)
      BY <3>1, OnlyFromUp DEF MachineType
    <3>3. actor' \notin Up
      BY <2>1, <3>1, <3>2
    <3>4. \A i \in 1 .. Len(t) : i + 1 \in 1 .. Len(stateCh)
      BY <2>2
    <3>5. QED
      BY <2>2, <2>5, <3>3, <3>4 DEF StateInv
  <2>6. QED
    BY <2>1, <2>4, <2>5 DEF StateInv
<1>2. CASE ActorStores
  BY <1>2 DEF ActorStores, MachineType, StateInv, Up
<1>3. CASE ActorEnds
  BY <1>3 DEF ActorEnds, MachineType, StateInv, Up
<1>4. QED
  BY <1>1, <1>2, <1>3

LEMMA CloseKeeps ==
    ASSUME ManagerTypeOK, MachineType, StateInv, CloseBegins \/ CloseFrees \/ CloseMarks
    PROVE  ManagerTypeOK' /\ MachineType' /\ StateInv' /\ UNCHANGED window
<1>0. mgr \in Manager /\ "Closing" \in ConnectionState /\ "Closed" \in ConnectionState
  BY MgrAssumption, States
<1>1. CASE CloseBegins
  <2>1. PICK who \in {"itself", "owner"} : BeginClose(mgr, who)
    BY <1>1 DEF CloseBegins
  <2>2. ManagerTypeOK'
    BY <1>0, <2>1 DEF BeginClose, ManagerTypeOK, ice
  <2>3. QED
    BY <1>0, <1>1, <2>2 DEF CloseBegins, MachineType, StateInv, Up
<1>2. CASE CloseFrees
  <2>1. ManagerTypeOK'
    BY <1>0, <1>2 DEF CloseFrees, TearDown, ManagerTypeOK, ice
  <2>2. QED
    BY <1>2, <2>1 DEF CloseFrees, MachineType, StateInv
<1>3. CASE CloseMarks
  BY <1>0, <1>3
     DEF CloseMarks, MachineType, StateInv, Up, ManagerTypeOK, managerVars, closing, ice
<1>4. QED
  BY <1>1, <1>2, <1>3

\* The other steps only ask for a transition.
LEMMA AskKeeps ==
    ASSUME MachineType, StateInv, NEW to \in ConnectionState, Requested(to),
           channel' \in {"none", "offered", "open", "closed", "reported"},
           channel' \in {"none", "offered"} =>
              channel \in {"none", "offered"} /\ to \notin Up \ {"WebRTCReconnecting"},
           swings' \in 0 .. MaxSwings, UNCHANGED <<state, actor, closeDone>>
    PROVE  MachineType' /\ StateInv'
<1>1. MachineType'
  BY RequestedEffect DEF MachineType
<1>2. StateInv'
  BY RequestedEffect DEF StateInv
<1>3. QED
  BY <1>1, <1>2

LEMMA StateNextKeeps ==
    ASSUME ManagerTypeOK, MachineType, StateInv, StateNext
    PROVE  ManagerTypeOK' /\ MachineType' /\ StateInv' /\ UNCHANGED window
<1>0. /\ mgr \in Manager
      /\ {"GatheringICE", "Connecting", "WebRTCConnected", "WebRTCReconnecting", "Closing"}
             \subseteq ConnectionState
  BY MgrAssumption, States
<1>1. CASE ActorLoads \/ ActorStores \/ ActorEnds
  <2>1. MachineType' /\ StateInv' /\ UNCHANGED <<window, managerVars>>
    BY <1>1, ActorKeeps
  <2>2. QED
    BY <2>1 DEF ManagerTypeOK, managerVars, closing, ice
<1>2. CASE CloseBegins \/ CloseFrees \/ CloseMarks
  BY <1>2, CloseKeeps
<1>3. CASE Creates
  <2>1. ManagerTypeOK'
    BY <1>0, <1>3 DEF Creates, CreatePeer, ManagerTypeOK, closing, ice
  <2>2. QED
    BY <1>3, <2>1 DEF Creates, machine, MachineType, StateInv
<1>4. CASE Offers
  <2>1. ManagerTypeOK' /\ UNCHANGED window
    BY <1>4 DEF Offers, OfferMade, ManagerTypeOK, managerVars, closing, ice
  <2>2. QED
    BY <1>0, <1>4, <2>1, AskKeeps DEF Offers, MachineType, Up
<1>5. CASE Answers
  <2>1. ManagerTypeOK'
    BY <1>0, <1>5
       DEF Answers, MarkRemote, RemoteRefused, RemoteAccepted, ManagerTypeOK, closing
  <2>2. QED
    BY <1>5, <2>1 DEF Answers, machine, MachineType, StateInv
<1>6. CASE Answered
  <2>1. ManagerTypeOK' /\ UNCHANGED window
    BY <1>0, <1>6 DEF Answered, FlushPending, ManagerTypeOK, closing
  <2>2. QED
    BY <1>0, <1>6, <2>1, AskKeeps DEF Answered, MachineType, Up
<1>7. CASE ChannelOpens \/ IceDisconnected \/ PeerClosed
  <2>1. ManagerTypeOK' /\ UNCHANGED window
    BY <1>7 DEF ChannelOpens, IceDisconnected, PeerClosed, ManagerTypeOK, managerVars,
                closing, ice
  <2>2. CASE ChannelOpens
    BY <1>0, <2>1, <2>2, AskKeeps DEF ChannelOpens, MachineType
  <2>3. CASE IceDisconnected
    BY <1>0, <2>1, <2>3, AskKeeps, MaxSwingsAssumption DEF IceDisconnected, MachineType, Up
  <2>4. CASE PeerClosed
    BY <1>0, <2>1, <2>4, AskKeeps DEF PeerClosed, MachineType
  <2>5. QED
    BY <1>7, <2>1, <2>2, <2>3, <2>4
<1>8. QED
  BY <1>1, <1>2, <1>3, <1>4, <1>5, <1>6, <1>7 DEF StateNext

-----------------------------------------------------------------------------
(* The window of the data channel *)

LEMMA WritersFinite ==
    ASSUME WindowType
    PROVE  /\ IsFiniteSet(Writers) /\ IsFiniteSet(Sender) /\ Writers \subseteq Sender
           /\ Cardinality(Writers) \in Nat /\ Cardinality(Sender) \in Nat
           /\ Cardinality(Writers) <= Cardinality(Sender)
           /\ High \in Nat
<1>1. IsFiniteSet(Sender) /\ Writers \subseteq Sender
  BY SenderAssumption DEF Writers
<1>2. IsFiniteSet(Writers) /\ Cardinality(Writers) <= Cardinality(Sender)
  BY <1>1, FS_Subset
<1>3. QED
  BY <1>1, <1>2, FS_CardinalityType, MarksAssumption

\* A goroutine that passes the test finds the buffer below the high mark.
LEMMA PassKeeps ==
    ASSUME WindowType, WindowType', UNCHANGED buffered, buffered < High
    PROVE  WindowInv'
<1>1. /\ Cardinality(Writers') \in Nat /\ Cardinality(Sender) \in Nat
      /\ Cardinality(Writers') <= Cardinality(Sender)
  <2>1. IsFiniteSet(Sender) /\ Writers' \subseteq Sender
    BY SenderAssumption DEF Writers
  <2>2. IsFiniteSet(Writers') /\ Cardinality(Writers') <= Cardinality(Sender)
    BY <2>1, FS_Subset
  <2>3. QED
    BY <2>1, <2>2, FS_CardinalityType
<1>2. QED
  BY <1>1, MarksAssumption DEF WindowInv, WindowType

LEMMA LeaveKeeps ==
    ASSUME WindowType, WindowInv, NEW s \in Sender,
           Writers' = Writers \ {s}, buffered' \in Nat,
           buffered' <= buffered \/ (buffered' = buffered + 1 /\ s \in Writers)
    PROVE  WindowInv'
<1>0. buffered \in Nat /\ buffered' \in Nat
  BY DEF WindowType
<1>1. CASE s \in Writers
  <2>1. Cardinality(Writers') = Cardinality(Writers) - 1
    BY <1>1, WritersFinite, FS_RemoveElement
  <2>2. QED
    BY <1>0, <2>1, WritersFinite DEF WindowInv
<1>2. CASE s \notin Writers
  <2>1. Writers' = Writers /\ buffered' <= buffered
    BY <1>2
  <2>2. Cardinality(Writers') = Cardinality(Writers)
    BY <2>1
  <2>3. QED
    BY <1>0, <2>1, <2>2, WritersFinite DEF WindowInv
<1>3. QED
  BY <1>1, <1>2

\* Nobody who goes elsewhere writes.
LEMMA GoesEffect ==
    ASSUME WindowType, NEW s \in Sender, NEW from,
           NEW to \in {"out", "test", "drain", "retest", "wait", "write", "sent", "failed"},
           Goes(s, from, to)
    PROVE  /\ loc' \in [Sender -> {"out", "test", "drain", "retest", "wait", "write", "sent",
                                   "failed"}]
           /\ to # "write" => Writers' = Writers \ {s}
           /\ loc[s] = from
BY DEF Goes, WindowType, Writers

\* ... and the buffer of one who goes elsewhere stays as it is.
LEMMA StayKeeps ==
    ASSUME WindowType, WindowInv, NEW s \in Sender, Writers' = Writers \ {s},
           UNCHANGED buffered
    PROVE  WindowInv'
<1>1. buffered' \in Nat /\ buffered' <= buffered
  BY DEF WindowType
<1>2. QED
  BY <1>1, LeaveKeeps

LEMMA CallKeeps ==
    ASSUME WindowType, WindowInv, NEW s \in Sender, Begins(s) \/ Continues(s)
    PROVE  WindowType' /\ WindowInv'
<1>1. CASE Begins(s)
  <2>1. Goes(s, "out", IF peer[mgr] = "held" THEN "test" ELSE "failed")
        /\ UNCHANGED <<buffered, resume>>
    BY <1>1 DEF Begins, SendData
  <2>2. WindowType' /\ Writers' = Writers \ {s}
    BY <2>1, GoesEffect DEF WindowType
  <2>3. QED
    BY <2>1, <2>2, StayKeeps
<1>2. CASE Tests(s)
  <2>1. CASE Goes(s, "test", IF Full THEN "drain" ELSE "write") /\ UNCHANGED resume
    <3>0. UNCHANGED buffered
      BY <1>2 DEF Tests
    <3>1. CASE Full
      <4>1. Goes(s, "test", "drain")
        BY <2>1, <3>1
      <4>2. WindowType' /\ Writers' = Writers \ {s}
        BY <2>1, <3>0, <4>1, GoesEffect DEF WindowType
      <4>3. QED
        BY <3>0, <4>2, StayKeeps
    <3>2. CASE ~Full
      <4>1. Goes(s, "test", "write")
        BY <2>1, <3>2
      <4>2. WindowType'
        BY <2>1, <3>0, <4>1, GoesEffect DEF WindowType
      <4>3. buffered < High
        BY <3>2, MarksAssumption DEF Full, WindowType
      <4>4. QED
        BY <3>0, <4>2, <4>3, PassKeeps
    <3>3. QED
      BY <3>1, <3>2
  <2>2. CASE Goes(s, "drain", "retest") /\ resume' = FALSE
    <3>0. UNCHANGED buffered
      BY <1>2 DEF Tests
    <3>1. WindowType' /\ Writers' = Writers \ {s}
      BY <2>2, <3>0, GoesEffect DEF WindowType
    <3>2. QED
      BY <3>0, <3>1, StayKeeps
  <2>3. CASE Goes(s, "retest", IF Full THEN "wait" ELSE "write") /\ UNCHANGED resume
    <3>0. UNCHANGED buffered
      BY <1>2 DEF Tests
    <3>1. CASE Full
      <4>1. Goes(s, "retest", "wait")
        BY <2>3, <3>1
      <4>2. WindowType' /\ Writers' = Writers \ {s}
        BY <2>3, <3>0, <4>1, GoesEffect DEF WindowType
      <4>3. QED
        BY <3>0, <4>2, StayKeeps
    <3>2. CASE ~Full
      <4>1. Goes(s, "retest", "write")
        BY <2>3, <3>2
      <4>2. WindowType'
        BY <2>3, <3>0, <4>1, GoesEffect DEF WindowType
      <4>3. buffered < High
        BY <3>2, MarksAssumption DEF Full, WindowType
      <4>4. QED
        BY <3>0, <4>2, <4>3, PassKeeps
    <3>3. QED
      BY <3>1, <3>2
  <2>4. QED
    BY <1>2, <2>1, <2>2, <2>3 DEF Tests
<1>3. CASE Woken(s) \/ TimesOut(s)
  <2>1. /\ Goes(s, "wait", "test") \/ Goes(s, "wait", "failed")
        /\ UNCHANGED buffered /\ resume' \in BOOLEAN
    BY <1>3 DEF Woken, TimesOut, WindowType
  <2>2. WindowType' /\ Writers' = Writers \ {s}
    BY <2>1, GoesEffect DEF WindowType
  <2>3. QED
    BY <2>1, <2>2, StayKeeps
<1>4. CASE Writes(s)
  <2>1. /\ Goes(s, "write", IF channel = "open" THEN "sent" ELSE "failed")
        /\ buffered' \in {buffered, buffered + 1} /\ UNCHANGED resume
    BY <1>4 DEF Writes
  <2>2. buffered' \in Nat /\ s \in Writers
    BY <2>1 DEF WindowType, Goes, Writers
  <2>3. WindowType' /\ Writers' = Writers \ {s}
    BY <2>1, <2>2, GoesEffect DEF WindowType
  <2>4. QED
    BY <2>1, <2>2, <2>3, LeaveKeeps DEF WindowType
<1>5. QED
  BY <1>1, <1>2, <1>3, <1>4 DEF Continues

LEMMA DrainsKeeps ==
    ASSUME WindowType, WindowInv, Drains
    PROVE  WindowType' /\ WindowInv'
<1>1. /\ buffered > 0 /\ buffered' = buffered - 1 /\ UNCHANGED loc
      /\ resume' = (resume \/ buffered - 1 = Low)
  BY DEF Drains
<1>2. WindowType'
  BY <1>1 DEF WindowType
<1>3. Writers' = Writers
  BY <1>1 DEF Writers
<1>4. QED
  BY <1>1, <1>2, <1>3, WritersFinite DEF WindowInv, WindowType

-----------------------------------------------------------------------------
(* Batches *)

Msgs == Seq(Msg)

\* EachOnce, of any set of batches.
Exact(batches, n) ==
    /\ UNION {Members(b) : b \in batches} = 1 .. n
    /\ \A b \in batches : \A i \in DOMAIN b : b[i] = b[1] + i - 1
    /\ \A a, b \in batches : a # b => Members(a) \cap Members(b) = {}

Held == {pending} \cup UNION {payload[s] : s \in Caller}
Batches == {content[b] : b \in Held} \cup written \cup lost

Apart ==
    /\ \A a, b \in Held : a # b => content[a] # content[b]
    /\ {content[b] : b \in Held} \cap (written \cup lost) = {}
    /\ written \cap lost = {}

LEMMA EachOnceParts ==
    /\ EachOnce <=> Exact(Batches, msgsIn) /\ Apart
    /\ EachOnce' <=> Exact(Batches', msgsIn') /\ Apart'
BY DEF EachOnce, Exact, Batches, Held, Apart

LEMMA EmptyMembers == Members(<<>>) = {}
BY DEF Members

LEMMA AppendMembers ==
    ASSUME NEW b \in Msgs, NEW m \in Msg
    PROVE  /\ Append(b, m) \in Msgs /\ Append(b, m) # <<>>
           /\ Len(Append(b, m)) = Len(b) + 1
           /\ \A i \in 1 .. Len(b) : Append(b, m)[i] = b[i]
           /\ Append(b, m)[Len(b) + 1] = m
           /\ DOMAIN b = 1 .. Len(b) /\ DOMAIN Append(b, m) = 1 .. Len(b) + 1
           /\ Members(Append(b, m)) = Members(b) \cup {m}
<1> DEFINE c == Append(b, m)
<1>1. /\ c \in Msgs /\ c # <<>> /\ Len(b) \in Nat /\ Len(c) = Len(b) + 1
      /\ \A i \in 1 .. Len(b) : c[i] = b[i]
      /\ c[Len(b) + 1] = m
      /\ DOMAIN b = 1 .. Len(b) /\ DOMAIN c = 1 .. Len(b) + 1
  BY DEF Msgs
<1>. HIDE DEF c
<1>2. Members(c) = Members(b) \cup {m}
  <2>1. \A i \in DOMAIN c : i = Len(b) + 1 \/ i \in DOMAIN b
    BY <1>1
  <2>2. DOMAIN b \subseteq DOMAIN c /\ Len(b) + 1 \in DOMAIN c
    BY <1>1
  <2>3. QED
    BY <1>1, <2>1, <2>2 DEF Members
<1>3. QED
  BY <1>1, <1>2 DEF c

\* The next message goes to the batch that has the last one, or to an empty one.
LEMMA GrowExact ==
    ASSUME NEW B \in SUBSET Msgs, NEW n \in Nat, n + 1 \in Msg, Exact(B, n),
           NEW b \in B, b # <<>> => b[Len(b)] = n
    PROVE  Exact((B \ {b}) \cup {Append(b, n + 1)}, n + 1)
<1> DEFINE c == Append(b, n + 1)
           C == (B \ {b}) \cup {c}
<1>0. b \in Msgs
  OBVIOUS
<1>1. /\ Members(c) = Members(b) \cup {n + 1} /\ c \in Msgs
      /\ \A i \in 1 .. Len(b) : c[i] = b[i]
      /\ c[Len(b) + 1] = n + 1 /\ DOMAIN b = 1 .. Len(b) /\ DOMAIN c = 1 .. Len(b) + 1
      /\ Len(b) \in Nat
  <2>1. Len(b) \in Nat
    BY <1>0 DEF Msgs
  <2>2. QED
    BY <1>0, <2>1, AppendMembers
<1>. HIDE DEF c
<1>2. \A a \in B : Members(a) \subseteq 1 .. n
  BY DEF Exact
<1>3. UNION {Members(a) : a \in C} = 1 .. n + 1
  <2>1. UNION {Members(a) : a \in C} = (UNION {Members(a) : a \in B}) \cup {n + 1}
    BY <1>1
  <2>2. (1 .. n) \cup {n + 1} = 1 .. n + 1
    OBVIOUS
  <2>3. QED
    BY <2>1, <2>2 DEF Exact
<1>4. ASSUME NEW a \in C, NEW i \in DOMAIN a PROVE a[i] = a[1] + i - 1
  <2>1. CASE a \in B
    BY <2>1, <1>4 DEF Exact
  <2>2. CASE a = c /\ i \in 1 .. Len(b)
    <3>1. i \in DOMAIN b /\ 1 \in 1 .. Len(b)
      BY <1>1, <2>2
    <3>2. b[i] = b[1] + i - 1
      BY <3>1 DEF Exact
    <3>3. QED
      BY <1>1, <2>2, <3>1, <3>2
  <2>3. CASE a = c /\ i = Len(b) + 1
    <3>1. CASE Len(b) = 0
      BY <1>1, <2>3, <3>1
    <3>2. CASE Len(b) # 0
      <4>1. b # <<>> /\ Len(b) \in DOMAIN b /\ 1 \in 1 .. Len(b)
        BY <1>0, <1>1, <3>2 DEF Msgs
      <4>2. n = b[1] + Len(b) - 1
        BY <4>1 DEF Exact
      <4>3. c[1] = b[1]
        BY <1>1, <4>1
      <4>4. b[1] \in Nat
        <5>1. b[1] \in Msg
          BY <1>0, <4>1 DEF Msgs
        <5>2. QED
          BY <5>1 DEF Msg
      <4>5. QED
        BY <1>1, <2>3, <4>2, <4>3, <4>4
    <3>3. QED
      BY <3>1, <3>2
  <2>4. QED
    BY <1>1, <1>4, <2>1, <2>2, <2>3
<1>5. ASSUME NEW a \in C, NEW d \in C, a # d PROVE Members(a) \cap Members(d) = {}
  <2>1. n + 1 \notin 1 .. n
    OBVIOUS
  <2>2. ASSUME NEW e \in B \ {b} PROVE Members(e) \cap Members(c) = {}
    BY <1>1, <1>2, <2>1 DEF Exact
  <2>3. QED
    BY <1>5, <2>2 DEF Exact
<1>6. QED
  BY <1>3, <1>4, <1>5 DEF Exact, c

LEMMA AddEmpty ==
    ASSUME NEW B, NEW n, Exact(B, n)
    PROVE  Exact(B \cup {<<>>}, n)
<1>1. DOMAIN <<>> = {}
  OBVIOUS
<1>2. UNION {Members(b) : b \in B \cup {<<>>}} = UNION {Members(b) : b \in B}
  BY EmptyMembers
<1>3. QED
  BY <1>1, <1>2, EmptyMembers DEF Exact

-----------------------------------------------------------------------------
(* The BatchSender *)

BatchInv == BatchTypeOK /\ PlaceInv /\ EachOnce

LEMMA BatchFacts ==
    ASSUME BatchInv
    PROVE  /\ Held \subseteq Buffer /\ Batches \in SUBSET Msgs
           /\ pending \in Held /\ \A s \in Caller : payload[s] \subseteq Held
           /\ \A b \in Held : content[b] \in Batches
           /\ content[pending] \in Msgs /\ DOMAIN content[pending] = 1 .. count
           /\ msgsIn \in Nat /\ count \in Nat
           /\ Exact(Batches, msgsIn) /\ Apart
<1>1. Held \subseteq Buffer
  BY DEF BatchInv, BatchTypeOK, Held
<1>2. Batches \in SUBSET Msgs
  BY <1>1 DEF BatchInv, BatchTypeOK, Batches, Msgs
<1>3. pending \in Held /\ \A s \in Caller : payload[s] \subseteq Held
  BY DEF Held
<1>4. \A b \in Held : content[b] \in Batches
  BY DEF Batches
<1>5. content[pending] \in Msgs /\ DOMAIN content[pending] = 1 .. count
  BY DEF BatchInv, BatchTypeOK, PlaceInv, Msgs
<1>6. msgsIn \in Nat /\ count \in Nat
  BY BatchAssumption DEF BatchInv, BatchTypeOK
<1>7. Exact(Batches, msgsIn) /\ Apart
  BY EachOnceParts DEF BatchInv
<1>8. QED
  BY <1>1, <1>2, <1>3, <1>4, <1>5, <1>6, <1>7

\* The batch taken for dispatch is bs instead of what the buffer holds.
LEMMA TakeKeeps ==
    ASSUME BatchInv, NEW s \in Caller, payload[s] = NoBatch, NEW bs \in Msgs, bs # <<>>,
           Take(s, bs), msgsIn' \in 0 .. MaxMsgs, UNCHANGED <<written, lost>>,
           Exact((Batches \ {content[pending]}) \cup {bs}, msgsIn'),
           bs \notin Batches \ {content[pending]}
    PROVE  BatchInv'
<1>1. PICK b \in Buffer :
          /\ b \in pool /\ pool' = pool \ {b}
          /\ content' = [content EXCEPT ![pending] = bs, ![b] = <<>>]
          /\ payload' = [payload EXCEPT ![s] = {pending}]
          /\ pending' = b /\ count' = 0
  BY DEF Take, GetBuffer
<1>2. /\ b \notin Held /\ b # pending /\ pending \notin pool
      /\ \A t \in Caller : payload[t] \subseteq Held \ {pending}
  BY <1>1, BatchFacts DEF BatchInv, PlaceInv, Held
<1>3. /\ content'[pending] = bs /\ content'[b] = <<>>
      /\ \A h \in Held \ {pending} : content'[h] = content[h]
      /\ content' \in [Buffer -> Seq(Msg)]
  <2>1. content \in [Buffer -> Seq(Msg)] /\ pending \in Buffer /\ Held \subseteq Buffer
    BY BatchFacts DEF BatchInv, BatchTypeOK
  <2>2. bs \in Seq(Msg) /\ <<>> \in Seq(Msg)
    BY DEF Msgs
  <2>3. QED
    BY <1>1, <1>2, <2>1, <2>2
<1>4. /\ payload'[s] = {pending} /\ \A t \in Caller \ {s} : payload'[t] = payload[t]
      /\ payload' \in [Caller -> SUBSET Buffer]
  BY <1>1 DEF BatchInv, BatchTypeOK
<1>5. Held' = Held \cup {b}
  <2>1. Held = {pending} \cup UNION {payload[t] : t \in Caller \ {s}}
    BY DEF Held, NoBatch
  <2>2. Held' = {b} \cup payload'[s] \cup UNION {payload'[t] : t \in Caller \ {s}}
    BY <1>1 DEF Held
  <2>3. QED
    BY <1>4, <2>1, <2>2
<1>6. \A h \in Held \ {pending} : content[h] # <<>>
  BY DEF BatchInv, PlaceInv, Held
<1>7. BatchTypeOK'
  BY <1>1, <1>3, <1>4, BatchAssumption DEF BatchInv, BatchTypeOK
<1>8. PlaceInv'
  <2>1. pending' \notin pool' /\ <<>> \notin (written \cup lost)'
    BY <1>1 DEF BatchInv, PlaceInv
  <2>2. \A t \in Caller : payload'[t] \cap pool' = {} /\ pending' \notin payload'[t]
    BY <1>1, <1>2, <1>4 DEF BatchInv, PlaceInv
  <2>3. \A t \in Caller : \A x, y \in payload'[t] : x = y
    BY <1>4 DEF BatchInv, PlaceInv
  <2>4. \A t, u \in Caller : t # u => payload'[t] \cap payload'[u] = {}
    BY <1>2, <1>4 DEF BatchInv, PlaceInv
  <2>5. \A t \in Caller : \A x \in payload'[t] : content'[x] # <<>>
    BY <1>2, <1>3, <1>4, <1>6
  <2>6. count' = 0 /\ Len(content'[pending']) = 0
    BY <1>1, <1>3
  <2>7. QED
    BY <2>1, <2>2, <2>3, <2>4, <2>5, <2>6 DEF PlaceInv
<1>9. Batches' = ((Batches \ {content[pending]}) \cup {bs}) \cup {<<>>}
  <2>1. Batches \ {content[pending]}
            = {content[h] : h \in Held \ {pending}} \cup written \cup lost
    BY BatchFacts DEF Batches, Apart
  <2>2. Batches' = {content'[h] : h \in Held \ {pending}} \cup {bs, <<>>} \cup written \cup lost
    BY <1>3, <1>5, BatchFacts DEF Batches
  <2>3. {content'[h] : h \in Held \ {pending}} = {content[h] : h \in Held \ {pending}}
    BY <1>3
  <2>4. QED
    BY <2>1, <2>2, <2>3
<1>10. Exact(Batches', msgsIn')
  BY <1>9, AddEmpty
<1>11. Apart'
  <2>1. \A h \in Held \ {pending} : content[h] \in Batches \ {content[pending]}
    BY BatchFacts DEF Apart
  <2>2. written \cup lost \subseteq Batches \ {content[pending]}
    BY BatchFacts DEF Apart, Batches
  <2>3. \A h, k \in Held' : h # k => content'[h] # content'[k]
    BY <1>3, <1>5, <1>6, <2>1, BatchFacts DEF Apart
  <2>4. \A h \in Held' : content'[h] \notin written \cup lost
    <3>1. <<>> \notin written \cup lost
      BY DEF BatchInv, PlaceInv
    <3>2. \A h \in Held \ {pending} : content[h] \notin written \cup lost
      BY BatchFacts DEF Apart
    <3>3. QED
      BY <1>3, <1>5, <2>2, <3>1, <3>2
  <2>5. QED
    BY <2>3, <2>4, BatchFacts DEF Apart
<1>12. QED
  BY <1>7, <1>8, <1>10, <1>11, EachOnceParts DEF BatchInv

\* The next message, behind the others of the batch in the making.
LEMMA NextMessage ==
    ASSUME BatchInv, msgsIn < MaxMsgs
    PROVE  LET batch == Append(content[pending], msgsIn + 1) IN
           /\ batch \in Msgs /\ batch # <<>>
           /\ batch \notin Batches
           /\ Exact((Batches \ {content[pending]}) \cup {batch}, msgsIn + 1)
<1> DEFINE c == content[pending]
           n == msgsIn
<1>1. c \in Msgs /\ c \in Batches /\ Batches \in SUBSET Msgs /\ n \in Nat
  BY BatchFacts
<1>2. n + 1 \in Msg /\ n + 1 \in Nat
  BY <1>1, BatchAssumption DEF Msg
<1>3. c # <<>> => c[Len(c)] = n
  <2>1. count = Len(c)
    BY DEF BatchInv, PlaceInv
  <2>2. c # <<>> => count > 0
    BY <1>1, <2>1 DEF Msgs
  <2>3. QED
    BY <2>1, <2>2 DEF BatchInv, PlaceInv
<1>4. Exact(Batches, n)
  BY BatchFacts
<1>. HIDE DEF c, n
<1>5. Exact((Batches \ {c}) \cup {Append(c, n + 1)}, n + 1)
  BY <1>1, <1>2, <1>3, <1>4, GrowExact
<1>6. Append(c, n + 1) \in Msgs /\ Append(c, n + 1) # <<>>
      /\ n + 1 \in Members(Append(c, n + 1))
  BY <1>1, <1>2, AppendMembers
<1>7. \A b \in Batches : n + 1 \notin Members(b)
  BY <1>1, <1>4 DEF Exact
<1>8. QED
  BY <1>5, <1>6, <1>7 DEF c, n

LEMMA SendKeeps ==
    ASSUME BatchInv, NEW s \in Caller, Send(s)
    PROVE  BatchInv'
<1> DEFINE batch == Append(content[pending], msgsIn + 1)
<1>1. /\ payload[s] = NoBatch /\ msgsIn < MaxMsgs /\ msgsIn' = msgsIn + 1
      /\ UNCHANGED <<written, lost>>
  BY DEF Send
<1>2. /\ batch \in Msgs /\ batch # <<>> /\ batch \notin Batches
      /\ Exact((Batches \ {content[pending]}) \cup {batch}, msgsIn')
  BY <1>1, NextMessage
<1>3. msgsIn' \in 0 .. MaxMsgs
  BY <1>1, BatchFacts, BatchAssumption
<1>4. CASE Take(s, batch)
  <2>. HIDE DEF batch
  <2>1. QED
    BY <1>1, <1>2, <1>3, <1>4, TakeKeeps
<1>5. CASE /\ count + 1 < MaxBatchCount
           /\ count' = count + 1
           /\ content' = [content EXCEPT ![pending] = batch]
           /\ UNCHANGED <<pool, pending, payload>>
  <2>0. Len(batch) = count + 1 /\ batch[count + 1] = msgsIn + 1
    <3>1. msgsIn + 1 \in Msg
      BY <1>1, BatchFacts, BatchAssumption DEF Msg
    <3>2. Len(content[pending]) = count /\ content[pending] \in Msgs
      BY BatchFacts DEF BatchInv, PlaceInv
    <3>3. QED
      BY <3>1, <3>2, AppendMembers
  <2>. HIDE DEF batch
  <2>1. /\ content'[pending] = batch
        /\ \A h \in Held \ {pending} : content'[h] = content[h]
        /\ content' \in [Buffer -> Seq(Msg)]
    <3>1. content \in [Buffer -> Seq(Msg)] /\ pending \in Buffer /\ Held \subseteq Buffer
      BY BatchFacts DEF BatchInv, BatchTypeOK
    <3>2. batch \in Seq(Msg)
      BY <1>2 DEF Msgs
    <3>3. QED
      BY <1>5, <3>1, <3>2
  <2>2. Held' = Held
    BY <1>5 DEF Held
  <2>3. count' \in 0 .. MaxBatchCount
    BY <1>5, BatchFacts, BatchAssumption
  <2>4. BatchTypeOK'
    BY <1>1, <1>3, <1>5, <2>1, <2>3 DEF BatchInv, BatchTypeOK
  <2>5. PlaceInv'
    <3>1. \A t \in Caller : \A b \in payload[t] : content'[b] # <<>>
      <4>1. \A t \in Caller : payload[t] \subseteq Held \ {pending}
        BY BatchFacts DEF BatchInv, PlaceInv
      <4>2. QED
        BY <2>1, <4>1 DEF BatchInv, PlaceInv
    <3>2. Len(content'[pending]) = count' /\ content'[pending][count'] = msgsIn'
      BY <1>1, <1>5, <2>0, <2>1
    <3>3. QED
      BY <1>1, <1>5, <3>1, <3>2 DEF BatchInv, PlaceInv
  <2>6. Batches' = (Batches \ {content[pending]}) \cup {batch}
    <3>1. Batches \ {content[pending]}
              = {content[h] : h \in Held \ {pending}} \cup written \cup lost
      BY BatchFacts DEF Batches, Apart
    <3>2. Batches' = {content'[h] : h \in Held \ {pending}} \cup {batch} \cup written \cup lost
      BY <1>1, <2>1, <2>2, BatchFacts DEF Batches
    <3>3. {content'[h] : h \in Held \ {pending}} = {content[h] : h \in Held \ {pending}}
      BY <2>1
    <3>4. QED
      BY <3>1, <3>2, <3>3
  <2>7. Apart'
    <3>1. \A h \in Held \ {pending} : content[h] # batch
      BY <1>2, BatchFacts
    <3>2. batch \notin written \cup lost
      BY <1>2 DEF Batches
    <3>3. \A h, k \in Held' : h # k => content'[h] # content'[k]
      BY <2>1, <2>2, <3>1, BatchFacts DEF Apart
    <3>4. \A h \in Held' : content'[h] \notin written \cup lost
      BY <2>1, <2>2, <3>2, BatchFacts DEF Apart
    <3>5. QED
      BY <1>1, <3>3, <3>4, BatchFacts DEF Apart
  <2>8. QED
    BY <1>2, <2>4, <2>5, <2>6, <2>7, EachOnceParts DEF BatchInv
<1>6. QED
  BY <1>4, <1>5 DEF Send

LEMMA FlushKeeps ==
    ASSUME BatchInv, NEW s \in Caller, Flush(s)
    PROVE  BatchInv'
<1> DEFINE c == content[pending]
<1>1. /\ payload[s] = NoBatch /\ count > 0 /\ Take(s, c)
      /\ UNCHANGED <<msgsIn, written, lost>>
  BY DEF Flush
<1>2. c \in Msgs /\ c \in Batches /\ Exact(Batches, msgsIn) /\ count = Len(c)
  BY BatchFacts DEF BatchInv, PlaceInv
<1>3. c # <<>>
  BY <1>1, <1>2
<1>4. (Batches \ {c}) \cup {c} = Batches /\ msgsIn' \in 0 .. MaxMsgs
  BY <1>1, <1>2 DEF BatchInv, BatchTypeOK
<1>5. /\ Exact((Batches \ {content[pending]}) \cup {c}, msgsIn')
      /\ c \notin Batches \ {content[pending]}
  BY <1>1, <1>2, <1>4
<1>. HIDE DEF c
<1>6. QED
  BY <1>1, <1>2, <1>3, <1>4, <1>5, TakeKeeps

LEMMA DispatchedKeeps ==
    ASSUME BatchInv, NEW s \in Caller, NEW ok \in BOOLEAN, Dispatched(s, ok)
    PROVE  BatchInv'
<1>1. PICK b \in payload[s] :
          /\ written' = IF ok THEN written \cup {content[b]} ELSE written
          /\ lost' = IF ok THEN lost ELSE lost \cup {content[b]}
          /\ pool' = pool \cup {b}
          /\ payload' = [payload EXCEPT ![s] = NoBatch]
          /\ UNCHANGED <<content, pending, count, msgsIn>>
  BY DEF Dispatched
<1>2. /\ payload[s] = {b} /\ b \in Buffer /\ b \in Held /\ b # pending
      /\ content[b] # <<>> /\ content[b] \in Seq(Msg)
  BY BatchFacts DEF BatchInv, PlaceInv, BatchTypeOK
<1>3. /\ payload'[s] = {} /\ \A t \in Caller \ {s} : payload'[t] = payload[t]
      /\ payload' \in [Caller -> SUBSET Buffer]
  BY <1>1 DEF BatchInv, BatchTypeOK, NoBatch
<1>4. \A t \in Caller \ {s} : b \notin payload[t]
  BY <1>2 DEF BatchInv, PlaceInv
<1>5. Held' = Held \ {b}
  <2>1. Held = {pending} \cup {b} \cup UNION {payload[t] : t \in Caller \ {s}}
    BY <1>2 DEF Held
  <2>2. Held' = {pending} \cup UNION {payload'[t] : t \in Caller \ {s}}
    BY <1>1, <1>3 DEF Held
  <2>3. QED
    BY <1>2, <1>3, <1>4, <2>1, <2>2
<1>6. written' \cup lost' = (written \cup lost) \cup {content[b]}
  BY <1>1
<1>7. BatchTypeOK'
  BY <1>1, <1>2, <1>3 DEF BatchInv, BatchTypeOK
<1>8. PlaceInv'
  <2>1. pending' \notin pool' /\ <<>> \notin written' \cup lost'
    BY <1>1, <1>2, <1>6 DEF BatchInv, PlaceInv
  <2>2. \A t \in Caller : payload'[t] \cap pool' = {} /\ pending' \notin payload'[t]
    BY <1>1, <1>3, <1>4 DEF BatchInv, PlaceInv
  <2>3. \A t \in Caller : payload'[t] \subseteq payload[t]
    BY <1>3
  <2>4. QED
    BY <1>1, <2>1, <2>2, <2>3 DEF BatchInv, PlaceInv
<1>9. Batches' = Batches
  <2>1. Batches' = {content[h] : h \in Held \ {b}} \cup (written' \cup lost')
    BY <1>1, <1>5 DEF Batches
  <2>2. QED
    BY <1>2, <1>6, <2>1 DEF Batches
<1>10. Apart'
  <2>1. \A h \in Held' : content[h] # content[b] /\ content[h] \notin written \cup lost
    BY <1>2, <1>5, BatchFacts DEF Apart
  <2>2. content[b] \notin written \cup lost
    BY <1>2, BatchFacts DEF Apart
  <2>3. written' \cap lost' = {}
    BY <1>1, <2>2, BatchFacts DEF Apart
  <2>4. QED
    BY <1>1, <1>5, <1>6, <2>1, <2>3, BatchFacts DEF Apart
<1>11. QED
  BY <1>1, <1>7, <1>8, <1>9, <1>10, BatchFacts, EachOnceParts DEF BatchInv

-----------------------------------------------------------------------------
(* The invariant *)

LEMMA InitEstablishes == Init => Inv
<1>. SUFFICES ASSUME Init PROVE Inv
  OBVIOUS
<1>1. /\ state = "Idle" /\ stateCh = <<>> /\ actor = "ready" /\ closeDone = FALSE
      /\ channel = "none" /\ swings = 0
      /\ buffered = 0 /\ resume = FALSE /\ loc = [s \in Sender |-> "out"]
      /\ ManagerInit(mgr)
  BY DEF Init, StateInit
<1>2. /\ content = [b \in Buffer |-> <<>>] /\ pending \in Buffer /\ pool = Buffer \ {pending}
      /\ count = 0 /\ msgsIn = 0 /\ payload = [s \in Caller |-> {}]
      /\ written = {} /\ lost = {}
  BY DEF Init, BatchInit, NoBatch
<1>3. ManagerTypeOK
  BY <1>1 DEF ManagerInit, ManagerTypeOK
<1>4. MachineType
  <2>1. state \in ConnectionState
    BY <1>1, States
  <2>2. stateCh \in Seq(ConnectionState) /\ Len(stateCh) = 0
    BY <1>1
  <2>3. 0 <= QueueCap /\ 0 \in 0 .. MaxSwings
    BY QueueCapAssumption, MaxSwingsAssumption
  <2>4. QED
    BY <1>1, <2>1, <2>2, <2>3 DEF MachineType
<1>5. WindowType
  BY <1>1 DEF WindowType
<1>6. BatchTypeOK
  BY <1>2, BatchAssumption DEF BatchTypeOK
<1>7. StateInv
  BY <1>1 DEF StateInv, Up
<1>8. WindowInv
  <2>1. buffered < High /\ High \in Nat
    BY <1>1, MarksAssumption
  <2>2. Writers = {} /\ Cardinality(Writers) = 0
    BY <1>1, FS_EmptySet DEF Writers
  <2>3. Cardinality(Sender) \in Nat
    BY SenderAssumption, FS_CardinalityType
  <2>4. QED
    BY <1>1, <2>1, <2>2, <2>3 DEF WindowInv
<1>9. PlaceInv
  BY <1>2 DEF PlaceInv
<1>10. EachOnce
  <2>1. Held = {pending} /\ Batches = {<<>>}
    BY <1>2 DEF Held, Batches
  <2>2. Exact(Batches, msgsIn)
    BY <1>2, <2>1, EmptyMembers DEF Exact
  <2>3. Apart
    BY <1>2, <2>1 DEF Apart
  <2>4. QED
    BY <2>2, <2>3, EachOnceParts
<1>11. QED
  BY <1>3, <1>4, <1>5, <1>6, <1>7, <1>8, <1>9, <1>10, TypesAreTypeOK DEF Inv

LEMMA BatchFrame == BatchInv /\ UNCHANGED batchVars => BatchInv'
<1>. SUFFICES ASSUME BatchInv, UNCHANGED batchVars PROVE BatchInv'
  OBVIOUS
<1>1. UNCHANGED <<content, pool, pending, count, payload, msgsIn, written, lost>>
  BY DEF batchVars
<1>2. BatchTypeOK' /\ PlaceInv'
  BY <1>1 DEF BatchInv, BatchTypeOK, PlaceInv
<1>3. EachOnce'
  BY <1>1 DEF BatchInv, EachOnce
<1>4. QED
  BY <1>2, <1>3 DEF BatchInv

LEMMA MachineFrame ==
    ASSUME ManagerTypeOK, MachineType, StateInv, UNCHANGED <<machine, managerVars>>
    PROVE  (ManagerTypeOK /\ MachineType /\ StateInv)'
BY DEF machine, managerVars, closing, ice, ManagerTypeOK, MachineType, StateInv

LEMMA WindowFrame ==
    ASSUME WindowType, WindowInv, UNCHANGED window
    PROVE  WindowType' /\ WindowInv'
BY DEF window, WindowType, WindowInv, Writers

LEMMA NextKeeps == Inv /\ [Next]_vars => Inv'
<1>. SUFFICES ASSUME Inv, [Next]_vars PROVE Inv'
  OBVIOUS
<1>1. /\ ManagerTypeOK /\ MachineType /\ StateInv /\ WindowType /\ WindowInv
      /\ BatchInv
  BY TypesAreTypeOK DEF Inv, BatchInv
<1>2. SUFFICES /\ (ManagerTypeOK /\ MachineType /\ StateInv)'
               /\ (WindowType /\ WindowInv)' /\ BatchInv'
  BY TypesAreTypeOK DEF Inv, BatchInv
<1>3. CASE StateNext /\ UNCHANGED batchVars
  BY <1>1, <1>3, StateNextKeeps, WindowFrame, BatchFrame
<1>4. CASE Drains /\ UNCHANGED batchVars
  <2>1. UNCHANGED <<machine, managerVars>>
    BY <1>4 DEF Drains
  <2>2. QED
    BY <1>1, <1>4, <2>1, DrainsKeeps, MachineFrame, BatchFrame
<1>5. ASSUME NEW s \in Sender, Batch(s) /\ UNCHANGED stateVars
      PROVE  /\ (ManagerTypeOK /\ MachineType /\ StateInv)'
             /\ (WindowType /\ WindowInv)' /\ BatchInv'
  <2>1. UNCHANGED <<machine, window, managerVars>> /\ s \in Caller
    BY <1>5, CallersAssumption DEF stateVars
  <2>2. BatchInv'
    BY <1>1, <1>5, <2>1, SendKeeps, FlushKeeps DEF Batch
  <2>3. QED
    BY <1>1, <2>1, <2>2, MachineFrame, WindowFrame
<1>6. ASSUME NEW s \in Sender,
             (Begins(s) \/ Continues(s)) /\ UNCHANGED <<machine, managerVars, batchVars>>
      PROVE  /\ (ManagerTypeOK /\ MachineType /\ StateInv)'
             /\ (WindowType /\ WindowInv)' /\ BatchInv'
  BY <1>1, <1>6, CallKeeps, MachineFrame, BatchFrame
<1>7. ASSUME NEW s \in Sender, Returns(s) /\ UNCHANGED <<machine, managerVars>>
      PROVE  /\ (ManagerTypeOK /\ MachineType /\ StateInv)'
             /\ (WindowType /\ WindowInv)' /\ BatchInv'
  <2>1. /\ Dispatched(s, loc[s] = "sent") /\ loc' = [loc EXCEPT ![s] = "out"]
        /\ loc[s] \in {"sent", "failed"} /\ UNCHANGED <<buffered, resume>> /\ s \in Caller
    BY <1>7, CallersAssumption DEF Returns
  <2>2. BatchInv'
    BY <1>1, <2>1, DispatchedKeeps
  <2>3. Goes(s, loc[s], "out")
    BY <2>1 DEF Goes
  <2>4. WindowType' /\ Writers' = Writers \ {s}
    BY <1>1, <2>1, <2>3, GoesEffect DEF WindowType
  <2>5. WindowInv'
    BY <1>1, <2>1, <2>4, StayKeeps
  <2>6. QED
    BY <1>1, <1>7, <2>2, <2>4, <2>5, MachineFrame
<1>8. CASE UNCHANGED vars
  <2>1. UNCHANGED <<machine, window, managerVars, batchVars>>
    BY <1>8 DEF vars, stateVars
  <2>2. QED
    BY <1>1, <2>1, MachineFrame, WindowFrame, BatchFrame
<1>9. QED
  BY <1>3, <1>4, <1>5, <1>6, <1>7, <1>8 DEF Next

\* The invariant on which the two theorems below rest.
THEOREM DataPathInvariant == Spec => []Inv
<1>1. Init => Inv
  BY InitEstablishes
<1>2. Inv /\ [Next]_vars => Inv'
  BY NextKeeps
<1>3. QED
  BY <1>1, <1>2, PTL DEF Spec

\* IsConnected is never true of a channel that pion has not opened, in whatever
\* order the answer, ICE, the actor and doClose come; and the buffer of the
\* channel exceeds the high mark by at most a message for each sender.
THEOREM ChannelStaysSound == Spec => []ChannelSound
<1>1. ASSUME Inv PROVE ChannelSound
  <2>1. ConnectedMeansOpened
    BY <1>1 DEF Inv, StateInv, Up, ConnectedMeansOpened
  <2>2. BufferBounded
    <3>1. buffered \in Nat /\ WindowType
      BY <1>1, TypesAreTypeOK DEF Inv, WindowType
    <3>2. QED
      BY <1>1, <3>1, WritersFinite DEF Inv, WindowInv, BufferBounded
  <2>3. QED
    BY <1>1, <2>1, <2>2 DEF Inv, ChannelSound
<1>2. QED
  BY <1>1, DataPathInvariant, PTL

\* However many goroutines send and flush, every message that was accepted is in
\* exactly one batch, among its neighbours and in order, although buffers go
\* back to the pool and are used again.
THEOREM EachMessageOnce == Spec => []EachOnce
<1>1. Inv => EachOnce
  BY DEF Inv
<1>2. QED
  BY <1>1, DataPathInvariant, PTL
=============================================================================

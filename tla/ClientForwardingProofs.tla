----------------------- MODULE ClientForwardingProofs -----------------------
(***************************************************************************)
(* Proofs about ClientForwarding, for any ids, control connections, local  *)
(* connections and limits of the configuration.                            *)
(*                                                                         *)
(* The heart of the invariant is what becomes of an id: while its local    *)
(* connection is not in the map, the id is among the closed ones, or its   *)
(* control connection is not the current one and never will be again       *)
(* (KnownInv).  That holds as long as no closed id is forgotten too early, *)
(* which is so while there are no more ids than are remembered             *)
(* (RememberEffect).  A second invariant (WaitInv) says that whoever waits  *)
(* for a local connection to be finished waits for one of which that has   *)
(* begun: from it follows that after Stop nobody waits for ever.           *)
(***************************************************************************)
EXTENDS ClientForwarding, FiniteSetTheorems, TLAPS

AllRemembered == Cardinality(Id) <= Remembered

\* The control connection of the id has been lost.
Past(id) == Home[id] <= installed /\ Home[id] # current

\* The read loop's DATA for the id opens nothing.
Forgotten(id) == id \in ClosedLocal \/ Past(id) \/ cancelled

ControlInv ==
    /\ current # NoControl => current = installed /\ clearing = NoControl
    /\ clearing <= installed
    /\ clearing # NoControl <=> clearer["fail"].at \in {"swap", "finish"}
    /\ clearer["fail"].at \in {"idle", "swap", "finish"}
    /\ clearer["stop"].at # "idle" <=> cancelled
    /\ clearer["fail"].at = "finish" => \A id \in Id : local[id] = NoObject

\* The objects closeAllLocalConns has taken out of the map.
InHand(k) == clearer[k].objs \cup ({clearer[k].obj} \ {NoObject})

ClearerInv ==
    \A k \in {"fail", "stop"} : \A o \in InHand(k) :
        InUse(o) /\ (cancelled \/ Past(obj[o].id))

\* A message that was decoded is of the connection there is, or was.
ReadingInv ==
    /\ reading.at # "idle" =>
          /\ reading.id \in Id /\ Home[reading.id] <= installed
          /\ current \in {NoControl, Home[reading.id]}
    /\ reading.at = "close" => cancelled \/ reading.id \in told
    /\ reading.at \in {"push", "finish"} => reading.obj \in Object /\ InUse(reading.obj)

\* Whoever finishes an object without a notice knows that none is due.
ObjectInv ==
    \A o \in Object : InUse(o) =>
        /\ obj[o].id \in Id
        /\ obj[o].control = Home[obj[o].id] /\ obj[o].control <= installed
        /\ obj[o].stage \in {"begun", "removed"} /\ ~obj[o].notify =>
              cancelled \/ obj[o].id \in told \/ Past(obj[o].id)

\* After a chunk that was not queued nothing else is: the only one who queues
\* waits until the connection is closed.
QueueInv ==
    \A o \in Object :
        /\ \A i \in 1 .. Len(obj[o].queue) : obj[o].queue[i] = "whole"
        /\ obj[o].missed /\ ~Closed(o) => reading.at = "finish" /\ reading.obj = o
        /\ obj[o].writer = "write" => obj[o].chunk # None
        /\ obj[o].writer \in {"dial", "loop"} => obj[o].chunk = None
        /\ obj[o].chunk # "gap"

LocalInv ==
    \A id \in Id : local[id] # NoObject =>
        /\ obj[local[id]].id = id /\ obj[local[id]].stage \in {"open", "begun"}
        /\ Home[id] \in {current, clearing}

MemoryInv ==
    /\ \A i, j \in 1 .. Len(closedOrder) : closedOrder[i] = closedOrder[j] => i = j
    /\ \A id \in ClosedLocal : Home[id] <= installed

KnownInv ==
    AllRemembered =>
        \A o \in Object : InUse(o) => local[obj[o].id] = o \/ Forgotten(obj[o].id)

AnnouncedInv ==
    /\ cancelled => \A id \in Id : announced[id] = 0
    /\ AllRemembered => \A id \in Id : announced[id] # 0 =>
          /\ announced[id] = 1 /\ Forgotten(id)
          /\ \A o \in Object : InUse(o) /\ obj[o].id = id => Closed(o)

\* The server knows, or will learn, or the control connection is about to go.
Reported(id) ==
    Home[id] = current =>
        \/ id \in told \/ <<current, id>> \in ToSet(notices) \/ <<current, id>> = sending
        \/ current \in {overload, failing}
        \/ \E o \in Object : obj[o].id = id /\ obj[o].stage \in {"begun", "removed"}

ReportedInv == ~cancelled /\ ~dropped => \A id \in ClosedLocal : Reported(id)

Inv ==
    /\ TypeOK
    /\ ControlInv /\ ClearerInv /\ ReadingInv
    /\ ObjectInv /\ QueueInv /\ LocalInv /\ MemoryInv
    /\ KnownInv /\ NeverReopened /\ AnnouncedInv /\ ReportedInv

-----------------------------------------------------------------------------
(* Types *)

Bytes == 0 .. QueueBytes
Queue == Seq(Data)
Chunk == Data \cup {None}
ControlOrNone == Control \cup {NoControl}
IdOrNone == Id \cup {None}
ObjectOrNone == Object \cup {NoObject}
Clearer == {"fail", "stop"}
ReadState == [at : {"idle", "data", "close", "push", "finish"}, id : IdOrNone,
              obj : ObjectOrNone]
ObjectSet == SUBSET Object
ClearState == [at : {"idle", "close", "closing", "swap", "finish", "done"},
               objs : ObjectSet, obj : ObjectOrNone]

Typed(x) ==
    /\ x \in ObjectState
    /\ x.bytes = Len(x.queue) + (IF x.chunk = None THEN 0 ELSE 1)

SessionType ==
    /\ current \in ControlOrNone /\ clearing \in ControlOrNone
    /\ installed \in 0 .. MaxControls /\ cancelled \in BOOLEAN
TableType ==
    /\ local \in [Id -> ObjectOrNone]
    /\ closedOrder \in Seq(Id) /\ Len(closedOrder) <= Remembered
ObjectType ==
    /\ obj \in [Object -> ObjectState]
    /\ \A o \in Object : Typed(obj[o])
ChannelType ==
    /\ notices \in Seq(Notice) /\ Len(notices) <= NoticeSize
    /\ overload \in ControlOrNone
SendType == sending \in Notice \cup {None} /\ failing \in ControlOrNone
HistoryType == told \subseteq Id /\ announced \in [Id -> 0 .. 2] /\ dropped \in BOOLEAN

Types ==
    /\ SessionType /\ TableType /\ ObjectType
    /\ reading \in ReadState /\ clearer \in [Clearer -> ClearState]
    /\ ChannelType /\ SendType /\ HistoryType

LEMMA TypesAreTypeOK == (TypeOK <=> Types) /\ (TypeOK' <=> Types')
<1>1. TypeOK <=> Types
  BY DEF TypeOK, Types, SessionType, TableType, ObjectType, Typed, ReadState, ClearState,
         Clearer, ObjectSet, ChannelType, SendType, HistoryType, ControlOrNone, IdOrNone,
         ObjectOrNone
<1>2. TypeOK' <=> Types'
  BY DEF TypeOK, Types, SessionType, TableType, ObjectType, Typed, ReadState, ClearState,
         Clearer, ObjectSet, ChannelType, SendType, HistoryType, ControlOrNone, IdOrNone,
         ObjectOrNone
<1>3. QED
  BY <1>1, <1>2

LEMMA TypeParts ==
    TypeOK <=> /\ SessionType /\ TableType /\ ObjectType
               /\ reading \in ReadState /\ clearer \in [Clearer -> ClearState]
               /\ ChannelType /\ SendType /\ HistoryType
BY TypesAreTypeOK DEF Types

\* The fields of a local connection, and what each step sets in them.
LEMMA StateFields ==
    ObjectState =
    [id : Id \cup {None}, control : Control \cup {NoControl},
     stage : {"none", "open", "begun", "removed", "done"}, notify : BOOLEAN,
     conn : {"none", "open", "closed"}, queue : Queue, chunk : Chunk,
     bytes : Bytes, missed : BOOLEAN,
     writer : {"none", "dial", "loop", "write", "end"}, reader : {"none", "read", "end"}]
BY DEF ObjectState, Queue, Chunk, Bytes

LEMMA BegunTyped ==
    ASSUME NEW x, Typed(x), NEW n \in BOOLEAN
    PROVE  Typed(Begun(x, n))
<1> DEFINE y == [x EXCEPT !.stage = "begun", !.notify = n]
<1>1. y \in ObjectState /\ y.bytes = x.bytes /\ y.queue = x.queue /\ y.chunk = x.chunk
  BY StateFields DEF Typed
<1>2. QED
  BY <1>1 DEF Typed, Begun

LEMMA WriterEndsTyped ==
    ASSUME NEW x, Typed(x)
    PROVE  /\ Typed([x EXCEPT !.writer = "end", !.chunk = None, !.bytes = Len(x.queue)])
           /\ Typed(WriterEnds(x))
<1> DEFINE n == Len(x.queue)
           y == [x EXCEPT !.writer = "end", !.chunk = None, !.bytes = n]
<1>1. n \in Bytes /\ None \in Chunk /\ n \in Nat
  BY SizeAssumption DEF Typed, ObjectState, Bytes, Chunk
<1>2. n = Len(x.queue) + 0 /\ y.queue = x.queue /\ y.bytes = n /\ y.chunk = None
  BY <1>1 DEF Typed, ObjectState
<1>. HIDE DEF n
<1>3. y \in ObjectState
  BY <1>1, StateFields DEF Typed
<1>4. Typed(y)
  BY <1>2, <1>3 DEF Typed
<1>5. QED
  BY <1>4, BegunTyped DEF WriterEnds, n

LEMMA GivesUpTyped ==
    ASSUME NEW x, Typed(x)
    PROVE  Typed([x EXCEPT !.writer = "end"]) /\ Typed(WriterGivesUp(x))
<1> DEFINE y == [x EXCEPT !.writer = "end"]
<1>1. Typed(y)
  BY DEF Typed, ObjectState
<1>2. QED
  BY <1>1, BegunTyped DEF WriterGivesUp

LEMMA ReaderEndsTyped ==
    ASSUME NEW x, Typed(x)
    PROVE  Typed([x EXCEPT !.reader = "end"]) /\ Typed(ReaderEnds(x))
<1> DEFINE y == [x EXCEPT !.reader = "end"]
<1>1. Typed(y)
  BY DEF Typed, ObjectState
<1>2. QED
  BY <1>1, BegunTyped DEF ReaderEnds

LEMMA DialTyped ==
    ASSUME NEW x, Typed(x)
    PROVE  /\ Typed([x EXCEPT !.conn = "open"])
           /\ Typed([x EXCEPT !.conn = "open", !.writer = "loop", !.reader = "read"])
BY DEF Typed, ObjectState

LEMMA TakeTyped ==
    ASSUME NEW x, Typed(x), x.chunk = None, x.queue # <<>>
    PROVE  Typed([x EXCEPT !.writer = "write", !.chunk = Head(x.queue), !.queue = Tail(@)])
<1> DEFINE h == Head(x.queue)
           t == Tail(x.queue)
           y == [x EXCEPT !.writer = "write", !.chunk = h, !.queue = t]
<1>0. x.queue \in Seq(Data) /\ x.bytes = Len(x.queue)
  BY DEF Typed, ObjectState
<1>1. h \in Data /\ t \in Queue /\ Len(x.queue) = Len(t) + 1
  BY <1>0 DEF Queue
<1>2. h \in Chunk /\ h # None
  BY <1>1, NoneAssumption DEF Chunk, Data
<1>. HIDE DEF h, t
<1>3. y \in ObjectState /\ y.bytes = x.bytes /\ y.chunk = h /\ y.queue = t
  BY <1>1, <1>2, StateFields DEF Typed
<1>4. QED
  BY <1>0, <1>1, <1>2, <1>3 DEF Typed, h, t

LEMMA WriteTyped ==
    ASSUME NEW x, Typed(x), x.chunk # None
    PROVE  Typed([x EXCEPT !.writer = "loop", !.chunk = None, !.bytes = @ - 1])
<1> DEFINE n == x.bytes - 1
           y == [x EXCEPT !.writer = "loop", !.chunk = None, !.bytes = n]
<1>1. n = Len(x.queue) /\ n \in Bytes /\ None \in Chunk
  BY SizeAssumption DEF Typed, ObjectState, Bytes, Chunk
<1>. HIDE DEF n
<1>3. y \in ObjectState /\ y.bytes = n /\ y.chunk = None /\ y.queue = x.queue
  BY <1>1, StateFields DEF Typed
<1>4. QED
  BY <1>1, <1>3 DEF Typed, n, Bytes

LEMMA PushTyped ==
    ASSUME NEW x, Typed(x), ~Full(x), NEW c \in Data
    PROVE  Typed([x EXCEPT !.bytes = @ + 1, !.queue = Append(@, c)])
<1> DEFINE n == x.bytes + 1
           q == Append(x.queue, c)
           y == [x EXCEPT !.bytes = n, !.queue = q]
<1>1. n \in Bytes /\ q \in Queue /\ Len(q) = Len(x.queue) + 1
  BY SizeAssumption DEF Typed, ObjectState, Bytes, Queue, Full
<1>2. n = Len(q) + (IF x.chunk = None THEN 0 ELSE 1)
  BY <1>1 DEF Typed, ObjectState
<1>. HIDE DEF n, q
<1>3. y \in ObjectState /\ y.bytes = n /\ y.chunk = x.chunk /\ y.queue = q
  BY <1>1, StateFields DEF Typed
<1>4. QED
  BY <1>2, <1>3 DEF Typed, n, q

-----------------------------------------------------------------------------
(* Effects of the building blocks *)

\* What each part of the invariant depends on.
LEMMA Frame ==
    /\ ControlInv /\ UNCHANGED <<session, clearer, local>> => ControlInv'
    /\ ClearerInv /\ UNCHANGED <<session, clearer, obj>> => ClearerInv'
    /\ ReadingInv /\ UNCHANGED <<session, reading, told, obj>> => ReadingInv'
    /\ ObjectInv /\ UNCHANGED <<session, obj, told>> => ObjectInv'
    /\ QueueInv /\ UNCHANGED <<obj, reading>> => QueueInv'
    /\ LocalInv /\ UNCHANGED <<session, local, obj>> => LocalInv'
    /\ MemoryInv /\ UNCHANGED <<session, closedOrder>> => MemoryInv'
    /\ KnownInv /\ UNCHANGED <<session, table, obj>> => KnownInv'
    /\ NeverReopened /\ UNCHANGED obj => NeverReopened'
    /\ AnnouncedInv /\ UNCHANGED <<session, closedOrder, obj, announced>> => AnnouncedInv'
    /\ ReportedInv /\ UNCHANGED <<session, closedOrder, obj, told, channels, sending,
                                  failing, dropped>> => ReportedInv'
<1>1. ControlInv /\ UNCHANGED <<session, clearer, local>> => ControlInv'
  BY DEF ControlInv, session
<1>2. ClearerInv /\ UNCHANGED <<session, clearer, obj>> => ClearerInv'
  BY DEF ClearerInv, InHand, InUse, Past, session
<1>3. ReadingInv /\ UNCHANGED <<session, reading, told, obj>> => ReadingInv'
  BY DEF ReadingInv, InUse, session
<1>4. ObjectInv /\ UNCHANGED <<session, obj, told>> => ObjectInv'
  BY DEF ObjectInv, InUse, Past, session
<1>5. QueueInv /\ UNCHANGED <<obj, reading>> => QueueInv'
  BY DEF QueueInv, Closed
<1>6. LocalInv /\ UNCHANGED <<session, local, obj>> => LocalInv'
  BY DEF LocalInv, session
<1>7. MemoryInv /\ UNCHANGED <<session, closedOrder>> => MemoryInv'
  BY DEF MemoryInv, ClosedLocal, session
<1>8. KnownInv /\ UNCHANGED <<session, table, obj>> => KnownInv'
  BY DEF KnownInv, AllRemembered, InUse, Forgotten, Past, ClosedLocal, session, table
<1>9. NeverReopened /\ UNCHANGED obj => NeverReopened'
  BY DEF NeverReopened, InUse
<1>10. AnnouncedInv /\ UNCHANGED <<session, closedOrder, obj, announced>> => AnnouncedInv'
  BY DEF AnnouncedInv, AllRemembered, InUse, Closed, Forgotten, Past, ClosedLocal, session
<1>11. ReportedInv /\ UNCHANGED <<session, closedOrder, obj, told, channels, sending,
                                  failing, dropped>> => ReportedInv'
  BY DEF ReportedInv, Reported, ClosedLocal, session, channels
<1>12. QED
  BY <1>1, <1>2, <1>3, <1>4, <1>5, <1>6, <1>7, <1>8, <1>9, <1>10, <1>11

\* rememberClosedLocal: with no more ids than are remembered, nothing is
\* forgotten, since no id is remembered twice.
LEMMA RememberEffect ==
    ASSUME TableType, MemoryInv, NEW id \in Id, Home[id] <= installed, Remember(id),
           UNCHANGED installed
    PROVE  /\ closedOrder' \in Seq(Id) /\ Len(closedOrder') <= Remembered
           /\ MemoryInv'
           /\ id \in ClosedLocal'
           /\ ClosedLocal' \subseteq ClosedLocal \cup {id}
           /\ AllRemembered => ClosedLocal \subseteq ClosedLocal'
<1> DEFINE n == Len(closedOrder)
           q == IF n >= Remembered THEN Tail(closedOrder) ELSE closedOrder
<1>1. CASE id \in ClosedLocal
  BY <1>1 DEF Remember, MemoryInv, TableType, ClosedLocal
<1>2. CASE id \notin ClosedLocal
  <2>1. closedOrder' = Append(q, id)
    BY <1>2 DEF Remember
  <2>2. n \in Nat /\ n <= Remembered /\ Remembered \in Nat \ {0}
    BY SizeAssumption DEF TableType
  <2>3. /\ q \in Seq(Id) /\ Len(q) < Remembered
        /\ \A i \in 1 .. Len(q) : \E j \in 1 .. n : q[i] = closedOrder[j]
        /\ \A i, j \in 1 .. Len(q) : q[i] = q[j] => i = j
    <3>1. CASE n >= Remembered
      <4>1. /\ Tail(closedOrder) \in Seq(Id) /\ Len(Tail(closedOrder)) = n - 1
            /\ \A i \in 1 .. n - 1 : Tail(closedOrder)[i] = closedOrder[i + 1]
        BY <3>1, <2>2 DEF TableType
      <4>. DEFINE t == Tail(closedOrder)
      <4>2. q = t
        BY <3>1
      <4>. HIDE DEF t
      <4>3. \A i \in 1 .. Len(t) : i + 1 \in 1 .. n /\ t[i] = closedOrder[i + 1]
        BY <4>1, <2>2 DEF t
      <4>4. \A i, j \in 1 .. Len(t) : t[i] = t[j] => i = j
        <5>. SUFFICES ASSUME NEW i \in 1 .. Len(t), NEW j \in 1 .. Len(t), t[i] = t[j]
                      PROVE  i = j
          OBVIOUS
        <5>1. i + 1 = j + 1
          BY <4>3 DEF MemoryInv
        <5>2. QED  BY <5>1, <4>1, <2>2 DEF t
      <4>5. t \in Seq(Id) /\ Len(t) = n - 1
        BY <4>1 DEF t
      <4>. HIDE DEF q
      <4>6. \A i \in 1 .. Len(t) : \E j \in 1 .. n : t[i] = closedOrder[j]
        BY <4>3
      <4>7. Len(t) < Remembered
        BY <4>5, <2>2
      <4>. HIDE DEF n
      <4>8. QED
        BY <4>2, <4>4, <4>5, <4>6, <4>7
    <3>2. CASE n < Remembered
      BY <3>2, <2>2 DEF MemoryInv, TableType
    <3>3. n >= Remembered \/ n < Remembered
      BY <2>2
    <3>. HIDE DEF q, n
    <3>4. QED
      BY <3>1, <3>2, <3>3
  <2>4. ToSet(q) \subseteq ClosedLocal /\ id \notin ToSet(q)
    BY <1>2, <2>3 DEF ClosedLocal, ToSet, TableType
  <2>5. /\ closedOrder' \in Seq(Id) /\ Len(closedOrder') = Len(q) + 1
        /\ \A i \in 1 .. Len(q) : closedOrder'[i] = q[i]
        /\ closedOrder'[Len(q) + 1] = id
        /\ DOMAIN closedOrder' = 1 .. Len(q) + 1 /\ DOMAIN q = 1 .. Len(q)
    <3>. HIDE DEF q
    <3>. QED  BY <2>1, <2>3
  <2>6. ToSet(closedOrder') = ToSet(q) \cup {id}
    <3>. HIDE DEF q
    <3>1. Len(q) \in Nat
      BY <2>3
    <3>2. QED  BY <3>1, <2>5 DEF ToSet
  <2>7. MemoryInv'
    <3>. HIDE DEF q
    <3>1. Len(q) \in Nat /\ \A i \in 1 .. Len(q) : q[i] # id
      BY <2>3, <2>4, <2>5 DEF ToSet
    <3>2. \A i, j \in 1 .. Len(closedOrder') : closedOrder'[i] = closedOrder'[j] => i = j
      BY <3>1, <2>3, <2>5
    <3>3. \A e \in ClosedLocal' : Home[e] <= installed
      BY <2>4, <2>6 DEF MemoryInv, ClosedLocal
    <3>4. QED
      BY <3>2, <3>3 DEF MemoryInv
  <2>8. ASSUME AllRemembered PROVE ClosedLocal \subseteq ClosedLocal'
    <3>1. IsFiniteSet(Id \ {id}) /\ Cardinality(Id \ {id}) = Cardinality(Id) - 1
      BY IdAssumption, FS_RemoveElement
    <3>2. ClosedLocal \subseteq Id \ {id}
      BY <1>2 DEF ClosedLocal, ToSet, TableType
    <3>3. Cardinality(ClosedLocal) <= Cardinality(Id) - 1
      BY <3>1, <3>2, FS_Subset
    <3>4. closedOrder \in Bijection(1 .. n, ClosedLocal)
      <4>1. closedOrder \in [1 .. n -> ClosedLocal] /\ DOMAIN closedOrder = 1 .. n
        BY <2>2 DEF TableType, ClosedLocal, ToSet
      <4>2. \A e \in ClosedLocal : \E i \in 1 .. n : closedOrder[i] = e
        BY <4>1 DEF ClosedLocal, ToSet
      <4>3. QED
        BY <4>1, <4>2 DEF MemoryInv, Bijection, Injection, Surjection, IsInjective
    <3>5. Cardinality(ClosedLocal) = n
      BY <3>4, <2>2, FS_CountingElements DEF ExistsBijection
    <3>6. Cardinality(Id) \in Nat
      BY IdAssumption, FS_CardinalityType
    <3>7. n < Remembered
      BY <2>2, <2>8, <3>3, <3>5, <3>6 DEF AllRemembered
    <3>8. QED
      BY <3>7, <2>2, <2>6 DEF ClosedLocal
  <2>9. QED
    BY <2>2, <2>3, <2>4, <2>5, <2>6, <2>7, <2>8 DEF ClosedLocal
<1>3. QED
  BY <1>1, <1>2

\* notifyLocalClose: the notice is queued, or the overload is signalled, or the
\* one slot was taken.
LEMMA AnnounceEffect ==
    ASSUME ChannelType, HistoryType, SessionType, NEW g \in Control, NEW id \in Id,
           Announce(g, id)
    PROVE  /\ ChannelType'
           /\ announced' \in [Id -> 0 .. 2] /\ dropped' \in BOOLEAN
           /\ cancelled => UNCHANGED announced
           /\ \A e \in Id \ {id} : announced'[e] = announced[e]
           /\ announced[id] = 0 => announced'[id] \in {0, 1}
           /\ ToSet(notices) \subseteq ToSet(notices')
           /\ overload # NoControl => overload' = overload
           /\ dropped => dropped'
           /\ cancelled \/ dropped' \/ <<g, id>> \in ToSet(notices') \/ overload' = g
<1>1. CASE cancelled
  BY <1>1 DEF Announce, ChannelType, HistoryType, channels
<1>2. CASE ~cancelled
  <2>1. announced' = [announced EXCEPT ![id] = IF @ = 2 THEN 2 ELSE @ + 1]
    BY <1>2 DEF Announce
  <2>2. /\ announced' \in [Id -> 0 .. 2]
        /\ \A e \in Id \ {id} : announced'[e] = announced[e]
        /\ announced[id] = 0 => announced'[id] \in {0, 1}
    BY <2>1 DEF HistoryType
  <2>3. CASE Len(notices) < NoticeSize
    <3>1. notices' = Append(notices, <<g, id>>) /\ UNCHANGED <<overload, dropped>>
      BY <1>2, <2>3 DEF Announce
    <3>2. <<g, id>> \in Notice /\ NoticeSize \in Nat
      BY SizeAssumption DEF Notice
    <3>3. /\ notices' \in Seq(Notice) /\ Len(notices') = Len(notices) + 1
          /\ \A i \in 1 .. Len(notices) : notices'[i] = notices[i]
          /\ notices'[Len(notices) + 1] = <<g, id>>
          /\ DOMAIN notices = 1 .. Len(notices) /\ Len(notices) \in Nat
          /\ DOMAIN notices' = 1 .. Len(notices) + 1
      BY <3>1, <3>2 DEF ChannelType
    <3>4. ToSet(notices) \subseteq ToSet(notices') /\ <<g, id>> \in ToSet(notices')
      BY <3>3 DEF ToSet
    <3>5. ChannelType' /\ dropped' \in BOOLEAN
      BY <2>3, <3>1, <3>2, <3>3 DEF ChannelType, HistoryType
    <3>6. QED
      BY <1>2, <2>2, <3>1, <3>4, <3>5
  <2>4. CASE ~(Len(notices) < NoticeSize)
    <3>1. /\ overload' = IF overload = NoControl THEN g ELSE overload
          /\ dropped' = (dropped \/ overload \notin {NoControl, g})
          /\ UNCHANGED notices
      BY <1>2, <2>4 DEF Announce
    <3>2. QED
      BY <1>2, <2>2, <3>1 DEF ChannelType, HistoryType, ControlOrNone
  <2>5. QED
    BY <2>3, <2>4
<1>3. QED
  BY <1>1, <1>2

-----------------------------------------------------------------------------
(* Steps of the local connections' own tasks *)

\* No local connection changes its id, is made or forgotten.
SameUse ==
    \A p \in Object : /\ obj'[p].id = obj[p].id
                      /\ obj'[p].stage = "none" <=> obj[p].stage = "none"

LEMMA SameUseFrame ==
    ASSUME Inv, SameUse, UNCHANGED session
    PROVE  /\ UNCHANGED clearer => ClearerInv'
           /\ UNCHANGED <<reading, told>> => ReadingInv'
           /\ UNCHANGED table => KnownInv'
           /\ NeverReopened'
<1>1. ASSUME UNCHANGED clearer PROVE ClearerInv'
  <2>1. \A k \in Clearer : InHand(k)' = InHand(k) /\ InHand(k) \subseteq Object
    BY <1>1, TypeParts DEF Inv, InHand, ClearState, ObjectSet, ObjectOrNone
  <2>2. QED
    BY <2>1 DEF Inv, ClearerInv, SameUse, InUse, Past, Clearer, session
<1>2. ASSUME UNCHANGED <<reading, told>> PROVE ReadingInv'
  BY <1>2 DEF Inv, ReadingInv, SameUse, InUse, session
<1>3. ASSUME UNCHANGED table PROVE KnownInv'
  BY <1>3 DEF Inv, KnownInv, AllRemembered, SameUse, InUse, Forgotten, Past, ClosedLocal,
              session, table
<1>4. NeverReopened'
  BY DEF Inv, NeverReopened, SameUse, InUse
<1>5. QED
  BY <1>1, <1>2, <1>3, <1>4

LEMMA BegunEffect ==
    ASSUME NEW x, Typed(x), NEW n \in BOOLEAN
    PROVE  LET y == Begun(x, n) IN
           /\ y.id = x.id /\ y.control = x.control /\ y.conn = x.conn
           /\ y.queue = x.queue /\ y.chunk = x.chunk /\ y.bytes = x.bytes
           /\ y.missed = x.missed /\ y.writer = x.writer /\ y.reader = x.reader
           /\ \/ y.stage = x.stage /\ y.notify = x.notify
              \/ x.stage = "open" /\ y.stage = "begun" /\ y.notify = n
<1>1. x \in ObjectState
  BY DEF Typed
<1>2. QED
  BY <1>1 DEF Begun, ObjectState

\* A local connection gets on, at most to where it begins to be finished.
Advances(x, y) ==
    /\ y.id = x.id /\ y.control = x.control
    /\ \/ y.stage = x.stage /\ y.notify = x.notify
       \/ /\ x.stage = "open" /\ y.stage = "begun"
          /\ y.notify \/ cancelled \/ x.id \in told \/ Past(x.id)

LEMMA AdvanceEffect ==
    ASSUME Inv, NEW o \in Object, NEW y, Typed(y), Advances(obj[o], y),
           obj' = [obj EXCEPT ![o] = y], UNCHANGED session
    PROVE  /\ ObjectType' /\ SameUse
           /\ told \subseteq told' => ObjectInv'
           /\ UNCHANGED local => LocalInv'
           /\ UNCHANGED <<closedOrder, announced>> => AnnouncedInv'
           /\ UNCHANGED <<closedOrder, told, channels, sending, failing, dropped>>
                  => ReportedInv'
<1>0. /\ obj \in [Object -> ObjectState] /\ y \in ObjectState
      /\ obj'[o] = y /\ \A p \in Object \ {o} : obj'[p] = obj[p]
  BY TypeParts DEF Inv, ObjectType, Typed
<1>1. ObjectType'
  BY <1>0, TypeParts DEF Inv, ObjectType
<1>2. SameUse
  BY <1>0 DEF SameUse, Advances
<1>3. /\ \A p \in Object : obj'[p].stage = "done" <=> obj[p].stage = "done"
      /\ \A p \in Object : obj[p].stage \in {"begun", "removed"}
             => obj'[p].stage \in {"begun", "removed"}
      /\ \A p \in Object : obj[p].stage \in {"open", "begun"}
             => obj'[p].stage \in {"open", "begun"}
  BY <1>0 DEF Advances
<1>4. ASSUME told \subseteq told' PROVE ObjectInv'
  BY <1>0, <1>4 DEF Inv, ObjectInv, Advances, InUse, Past, session
<1>5. ASSUME UNCHANGED local PROVE LocalInv'
  BY <1>2, <1>3, <1>5, TypeParts
     DEF Inv, LocalInv, SameUse, TableType, ObjectOrNone, session
<1>6. ASSUME UNCHANGED <<closedOrder, announced>> PROVE AnnouncedInv'
  BY <1>2, <1>3, <1>6
     DEF Inv, AnnouncedInv, AllRemembered, SameUse, InUse, Closed, Forgotten, Past,
         ClosedLocal, session
<1>7. ASSUME UNCHANGED <<closedOrder, told, channels, sending, failing, dropped>>
      PROVE  ReportedInv'
  BY <1>2, <1>3, <1>7
     DEF Inv, ReportedInv, Reported, SameUse, ClosedLocal, channels, session
<1>8. QED
  BY <1>1, <1>2, <1>4, <1>5, <1>6, <1>7

LEMMA StepKeeps ==
    ASSUME Inv, NEW o \in Object, NEW y, Typed(y), Step(o, y), Advances(obj[o], y),
           y.missed = obj[o].missed,
           \A i \in 1 .. Len(y.queue) : y.queue[i] = "whole",
           y.writer = "write" => y.chunk # None,
           y.writer \in {"dial", "loop"} => y.chunk = None, y.chunk # "gap"
    PROVE  Inv'
<1>1. /\ obj' = [obj EXCEPT ![o] = y]
      /\ UNCHANGED <<session, table, loops, channels, history>>
  BY DEF Step
<1>2. /\ UNCHANGED <<session, local, closedOrder, reading, clearer, sending, failing>>
      /\ UNCHANGED <<table, channels, told, announced, dropped>>
  BY <1>1 DEF table, loops, history
<1>3. /\ ObjectType' /\ SameUse /\ ObjectInv' /\ LocalInv' /\ AnnouncedInv' /\ ReportedInv'
  BY <1>1, <1>2, AdvanceEffect
<1>4. ClearerInv' /\ ReadingInv' /\ KnownInv' /\ NeverReopened'
  BY <1>2, <1>3, SameUseFrame
<1>5. ControlInv' /\ MemoryInv'
  BY <1>2, Frame DEF Inv
<1>6. QueueInv'
  BY <1>1, <1>2, TypeParts DEF Inv, ObjectType, QueueInv, Closed, Advances
<1>7. TypeOK'
  <2>1. (SessionType /\ TableType)'
    BY <1>2, TypeParts DEF Inv, SessionType, TableType, session
  <2>2. (ChannelType /\ SendType /\ HistoryType)'
    BY <1>2, TypeParts DEF Inv, ChannelType, SendType, HistoryType, channels
  <2>3. (reading \in ReadState /\ clearer \in [Clearer -> ClearState])'
    BY <1>2, TypeParts DEF Inv
  <2>4. QED
    BY <1>3, <2>1, <2>2, <2>3, TypesAreTypeOK DEF Types
<1>8. QED
  BY <1>3, <1>4, <1>5, <1>6, <1>7 DEF Inv

LEMMA ObjectFacts ==
    ASSUME Inv, NEW o \in Object
    PROVE  /\ Typed(obj[o]) /\ obj[o] \in ObjectState /\ obj \in [Object -> ObjectState]
           /\ \A i \in 1 .. Len(obj[o].queue) : obj[o].queue[i] = "whole"
           /\ obj[o].writer = "write" => obj[o].chunk # None
           /\ obj[o].writer \in {"dial", "loop"} => obj[o].chunk = None
           /\ obj[o].chunk # "gap"
BY TypeParts DEF Inv, ObjectType, QueueInv, Typed

\* A task's last act.
LEMMA EndKeeps ==
    ASSUME Inv, NEW o \in Object, NEW y, Typed(y), Advances(obj[o], y),
           y.missed = obj[o].missed, y.queue = obj[o].queue, y.chunk = obj[o].chunk,
           y.writer = "write" => y.chunk # None,
           y.writer \in {"dial", "loop"} => y.chunk = None
    PROVE  /\ Step(o, WriterEnds(y)) => Inv'
           /\ Step(o, WriterGivesUp(y)) => Inv'
           /\ Step(o, ReaderEnds(y)) => Inv'
<1>0. y \in ObjectState
  BY DEF Typed
<1>1. ASSUME Step(o, WriterEnds(y)) PROVE Inv'
  <2> DEFINE z == [y EXCEPT !.writer = "end", !.chunk = None, !.bytes = Len(y.queue)]
             w == WriterEnds(y)
  <2>1. /\ z.id = y.id /\ z.control = y.control /\ z.stage = y.stage
        /\ z.notify = y.notify /\ z.queue = y.queue /\ z.missed = y.missed
        /\ z.chunk = None /\ z.writer = "end"
    BY <1>0 DEF ObjectState
  <2>2. Typed(w) /\ Typed(z) /\ w = Begun(z, TRUE)
    BY WriterEndsTyped DEF WriterEnds
  <2>3. /\ w.id = z.id /\ w.control = z.control /\ w.queue = z.queue /\ w.chunk = z.chunk
        /\ w.missed = z.missed /\ w.writer = z.writer
        /\ \/ w.stage = z.stage /\ w.notify = z.notify
           \/ z.stage = "open" /\ w.stage = "begun" /\ w.notify = TRUE
    <3>. HIDE DEF w, z
    <3>. QED  BY <2>2, BegunEffect
  <2>4. Advances(obj[o], w)
    BY <2>1, <2>3 DEF Advances
  <2>5. Step(o, w)
    BY <1>1
  <2>. HIDE DEF w, z
  <2>6. /\ w.missed = obj[o].missed /\ w.queue = obj[o].queue
        /\ w.writer = "write" => w.chunk # None
        /\ w.writer \in {"dial", "loop"} => w.chunk = None
        /\ w.chunk # "gap"
    BY <2>1, <2>3, ObjectFacts, NoneAssumption
  <2>7. QED
    BY <2>2, <2>4, <2>5, <2>6, ObjectFacts, StepKeeps
<1>2. ASSUME Step(o, ReaderEnds(y)) PROVE Inv'
  <2> DEFINE z == [y EXCEPT !.reader = "end"]
             w == ReaderEnds(y)
  <2>1. /\ z.id = y.id /\ z.control = y.control /\ z.stage = y.stage
        /\ z.notify = y.notify /\ z.queue = y.queue /\ z.missed = y.missed
        /\ z.chunk = y.chunk /\ z.writer = y.writer
    BY <1>0 DEF ObjectState
  <2>2. Typed(w) /\ Typed(z) /\ w = Begun(z, TRUE)
    BY ReaderEndsTyped DEF ReaderEnds
  <2>3. /\ w.id = z.id /\ w.control = z.control /\ w.queue = z.queue /\ w.chunk = z.chunk
        /\ w.missed = z.missed /\ w.writer = z.writer
        /\ \/ w.stage = z.stage /\ w.notify = z.notify
           \/ z.stage = "open" /\ w.stage = "begun" /\ w.notify = TRUE
    <3>. HIDE DEF w, z
    <3>. QED  BY <2>2, BegunEffect
  <2>4. Advances(obj[o], w)
    BY <2>1, <2>3 DEF Advances
  <2>5. Step(o, w)
    BY <1>2
  <2>. HIDE DEF w, z
  <2>6. /\ w.missed = obj[o].missed /\ w.queue = obj[o].queue
        /\ w.writer = "write" => w.chunk # None
        /\ w.writer \in {"dial", "loop"} => w.chunk = None
        /\ w.chunk # "gap"
    BY <2>1, <2>3, ObjectFacts, NoneAssumption
  <2>7. QED
    BY <2>2, <2>4, <2>5, <2>6, ObjectFacts, StepKeeps
<1>3. ASSUME Step(o, WriterGivesUp(y)) PROVE Inv'
  <2> DEFINE z == [y EXCEPT !.writer = "end"]
             w == WriterGivesUp(y)
  <2>1. /\ z.id = y.id /\ z.control = y.control /\ z.stage = y.stage
        /\ z.notify = y.notify /\ z.queue = y.queue /\ z.missed = y.missed
        /\ z.chunk = y.chunk /\ z.writer = "end"
    BY <1>0 DEF ObjectState
  <2>2. Typed(w) /\ Typed(z) /\ w = Begun(z, TRUE)
    BY GivesUpTyped DEF WriterGivesUp
  <2>3. /\ w.id = z.id /\ w.control = z.control /\ w.queue = z.queue /\ w.chunk = z.chunk
        /\ w.missed = z.missed /\ w.writer = z.writer
        /\ \/ w.stage = z.stage /\ w.notify = z.notify
           \/ z.stage = "open" /\ w.stage = "begun" /\ w.notify = TRUE
    <3>. HIDE DEF w, z
    <3>. QED  BY <2>2, BegunEffect
  <2>4. Advances(obj[o], w)
    BY <2>1, <2>3 DEF Advances
  <2>5. Step(o, w)
    BY <1>3
  <2>. HIDE DEF w, z
  <2>6. /\ w.missed = obj[o].missed /\ w.queue = obj[o].queue
        /\ w.writer = "write" => w.chunk # None
        /\ w.writer \in {"dial", "loop"} => w.chunk = None
        /\ w.chunk # "gap"
    BY <2>1, <2>3, ObjectFacts, NoneAssumption
  <2>7. QED
    BY <2>2, <2>4, <2>5, <2>6, ObjectFacts, StepKeeps
<1>4. QED
  BY <1>1, <1>2, <1>3

LEMMA DialledKeeps ==
    ASSUME Inv, NEW o \in Object, Dialled(o)
    PROVE  Inv'
<1> DEFINE y == [obj[o] EXCEPT !.conn = "open"]
           z == [obj[o] EXCEPT !.conn = "open", !.writer = "loop", !.reader = "read"]
<1>1. Typed(y) /\ Typed(z)
  BY ObjectFacts, DialTyped
<1>2. /\ y.id = obj[o].id /\ y.control = obj[o].control /\ y.stage = obj[o].stage
      /\ y.notify = obj[o].notify /\ y.missed = obj[o].missed /\ y.queue = obj[o].queue
      /\ y.chunk = obj[o].chunk /\ y.writer = obj[o].writer
      /\ z.id = obj[o].id /\ z.control = obj[o].control /\ z.stage = obj[o].stage
      /\ z.notify = obj[o].notify /\ z.missed = obj[o].missed /\ z.queue = obj[o].queue
      /\ z.chunk = obj[o].chunk /\ z.writer = "loop"
  BY ObjectFacts DEF ObjectState
<1>3. Advances(obj[o], y) /\ Advances(obj[o], z) /\ Advances(obj[o], obj[o])
  BY <1>2 DEF Advances
<1>4. obj[o].writer = "dial" /\ obj[o].chunk = None
  BY ObjectFacts DEF Dialled
<1>5. Step(o, WriterEnds(obj[o])) \/ Step(o, WriterEnds(y)) \/ Step(o, z)
  BY DEF Dialled
<1>. HIDE DEF y, z
<1>6. CASE Step(o, WriterEnds(obj[o]))
  BY <1>3, <1>6, ObjectFacts, EndKeeps
<1>7. CASE Step(o, WriterEnds(y))
  BY <1>1, <1>2, <1>3, <1>7, ObjectFacts, EndKeeps
<1>8. CASE Step(o, z)
  <2>1. /\ z.missed = obj[o].missed /\ z.chunk = None /\ z.writer = "loop"
        /\ \A i \in 1 .. Len(z.queue) : z.queue[i] = "whole"
    BY <1>2, <1>4, ObjectFacts
  <2>2. None # "gap"
    BY NoneAssumption
  <2>3. QED
    BY <1>1, <1>3, <1>8, <2>1, <2>2, StepKeeps
<1>9. QED
  BY <1>5, <1>6, <1>7, <1>8

LEMMA TakeKeeps ==
    ASSUME Inv, NEW o \in Object, Take(o)
    PROVE  Inv'
<1> DEFINE x == obj[o]
           h == Head(x.queue)
           t == Tail(x.queue)
           y == [x EXCEPT !.writer = "write", !.chunk = h, !.queue = t]
<1>1. x.writer = "loop" /\ x.queue # <<>> /\ x.chunk = None /\ x.queue \in Seq(Data)
  BY ObjectFacts DEF Take, ObjectState
<1>2. Typed(y)
  BY <1>1, ObjectFacts, TakeTyped
<1>3. h = "whole" /\ \A i \in 1 .. Len(t) : t[i] = "whole"
  <2>1. /\ Len(x.queue) \in Nat \ {0} /\ Len(t) = Len(x.queue) - 1
        /\ h = x.queue[1] /\ \A i \in 1 .. Len(t) : t[i] = x.queue[i + 1]
    BY <1>1
  <2>2. QED
    BY <2>1, ObjectFacts
<1>4. Step(o, y)
  BY DEF Take
<1>. HIDE DEF h, t
<1>5. /\ y.id = x.id /\ y.control = x.control /\ y.stage = x.stage /\ y.notify = x.notify
      /\ y.missed = x.missed /\ y.queue = t /\ y.chunk = h /\ y.writer = "write"
  BY ObjectFacts DEF ObjectState
<1>6. Advances(x, y)
  BY <1>5 DEF Advances
<1>7. h # None
  BY <1>3, NoneAssumption
<1>. HIDE DEF y
<1>8. QED
  BY <1>2, <1>3, <1>4, <1>5, <1>6, <1>7, StepKeeps

LEMMA WriteKeeps ==
    ASSUME Inv, NEW o \in Object, Write(o)
    PROVE  Inv'
<1> DEFINE x == obj[o]
           y == [x EXCEPT !.writer = "loop", !.chunk = None, !.bytes = @ - 1]
<1>1. x.chunk # None
  BY ObjectFacts DEF Write
<1>2. Typed(y) /\ Step(o, y)
  BY <1>1, ObjectFacts, WriteTyped DEF Write
<1>3. /\ y.id = x.id /\ y.control = x.control /\ y.stage = x.stage /\ y.notify = x.notify
      /\ y.missed = x.missed /\ y.queue = x.queue /\ y.chunk = None /\ y.writer = "loop"
  BY ObjectFacts DEF ObjectState
<1>4. Advances(x, y)
  BY <1>3 DEF Advances
<1>5. None # "gap"
  BY NoneAssumption
<1>. HIDE DEF y
<1>6. QED
  BY <1>2, <1>3, <1>4, <1>5, ObjectFacts, StepKeeps

LEMMA TaskEndsKeeps ==
    ASSUME Inv, NEW o \in Object,
           DialFails(o) \/ LeaveLoop(o) \/ WriteFails(o) \/ LocalEnds(o) \/ ReadClosed(o)
    PROVE  Inv'
<1>1. Step(o, WriterEnds(obj[o])) \/ Step(o, WriterGivesUp(obj[o])) \/ Step(o, ReaderEnds(obj[o]))
  BY DEF DialFails, LeaveLoop, WriteFails, LocalEnds, ReadClosed
<1>2. Advances(obj[o], obj[o])
  BY DEF Advances
<1>3. QED
  BY <1>1, <1>2, ObjectFacts, EndKeeps

-----------------------------------------------------------------------------
(* finishLocal *)

LEMMA StageTyped ==
    ASSUME NEW x, Typed(x), NEW s \in {"removed", "done"},
           NEW c \in {"none", "open", "closed"}
    PROVE  Typed([x EXCEPT !.stage = s]) /\ Typed([x EXCEPT !.stage = s, !.conn = c])
BY StateFields DEF Typed

LEMMA ForgetKeeps ==
    ASSUME Inv, NEW o \in Object, Forget(o)
    PROVE  Inv'
<1> DEFINE x == obj[o]
           y == [x EXCEPT !.stage = "removed"]
           id == x.id
<1>1. x.stage = "begun" /\ id \in Id /\ Home[id] <= installed
  BY DEF Forget, Inv, ObjectInv, InUse
<1>2. /\ UNCHANGED <<session, clearer, reading, sending, failing, channels>>
      /\ UNCHANGED <<told, announced, dropped>>
  BY DEF Forget, loops, history
<1>3. /\ Typed(y) /\ y.id = id /\ y.control = x.control /\ y.stage = "removed"
      /\ y.notify = x.notify /\ y.queue = x.queue /\ y.missed = x.missed
      /\ y.chunk = x.chunk /\ y.writer = x.writer
  <2>1. Typed(x) /\ x \in ObjectState
    BY ObjectFacts
  <2>. HIDE DEF x
  <2>2. Typed(y)
    BY <2>1, StageTyped
  <2>3. /\ y.id = x.id /\ y.control = x.control /\ y.stage = "removed"
        /\ y.notify = x.notify /\ y.queue = x.queue /\ y.missed = x.missed
        /\ y.chunk = x.chunk /\ y.writer = x.writer
    BY <2>1 DEF ObjectState
  <2>4. QED
    BY <2>2, <2>3
<1>4. obj' = [obj EXCEPT ![o] = y]
  BY DEF Forget
<1>. HIDE DEF y
<1>5. obj'[o] = y /\ \A p \in Object \ {o} : obj'[p] = obj[p]
  BY <1>4, ObjectFacts
<1>6. SameUse
  BY <1>1, <1>3, <1>5 DEF SameUse
<1>7. /\ TableType' /\ MemoryInv'
      /\ \A e \in Id : local'[e] = IF e = id /\ local[e] = o THEN NoObject ELSE local[e]
      /\ local[id] = o => id \in ClosedLocal'
      /\ ClosedLocal' \subseteq ClosedLocal \cup {id}
      /\ AllRemembered => ClosedLocal \subseteq ClosedLocal'
  <2>1. TableType /\ MemoryInv /\ local \in [Id -> ObjectOrNone]
    BY TypeParts DEF Inv, TableType
  <2>2. CASE local[id] = o
    <3>1. local' = [local EXCEPT ![id] = NoObject] /\ Remember(id)
      BY <2>2 DEF Forget
    <3>2. QED
      BY <1>1, <1>2, <2>1, <2>2, <3>1, RememberEffect DEF TableType, ObjectOrNone, session
  <2>3. CASE local[id] # o
    <3>1. UNCHANGED table
      BY <2>3 DEF Forget
    <3>2. QED
      BY <1>2, <2>1, <2>3, <3>1, Frame DEF table, TableType, ClosedLocal
  <2>4. QED
    BY <2>2, <2>3
<1>8. ClearerInv' /\ ReadingInv' /\ NeverReopened'
  BY <1>2, <1>6, SameUseFrame
<1>9. ObjectType'
  BY <1>3, <1>4, TypeParts DEF Inv, ObjectType, Typed
<1>10. TypeOK'
  <2>1. (SessionType /\ ChannelType /\ SendType /\ HistoryType)'
    BY <1>2, TypeParts DEF Inv, SessionType, ChannelType, SendType, HistoryType, channels,
                           session
  <2>2. (reading \in ReadState /\ clearer \in [Clearer -> ClearState])'
    BY <1>2, TypeParts DEF Inv
  <2>3. QED
    BY <1>7, <1>9, <2>1, <2>2, TypesAreTypeOK DEF Types
<1>11. ControlInv'
  BY <1>2, <1>7 DEF Inv, ControlInv, session
<1>12. ObjectInv'
  BY <1>1, <1>2, <1>3, <1>5 DEF Inv, ObjectInv, InUse, Past, session
<1>13. QueueInv'
  BY <1>1, <1>2, <1>3, <1>5 DEF Inv, QueueInv, Closed
<1>14. LocalInv'
  BY <1>1, <1>2, <1>5, <1>7, TypeParts
     DEF Inv, LocalInv, TableType, ObjectOrNone, session
<1>15. KnownInv'
  BY <1>1, <1>2, <1>5, <1>6, <1>7
     DEF Inv, KnownInv, ObjectInv, AllRemembered, SameUse, InUse, Forgotten, Past, session
<1>16. AnnouncedInv'
  BY <1>1, <1>2, <1>3, <1>5, <1>7
     DEF Inv, AnnouncedInv, AllRemembered, InUse, Closed, Forgotten, Past, session
<1>17. ReportedInv'
  BY <1>1, <1>2, <1>3, <1>5, <1>7
     DEF Inv, ReportedInv, Reported, channels, session
<1>18. QED
  BY <1>7, <1>8, <1>10, <1>11, <1>12, <1>13, <1>14, <1>15, <1>16, <1>17 DEF Inv

LEMMA ShutKeeps ==
    ASSUME Inv, NEW o \in Object, Shut(o)
    PROVE  Inv'
<1> DEFINE x == obj[o]
           y == [x EXCEPT !.stage = "done", !.conn = IF @ = "open" THEN "closed" ELSE @]
           id == x.id
           g == x.control
<1>1. /\ x.stage = "removed" /\ id \in Id /\ g = Home[id] /\ g \in Control
      /\ ~x.notify => cancelled \/ id \in told \/ Past(id)
  BY HomeAssumption DEF Shut, Inv, ObjectInv, InUse
<1>2. UNCHANGED <<session, table, reading, clearer, sending, failing, told>>
  BY DEF Shut, loops
<1>3. /\ Typed(y) /\ y.id = id /\ y.control = g /\ y.stage = "done"
      /\ y.queue = x.queue /\ y.missed = x.missed
      /\ y.chunk = x.chunk /\ y.writer = x.writer
  <2>1. Typed(x) /\ x \in ObjectState /\ x.conn \in {"none", "open", "closed"}
    BY ObjectFacts DEF ObjectState
  <2>. HIDE DEF x
  <2>. DEFINE c == IF x.conn = "open" THEN "closed" ELSE x.conn
  <2>2. y = [x EXCEPT !.stage = "done", !.conn = c] /\ c \in {"none", "open", "closed"}
    BY <2>1
  <2>. HIDE DEF c
  <2>3. Typed(y)
    <3>. HIDE DEF y
    <3>. QED  BY <2>1, <2>2, StageTyped
  <2>4. /\ y.id = x.id /\ y.control = x.control /\ y.stage = "done"
        /\ y.queue = x.queue /\ y.missed = x.missed
        /\ y.chunk = x.chunk /\ y.writer = x.writer
    <3>. HIDE DEF y
    <3>. QED  BY <2>1, <2>2 DEF ObjectState
  <2>5. QED
    BY <2>3, <2>4
<1>4. obj' = [obj EXCEPT ![o] = y]
  BY DEF Shut
<1>5. /\ ChannelType'
      /\ announced' \in [Id -> 0 .. 2] /\ dropped' \in BOOLEAN
      /\ cancelled => UNCHANGED announced
      /\ \A e \in Id \ {id} : announced'[e] = announced[e]
      /\ announced[id] = 0 => announced'[id] \in {0, 1}
      /\ ToSet(notices) \subseteq ToSet(notices')
      /\ overload # NoControl => overload' = overload
      /\ dropped => dropped'
      /\ x.notify => cancelled \/ dropped' \/ <<g, id>> \in ToSet(notices') \/ overload' = g
  <2>1. ChannelType /\ HistoryType /\ SessionType
    BY TypeParts DEF Inv
  <2>2. CASE x.notify
    <3>1. Announce(g, id)
      BY <2>2 DEF Shut
    <3>2. QED
      BY <1>1, <2>1, <3>1, AnnounceEffect
  <2>3. CASE ~x.notify
    <3>1. UNCHANGED <<channels, announced, dropped>>
      BY <2>3 DEF Shut
    <3>2. QED
      BY <2>1, <2>3, <3>1 DEF ChannelType, HistoryType, channels
  <2>4. QED
    BY <2>2, <2>3
<1>. HIDE DEF y
<1>6. obj'[o] = y /\ \A p \in Object \ {o} : obj'[p] = obj[p]
  BY <1>4, ObjectFacts
<1>7. SameUse
  BY <1>1, <1>3, <1>6 DEF SameUse
<1>8. ClearerInv' /\ ReadingInv' /\ NeverReopened' /\ KnownInv'
  BY <1>2, <1>7, SameUseFrame
<1>9. ObjectType'
  BY <1>3, <1>4, TypeParts DEF Inv, ObjectType, Typed
<1>10. TypeOK'
  <2>1. (SessionType /\ TableType /\ SendType /\ HistoryType)'
    BY <1>2, <1>5, TypeParts DEF Inv, SessionType, TableType, SendType, HistoryType, session,
                                 table
  <2>2. (reading \in ReadState /\ clearer \in [Clearer -> ClearState])'
    BY <1>2, TypeParts DEF Inv
  <2>3. QED
    BY <1>5, <1>9, <2>1, <2>2, TypesAreTypeOK DEF Types
<1>11. ControlInv' /\ MemoryInv'
  BY <1>2, Frame DEF Inv, table
<1>12. ObjectInv'
  <2>1. \A p \in Object \ {o} : obj'[p] = obj[p] /\ Past(obj[p].id)' = Past(obj[p].id)
    BY <1>2, <1>6 DEF Past, session
  <2>2. y.control <= installed
    BY <1>1, <1>3 DEF Inv, ObjectInv, InUse
  <2>3. QED
    BY <1>1, <1>2, <1>3, <1>6, <2>1, <2>2 DEF Inv, ObjectInv, InUse, session
<1>13. QueueInv'
  BY <1>1, <1>2, <1>3, <1>6 DEF Inv, QueueInv, Closed
<1>14. LocalInv'
  BY <1>1, <1>2, <1>6, TypeParts
     DEF Inv, LocalInv, TableType, ObjectOrNone, session, table
<1>15. AnnouncedInv'
  <2>1. ASSUME cancelled' PROVE \A e \in Id : announced'[e] = 0
    BY <1>2, <1>5, <2>1 DEF Inv, AnnouncedInv, session
  <2>2. ASSUME AllRemembered, NEW e \in Id, announced'[e] # 0
        PROVE  /\ announced'[e] = 1 /\ Forgotten(e)
               /\ \A p \in Object : InUse(p) /\ obj[p].id = e => Closed(p) \/ p = o
    <3>1. CASE e = id
      <4>1. announced[id] = 0
        BY <1>1, <2>2 DEF Inv, AnnouncedInv, InUse, Closed
      <4>2. local[id] # o
        <5>1. o # NoObject
          BY ObjectAssumption
        <5>2. QED
          BY <1>1, <5>1 DEF Inv, LocalInv
      <4>3. Forgotten(id)
        BY <1>1, <2>2, <4>2 DEF Inv, KnownInv, InUse
      <4>4. \A p \in Object : InUse(p) /\ obj[p].id = id => p = o
        BY <1>1, <2>2 DEF Inv, NeverReopened, AllRemembered, InUse
      <4>5. QED
        BY <1>5, <2>2, <3>1, <4>1, <4>3, <4>4
    <3>2. CASE e # id
      BY <1>5, <2>2, <3>2 DEF Inv, AnnouncedInv
    <3>3. QED
      BY <3>1, <3>2
  <2>3. \A p \in Object : (InUse(p)' <=> InUse(p)) /\ (Closed(p) \/ p = o => Closed(p)')
    BY <1>3, <1>6, <1>7 DEF InUse, Closed, SameUse
  <2>4. \A e \in Id : Forgotten(e) => Forgotten(e)'
    BY <1>2 DEF Forgotten, Past, ClosedLocal, session, table
  <2>5. \A p \in Object : obj'[p].id = obj[p].id
    BY <1>7 DEF SameUse
  <2>6. QED
    BY <2>1, <2>2, <2>3, <2>4, <2>5 DEF AnnouncedInv, AllRemembered
<1>16. ReportedInv'
  <2>. SUFFICES ASSUME ~cancelled, ~dropped', NEW e \in ClosedLocal, Home[e] = current
                PROVE  Reported(e)'
    BY <1>2 DEF ReportedInv, Reported, ClosedLocal, session, table
  <2>1. e \in Id /\ current # NoControl /\ Reported(e) /\ UNCHANGED current
    BY <1>2, <1>5, HomeAssumption, TypeParts
       DEF Inv, ReportedInv, ClosedLocal, ToSet, TableType, NoControl, Control, session
  <2>2. CASE e = id /\ \A p \in Object \ {o} : obj[p].id = id
                            => obj[p].stage \notin {"begun", "removed"}
    <3>1. CASE x.notify
      BY <1>1, <1>2, <1>5, <2>1, <2>2, <3>1 DEF Reported
    <3>2. CASE ~x.notify
      BY <1>1, <1>2, <2>1, <2>2, <3>2 DEF Reported, Past
    <3>3. QED
      BY <3>1, <3>2
  <2>3. CASE \E p \in Object \ {o} : obj[p].id = e /\ obj[p].stage \in {"begun", "removed"}
    BY <1>6, <2>3 DEF Reported
  <2>4. CASE e # id /\ ~\E p \in Object \ {o} : obj[p].id = e
                                /\ obj[p].stage \in {"begun", "removed"}
    BY <1>2, <1>5, <2>1, <2>4 DEF Reported
  <2>5. QED
    BY <2>2, <2>3, <2>4
<1>17. QED
  BY <1>8, <1>10, <1>11, <1>12, <1>13, <1>14, <1>15, <1>16 DEF Inv

-----------------------------------------------------------------------------
(* The read loop *)

\* The loop goes on to something else.
LEMMA ReadingKeeps ==
    ASSUME Inv,
           UNCHANGED <<session, table, obj, clearer, sending, failing, channels, announced,
                       dropped>>,
           told \subseteq told', told' \subseteq Id,
           reading' \in ReadState, ReadingInv',
           \A o \in Object : obj[o].missed /\ ~Closed(o)
               => reading'.at = "finish" /\ reading'.obj = o
    PROVE  Inv'
<1>1. ControlInv' /\ ClearerInv' /\ LocalInv' /\ MemoryInv' /\ KnownInv' /\ NeverReopened'
      /\ AnnouncedInv'
  BY Frame DEF Inv, table
<1>2. ObjectInv'
  BY DEF Inv, ObjectInv, InUse, Past, session
<1>3. QueueInv'
  BY DEF Inv, QueueInv, Closed
<1>4. ReportedInv'
  BY DEF Inv, ReportedInv, Reported, ClosedLocal, session, table, channels
<1>5. TypeOK'
  <2>1. (SessionType /\ TableType /\ ObjectType)'
    BY TypeParts DEF Inv, SessionType, TableType, ObjectType, session, table
  <2>2. (ChannelType /\ SendType /\ HistoryType)'
    BY TypeParts DEF Inv, ChannelType, SendType, HistoryType, channels
  <2>3. QED
    BY <2>1, <2>2, TypeParts, TypesAreTypeOK DEF Inv, Types
<1>6. QED
  BY <1>1, <1>2, <1>3, <1>4, <1>5 DEF Inv

\* While the read loop does not wait for a connection to be finished, every
\* chunk it was given for one that is not closed has been queued.
LEMMA NothingMissed ==
    ASSUME Inv, NEW o \in Object, obj[o].missed, ~Closed(o)
    PROVE  reading.at = "finish" /\ reading.obj = o
BY DEF Inv, QueueInv

LEMMA ReadType ==
    ASSUME Inv
    PROVE  /\ reading \in ReadState /\ Rest \in ReadState
           /\ \A o \in Object, s \in {"push", "finish"} :
                 /\ [reading EXCEPT !.at = s] \in ReadState
                 /\ [reading EXCEPT !.at = s, !.obj = o] \in ReadState
BY TypeParts DEF Inv, ReadState, Rest, IdOrNone, ObjectOrNone

LEMMA RestKeeps ==
    ASSUME Inv, reading' = Rest, reading.at # "finish" \/ Closed(reading.obj),
           UNCHANGED <<session, table, obj, clearer, sending, failing, channels, history>>
    PROVE  Inv'
<1>1. ReadingInv' /\ reading' \in ReadState
  BY ReadType DEF Rest, ReadingInv
<1>2. told' = told /\ told \subseteq Id /\ UNCHANGED <<announced, dropped>>
  BY TypeParts DEF Inv, HistoryType, history
<1>3. QED
  BY <1>1, <1>2, NothingMissed, ReadingKeeps

LEMMA ReceiveKeeps ==
    ASSUME Inv, NEW id \in Id, NEW what \in {"data", "close"}, Receive(id, what)
    PROVE  Inv'
<1>1. /\ reading.at = "idle" /\ current = Home[id]
      /\ reading' = [at |-> what, id |-> id, obj |-> NoObject]
      /\ told' = IF what = "close" THEN told \cup {id} ELSE told
      /\ UNCHANGED <<session, table, obj, clearer, sending, failing, channels, announced,
                     dropped>>
  BY DEF Receive
<1>2. told \subseteq told' /\ told' \subseteq Id
  BY <1>1, TypeParts DEF Inv, HistoryType
<1>3. reading' \in ReadState
  BY <1>1 DEF ReadState, IdOrNone, ObjectOrNone
<1>4. Home[id] <= installed
  BY <1>1, HomeAssumption, TypeParts
     DEF Inv, ControlInv, SessionType, Control, NoControl
<1>5. ReadingInv'
  BY <1>1, <1>4 DEF ReadingInv, session
<1>6. QED
  BY <1>1, <1>2, <1>3, <1>5, NothingMissed, ReadingKeeps

\* What the read loop knows of the id whose DATA it accepts.
LEMMA AcceptedFacts ==
    ASSUME Inv, Accepted
    PROVE  /\ reading.at = "data" /\ reading.id \in Id /\ current = Home[reading.id]
           /\ current = installed /\ clearing = NoControl /\ current \in Control
           /\ Home[reading.id] <= installed
           /\ ~cancelled /\ ~Forgotten(reading.id)
           /\ AllRemembered => announced[reading.id] = 0
           /\ AllRemembered => \A o \in Object : InUse(o) /\ obj[o].id = reading.id
                                   => local[reading.id] = o
<1>1. /\ reading.at = "data" /\ reading.id \in Id /\ current = Home[reading.id]
      /\ current = installed /\ clearing = NoControl /\ ~cancelled
      /\ reading.id \notin ClosedLocal
  BY DEF Accepted, Inv, ReadingInv, ControlInv
<1>2. current \in Control /\ Home[reading.id] <= installed
  BY <1>1, HomeAssumption DEF Inv, ReadingInv
<1>3. ~Forgotten(reading.id)
  BY <1>1 DEF Forgotten, Past
<1>4. QED
  BY <1>1, <1>2, <1>3 DEF Inv, AnnouncedInv, KnownInv

LEMMA FindKeeps ==
    ASSUME Inv, Find
    PROVE  Inv'
<1>1. /\ Accepted /\ local[reading.id] # NoObject
      /\ reading' = [reading EXCEPT !.at = "push", !.obj = local[reading.id]]
      /\ UNCHANGED <<session, table, obj, clearer, sending, failing, channels, history>>
  BY DEF Find
<1>2. local[reading.id] \in Object /\ InUse(local[reading.id])
  BY <1>1, AcceptedFacts, TypeParts DEF Inv, LocalInv, TableType, ObjectOrNone, InUse
<1>3. reading' \in ReadState
  BY <1>1, <1>2, ReadType
<1>4. reading'.at = "push" /\ reading'.id = reading.id /\ reading'.obj = local[reading.id]
  BY <1>1, ReadType DEF ReadState
<1>5. ReadingInv'
  BY <1>1, <1>2, <1>4, AcceptedFacts DEF ReadingInv, InUse, session, Inv
<1>6. told' = told /\ told \subseteq Id /\ UNCHANGED <<announced, dropped>>
  BY <1>1, TypeParts DEF Inv, HistoryType, history
<1>7. reading.at # "finish"
  BY <1>1, AcceptedFacts
<1>8. QED
  BY <1>1, <1>3, <1>5, <1>6, <1>7, NothingMissed, ReadingKeeps

LEMMA RefuseKeeps ==
    ASSUME Inv, Refuse
    PROVE  Inv'
<1>0. Accepted
  BY DEF Refuse
<1> PICK id \in Id : id = reading.id
  BY <1>0, AcceptedFacts
<1>1. /\ Accepted /\ local[id] = NoObject /\ Remember(id) /\ Announce(current, id)
      /\ reading' = Rest
      /\ UNCHANGED <<session, local, obj, clearer, sending, failing, told>>
  BY DEF Refuse
<1>2. id \in Id /\ Home[id] <= installed /\ current = Home[id] /\ ~cancelled
  BY <1>1, AcceptedFacts, TypeParts DEF Inv, SessionType
<1>3. /\ closedOrder' \in Seq(Id) /\ Len(closedOrder') <= Remembered
      /\ MemoryInv'
      /\ id \in ClosedLocal'
      /\ ClosedLocal' \subseteq ClosedLocal \cup {id}
      /\ AllRemembered => ClosedLocal \subseteq ClosedLocal'
  BY <1>1, <1>2, RememberEffect, TypeParts DEF Inv, session
<1>4. /\ ChannelType'
      /\ announced' \in [Id -> 0 .. 2] /\ dropped' \in BOOLEAN
      /\ \A e \in Id \ {id} : announced'[e] = announced[e]
      /\ announced[id] = 0 => announced'[id] \in {0, 1}
      /\ ToSet(notices) \subseteq ToSet(notices')
      /\ overload # NoControl => overload' = overload
      /\ dropped => dropped'
      /\ dropped' \/ <<current, id>> \in ToSet(notices') \/ overload' = current
  BY <1>1, <1>2, AcceptedFacts, AnnounceEffect, TypeParts DEF Inv
<1>5. TypeOK'
  <2>1. (SessionType /\ TableType /\ ObjectType /\ SendType /\ HistoryType)'
    BY <1>1, <1>3, <1>4, TypeParts
       DEF Inv, SessionType, TableType, ObjectType, SendType, HistoryType, session
  <2>2. (reading \in ReadState /\ clearer \in [Clearer -> ClearState])'
    BY <1>1, ReadType, TypeParts DEF Inv
  <2>3. QED
    BY <1>4, <2>1, <2>2, TypesAreTypeOK DEF Types
<1>6. (ControlInv /\ ClearerInv /\ ObjectInv /\ LocalInv /\ NeverReopened)'
  BY <1>1, Frame DEF Inv
<1>7. ReadingInv'
  BY <1>1 DEF ReadingInv, Rest
<1>8. QueueInv'
  BY <1>1, NothingMissed, AcceptedFacts DEF Inv, QueueInv, Closed
<1>9. AllRemembered => \A e \in Id : Forgotten(e) => Forgotten(e)'
  BY <1>1, <1>3 DEF Forgotten, Past, session
<1>10. KnownInv'
  BY <1>1, <1>9 DEF Inv, KnownInv, ObjectInv, AllRemembered, InUse
<1>11. AnnouncedInv'
  <2>1. cancelled' = cancelled /\ Forgotten(id)'
    BY <1>1, <1>3 DEF Forgotten, session
  <2>2. ASSUME AllRemembered, NEW e \in Id, announced'[e] # 0
        PROVE  /\ announced'[e] = 1 /\ Forgotten(e)'
               /\ \A p \in Object : InUse(p) /\ obj[p].id = e => Closed(p)
    <3>1. CASE e = id
      <4>1. announced[id] = 0 /\ \A p \in Object : ~(InUse(p) /\ obj[p].id = id)
        BY <1>1, <2>2, AcceptedFacts, ObjectAssumption
      <4>2. QED
        BY <1>4, <2>1, <2>2, <3>1, <4>1
    <3>2. CASE e # id
      BY <1>4, <1>9, <2>2, <3>2 DEF Inv, AnnouncedInv
    <3>3. QED
      BY <3>1, <3>2
  <2>3. QED
    BY <1>1, <1>2, <2>1, <2>2 DEF AnnouncedInv, AllRemembered, InUse, Closed
<1>12. ReportedInv'
  <2>. SUFFICES ASSUME ~dropped', NEW e \in ClosedLocal', Home[e] = current
                PROVE  Reported(e)'
    BY <1>1 DEF ReportedInv, Reported, session
  <2>1. UNCHANGED <<current, told, sending, failing, obj>> /\ current # NoControl
    BY <1>1, AcceptedFacts DEF session, Control, NoControl
  <2>2. CASE e = id
    BY <1>4, <2>1, <2>2 DEF Reported
  <2>3. CASE e # id
    <3>1. Reported(e)
      BY <1>2, <1>3, <1>4, <2>3 DEF Inv, ReportedInv
    <3>2. QED
      BY <1>4, <2>1, <3>1 DEF Reported
  <2>4. QED
    BY <2>2, <2>3
<1>13. QED
  BY <1>3, <1>5, <1>6, <1>7, <1>8, <1>10, <1>11, <1>12 DEF Inv

LEMMA CreateKeeps ==
    ASSUME Inv, Create
    PROVE  Inv'
<1>0. Accepted
  BY DEF Create
<1> PICK id \in Id : id = reading.id
  BY <1>0, AcceptedFacts
<1>1. PICK o \in Object :
          /\ ~InUse(o)
          /\ local' = [local EXCEPT ![id] = o]
          /\ obj' = [obj EXCEPT ![o] = [Unused EXCEPT !.id = id,
                        !.control = current, !.stage = "open", !.writer = "dial"]]
          /\ reading' = [reading EXCEPT !.at = "push", !.obj = o]
  BY DEF Create
<1>2. /\ Accepted /\ local[id] = NoObject
      /\ UNCHANGED <<session, closedOrder, clearer, sending, failing, channels>>
      /\ UNCHANGED <<told, announced, dropped>>
  BY DEF Create, history
<1>3. /\ id \in Id /\ current = Home[id] /\ current = installed /\ current \in Control
      /\ Home[id] <= installed /\ clearing = NoControl /\ ~cancelled /\ ~Forgotten(id)
  BY <1>2, AcceptedFacts
<1> DEFINE y == [Unused EXCEPT !.id = id, !.control = current, !.stage = "open",
                               !.writer = "dial"]
<1>4. /\ y.id = id /\ y.control = current /\ y.stage = "open" /\ y.queue = <<>>
      /\ y.chunk = None /\ ~y.missed /\ y.writer = "dial" /\ y.bytes = 0
  BY DEF Unused
<1>5. Typed(y)
  <2>1. <<>> \in Queue /\ 0 \in Bytes /\ None \in Chunk
    BY SizeAssumption DEF Queue, Bytes, Chunk
  <2>2. y \in ObjectState
    BY <1>3, <2>1, StateFields DEF Unused
  <2>3. QED
    BY <1>4, <2>2 DEF Typed
<1>6. obj' = [obj EXCEPT ![o] = y]
  BY <1>1
<1>. HIDE DEF y
<1>7. /\ obj'[o] = y /\ \A p \in Object \ {o} : obj'[p] = obj[p]
      /\ obj[o].stage = "none"
  BY <1>1, <1>6, ObjectFacts DEF InUse
<1>8. /\ local' \in [Id -> ObjectOrNone] /\ local'[id] = o
      /\ \A e \in Id \ {id} : local'[e] = local[e]
      /\ \A e \in Id : local[e] # o
  <2>1. \A e \in Id : local[e] # o
    BY <1>7, ObjectAssumption DEF Inv, LocalInv
  <2>2. QED
    BY <1>1, <1>3, <2>1, TypeParts DEF Inv, TableType, ObjectOrNone
<1>9. /\ reading' \in ReadState /\ reading'.at = "push" /\ reading'.id = id
      /\ reading'.obj = o
  BY <1>1, ReadType DEF ReadState
<1>10. TypeOK'
  <2>1. ObjectType'
    BY <1>5, <1>6, TypeParts DEF Inv, ObjectType, Typed
  <2>2. (SessionType /\ TableType)'
    BY <1>2, <1>8, TypeParts DEF Inv, SessionType, TableType, session
  <2>3. (ChannelType /\ SendType /\ HistoryType)'
    BY <1>2, TypeParts DEF Inv, ChannelType, SendType, HistoryType, channels
  <2>4. (clearer \in [Clearer -> ClearState])'
    BY <1>2, TypeParts DEF Inv
  <2>5. QED
    BY <1>9, <2>1, <2>2, <2>3, <2>4, TypesAreTypeOK DEF Types
<1>11. ControlInv'
  BY <1>2, <1>3 DEF Inv, ControlInv, session
<1>12. ClearerInv'
  <2>1. \A k \in Clearer : InHand(k)' = InHand(k) /\ InHand(k) \subseteq Object
    BY <1>2, TypeParts DEF Inv, InHand, ClearState, ObjectSet, ObjectOrNone
  <2>2. \A k \in Clearer : o \notin InHand(k)
    BY <1>7 DEF Inv, ClearerInv, InUse, Clearer
  <2>3. QED
    BY <1>2, <1>7, <2>1, <2>2 DEF Inv, ClearerInv, InUse, Past, Clearer, session
<1>13. ReadingInv'
  <2>1. (reading.id \in Id /\ Home[reading.id] <= installed)'
    BY <1>2, <1>3, <1>9 DEF session
  <2>2. (current \in {NoControl, Home[reading.id]})'
    BY <1>2, <1>3, <1>9 DEF session
  <2>3. InUse(reading.obj)' /\ reading'.obj \in Object
    BY <1>4, <1>7, <1>9 DEF InUse
  <2>4. QED
    BY <1>9, <2>1, <2>2, <2>3 DEF ReadingInv
<1>14. ObjectInv'
  <2>1. \A p \in Object \ {o} : obj'[p] = obj[p] /\ Past(obj[p].id)' = Past(obj[p].id)
    BY <1>2, <1>7 DEF Past, session
  <2>2. QED
    BY <1>2, <1>3, <1>4, <1>7, <2>1 DEF Inv, ObjectInv, InUse, session
<1>15. QueueInv'
  <2>1. reading.at # "finish"
    BY <1>2, AcceptedFacts
  <2>2. QED
    BY <1>4, <1>7, <2>1, NoneAssumption DEF Inv, QueueInv, Closed
<1>16. LocalInv'
  <2>1. \A e \in Id \ {id} : local[e] # NoObject => local[e] \in Object \ {o}
    BY <1>8, TypeParts DEF Inv, TableType, ObjectOrNone
  <2>2. \A e \in Id \ {id} : local'[e] # NoObject =>
            obj'[local'[e]] = obj[local[e]] /\ local[e] # NoObject
    BY <1>7, <1>8, <2>1
  <2>3. obj'[local'[id]].id = id /\ obj'[local'[id]].stage = "open" /\ Home[id] = current'
    BY <1>2, <1>3, <1>4, <1>7, <1>8 DEF session
  <2>4. ASSUME NEW e \in Id \ {id}, local'[e] # NoObject
        PROVE  /\ obj'[local'[e]].id = e /\ obj'[local'[e]].stage \in {"open", "begun"}
               /\ Home[e] \in {current', clearing'}
    BY <1>2, <2>2, <2>4 DEF Inv, LocalInv, session
  <2>5. QED
    BY <2>3, <2>4 DEF LocalInv
<1>17. MemoryInv'
  BY <1>2, Frame DEF Inv
<1>18. \A e \in Id : Forgotten(e)' <=> Forgotten(e)
  BY <1>2 DEF Forgotten, Past, ClosedLocal, session
<1>19. KnownInv'
  BY <1>2, <1>4, <1>7, <1>8, <1>18, ObjectAssumption
     DEF Inv, KnownInv, ObjectInv, AllRemembered, InUse
<1>20. NeverReopened'
  <2>1. AllRemembered => \A p \in Object : ~(InUse(p) /\ obj[p].id = id)
    BY <1>2, AcceptedFacts, ObjectAssumption
  <2>2. \A p \in Object \ {o} : obj'[p] = obj[p]
    BY <1>7
  <2>. SUFFICES ASSUME AllRemembered, NEW p \in Object, NEW q \in Object,
                       InUse(p)', InUse(q)', obj'[p].id = obj'[q].id
                PROVE  p = q
    BY DEF NeverReopened, AllRemembered
  <2>3. QED
    BY <1>4, <1>7, <2>1, <2>2 DEF Inv, NeverReopened, InUse, AllRemembered, ObjectInv
<1>21. AnnouncedInv'
  <2>1. AllRemembered => announced[id] = 0
    BY <1>2, AcceptedFacts
  <2>2. QED
    BY <1>2, <1>4, <1>7, <1>18, <2>1
       DEF Inv, AnnouncedInv, InUse, Closed, AllRemembered, session
<1>22. ReportedInv'
  BY <1>2, <1>4, <1>7 DEF Inv, ReportedInv, Reported, ClosedLocal, channels, session
<1>23. QED
  BY <1>10, <1>11, <1>12, <1>13, <1>14, <1>15, <1>16, <1>17, <1>19, <1>20, <1>21, <1>22
     DEF Inv

LEMMA PushKeeps ==
    ASSUME Inv, Push
    PROVE  Inv'
<1>1. /\ reading.at = "push" /\ reading.obj \in Object /\ InUse(reading.obj)
      /\ reading.id \in Id
      /\ UNCHANGED <<session, table, clearer, sending, failing, channels, told, announced,
                     dropped>>
  BY DEF Push, Inv, ReadingInv, history
<1> PICK o \in Object : o = reading.obj
  BY <1>1
<1> DEFINE x == obj[o]
           m == [x EXCEPT !.missed = TRUE]
           c == IF x.missed THEN "gap" ELSE "whole"
           q == [x EXCEPT !.bytes = @ + 1, !.queue = Append(@, c)]
           b == Begun(m, TRUE)
<1>2. CASE Closed(o)
  <2>1. reading' = Rest /\ obj' = obj
    BY <1>2 DEF Push, Closed
  <2>2. QED
    BY <1>1, <2>1, RestKeeps DEF history
<1>. SUFFICES ASSUME ~Closed(o) PROVE Inv'
  BY <1>2
<1>3. ~x.missed
  BY <1>1, NothingMissed
<1>4. Typed(x) /\ x \in ObjectState /\ obj \in [Object -> ObjectState]
  BY ObjectFacts
\* Either way the connection is one of type, the same but for its queue and what
\* happens to it now.
<1>5. ASSUME NEW y, Typed(y), Advances(x, y), obj' = [obj EXCEPT ![o] = y],
             reading' \in ReadState, reading'.id = reading.id \/ reading' = Rest,
             reading'.at \in {"idle", "finish"},
             reading'.at = "finish" => reading'.obj = o,
             y.missed => reading'.at = "finish",
             \A i \in 1 .. Len(y.queue) : y.queue[i] = "whole",
             y.chunk = x.chunk, y.writer = x.writer
      PROVE  Inv'
  <2>0. UNCHANGED local /\ UNCHANGED closedOrder
    BY <1>1 DEF table
  <2>1. /\ ObjectType' /\ SameUse /\ ObjectInv' /\ LocalInv' /\ AnnouncedInv' /\ ReportedInv'
    BY <1>1, <1>5, <2>0, AdvanceEffect
  <2>2. ClearerInv' /\ KnownInv' /\ NeverReopened'
    BY <1>1, <2>1, SameUseFrame
  <2>3. ControlInv' /\ MemoryInv'
    BY <1>1, <2>0, Frame DEF Inv
  <2>4. obj'[o] = y /\ \A p \in Object \ {o} : obj'[p] = obj[p]
    BY <1>4, <1>5
  <2>5. ReadingInv'
    <3>1. CASE reading' = Rest
      BY <3>1 DEF ReadingInv, Rest
    <3>2. CASE reading'.id = reading.id
      BY <1>1, <1>5, <2>1, <3>2 DEF Inv, ReadingInv, InUse, SameUse, session
    <3>3. QED
      BY <1>5, <3>1, <3>2
  <2>6. QueueInv'
    <3>1. \A p \in Object \ {o} : obj[p].missed => Closed(p)
      BY <1>1, NothingMissed
    <3>2. QED
      BY <1>5, <2>4, <3>1, ObjectFacts DEF Inv, QueueInv, Closed
  <2>7. TypeOK'
    <3>1. (SessionType /\ TableType)'
      BY <1>1, <2>0, TypeParts DEF Inv, SessionType, TableType, session
    <3>2. (ChannelType /\ SendType /\ HistoryType)'
      BY <1>1, TypeParts DEF Inv, ChannelType, SendType, HistoryType, channels
    <3>3. (clearer \in [Clearer -> ClearState])'
      BY <1>1, TypeParts DEF Inv
    <3>4. QED
      BY <1>5, <2>1, <3>1, <3>2, <3>3, TypesAreTypeOK DEF Types
  <2>8. QED
    BY <2>1, <2>2, <2>3, <2>5, <2>6, <2>7 DEF Inv
<1>6. CASE Full(x)
  <2>1. obj' = [obj EXCEPT ![o] = b] /\ reading' = [reading EXCEPT !.at = "finish"]
    BY <1>6 DEF Push
  <2>2. Typed(m)
    BY <1>4, StateFields DEF Typed
  <2>3. /\ m.id = x.id /\ m.control = x.control /\ m.stage = x.stage /\ m.notify = x.notify
        /\ m.queue = x.queue /\ m.chunk = x.chunk /\ m.writer = x.writer
    BY <1>4 DEF ObjectState
  <2>4. Typed(b)
    BY <2>2, BegunTyped
  <2>. HIDE DEF m
  <2>5. /\ b.id = x.id /\ b.control = x.control /\ b.queue = x.queue /\ b.chunk = x.chunk
        /\ b.writer = x.writer
        /\ \/ b.stage = x.stage /\ b.notify = x.notify
           \/ x.stage = "open" /\ b.stage = "begun" /\ b.notify = TRUE
    <3>1. b.id = m.id /\ b.control = m.control /\ b.queue = m.queue /\ b.chunk = m.chunk
          /\ b.writer = m.writer
      BY <2>2, BegunEffect
    <3>2. \/ b.stage = m.stage /\ b.notify = m.notify
          \/ m.stage = "open" /\ b.stage = "begun" /\ b.notify = TRUE
      BY <2>2, BegunEffect
    <3>. HIDE DEF b, x
    <3>3. QED
      BY <2>3, <3>1, <3>2
  <2>6. Advances(x, b)
    BY <2>5 DEF Advances
  <2>7. /\ reading' \in ReadState /\ reading'.id = reading.id /\ reading'.at = "finish"
        /\ reading'.obj = o
    BY <2>1, ReadType DEF ReadState
  <2>. HIDE DEF b
  <2>8. \A i \in 1 .. Len(b.queue) : b.queue[i] = "whole"
    BY <2>5, ObjectFacts
  <2>9. QED
    BY <1>5, <2>1, <2>4, <2>5, <2>6, <2>7, <2>8
<1>7. CASE ~Full(x)
  <2>1. obj' = [obj EXCEPT ![o] = q] /\ reading' = Rest
    BY <1>7 DEF Push
  <2>2. c = "whole" /\ c \in Data
    BY <1>3 DEF Data
  <2>3. Typed(q)
    BY <1>4, <1>7, <2>2, PushTyped
  <2>4. /\ q.id = x.id /\ q.control = x.control /\ q.stage = x.stage /\ q.notify = x.notify
        /\ q.queue = Append(x.queue, c) /\ q.chunk = x.chunk /\ q.writer = x.writer
        /\ q.missed = x.missed
    BY <1>4 DEF ObjectState
  <2>5. Advances(x, q)
    BY <2>4 DEF Advances
  <2>6. \A i \in 1 .. Len(q.queue) : q.queue[i] = "whole"
    <3>1. x.queue \in Seq(Data)
      BY <1>4 DEF ObjectState
    <3>. HIDE DEF c, q
    <3>2. /\ Len(q.queue) = Len(x.queue) + 1 /\ Len(x.queue) \in Nat
          /\ \A i \in 1 .. Len(x.queue) : q.queue[i] = x.queue[i]
          /\ q.queue[Len(x.queue) + 1] = c
      BY <2>2, <2>4, <3>1
    <3>3. \A i \in 1 .. Len(x.queue) : x.queue[i] = "whole"
      BY ObjectFacts
    <3>. HIDE DEF x
    <3>4. QED
      BY <2>2, <3>2, <3>3
  <2>7. Rest \in ReadState /\ Rest.at = "idle"
    BY ReadType DEF Rest
  <2>. HIDE DEF c, q
  <2>8. QED
    BY <1>3, <1>5, <2>1, <2>3, <2>4, <2>5, <2>6, <2>7
<1>8. QED
  BY <1>6, <1>7

LEMMA CloseConnectionKeeps ==
    ASSUME Inv, CloseConnection
    PROVE  Inv'
<1>1. /\ reading.at = "close" /\ reading.id \in Id /\ Home[reading.id] <= installed
      /\ Remember(reading.id)
      /\ cancelled \/ reading.id \in told
      /\ UNCHANGED <<session, local, clearer, sending, failing, channels, told, announced,
                     dropped>>
  BY DEF CloseConnection, Inv, ReadingInv, history
<1> PICK id \in Id : id = reading.id
  BY <1>1
<1>2. /\ closedOrder' \in Seq(Id) /\ Len(closedOrder') <= Remembered
      /\ MemoryInv'
      /\ ClosedLocal' \subseteq ClosedLocal \cup {id}
      /\ AllRemembered => ClosedLocal \subseteq ClosedLocal'
  BY <1>1, RememberEffect, TypeParts DEF Inv, session
<1>3. /\ ObjectType' /\ SameUse /\ ObjectInv' /\ LocalInv'
      /\ \A o \in Object : /\ obj'[o].stage = "done" <=> obj[o].stage = "done"
                           /\ obj[o].stage \in {"begun", "removed"}
                                 => obj'[o].stage \in {"begun", "removed"}
                           /\ obj'[o].queue = obj[o].queue /\ obj'[o].missed = obj[o].missed
                           /\ obj'[o].chunk = obj[o].chunk /\ obj'[o].writer = obj[o].writer
      /\ reading' \in ReadState /\ ReadingInv'
  <2>1. CASE local[id] = NoObject
    <3>1. reading' = Rest /\ obj' = obj
      BY <2>1 DEF CloseConnection
    <3>2. QED
      BY <1>1, <3>1, Frame, ReadType, TypeParts
         DEF Inv, ObjectType, SameUse, ReadingInv, Rest
  <2>2. CASE local[id] # NoObject
    <3> PICK o \in Object : o = local[id]
      BY <2>2, TypeParts DEF Inv, TableType, ObjectOrNone
    <3> DEFINE x == obj[o]
               y == Begun(x, FALSE)
    <3>1. obj' = [obj EXCEPT ![o] = y] /\ reading' = [reading EXCEPT !.at = "finish", !.obj = o]
      BY <2>2 DEF CloseConnection
    <3>2. x.id = id /\ InUse(o)
      BY <2>2 DEF Inv, LocalInv, InUse
    <3>3. Typed(y)
      BY ObjectFacts, BegunTyped
    <3>4. /\ y.id = x.id /\ y.control = x.control /\ y.queue = x.queue /\ y.chunk = x.chunk
          /\ y.writer = x.writer /\ y.missed = x.missed
          /\ \/ y.stage = x.stage /\ y.notify = x.notify
             \/ x.stage = "open" /\ y.stage = "begun" /\ y.notify = FALSE
      <4>1. Typed(x)
        BY ObjectFacts
      <4>. HIDE DEF x
      <4>2. QED
        BY <4>1, BegunEffect
    <3>5. Advances(x, y)
      BY <1>1, <3>2, <3>4 DEF Advances
    <3>. HIDE DEF y
    <3>6. ObjectType' /\ SameUse /\ ObjectInv' /\ LocalInv'
      BY <1>1, <3>1, <3>3, <3>5, AdvanceEffect
    <3>7. obj'[o] = y /\ \A p \in Object \ {o} : obj'[p] = obj[p]
      BY <3>1, ObjectFacts
    <3>8. /\ reading' \in ReadState /\ reading'.id = id /\ reading'.at = "finish"
          /\ reading'.obj = o
      BY <3>1, ReadType DEF ReadState
    <3>9. ReadingInv'
      BY <1>1, <3>2, <3>6, <3>8 DEF Inv, ReadingInv, InUse, SameUse, session
    <3>10. QED
      BY <3>4, <3>6, <3>7, <3>8, <3>9
  <2>3. QED
    BY <2>1, <2>2
<1>4. ClearerInv' /\ NeverReopened'
  BY <1>1, <1>3, SameUseFrame
<1>5. ControlInv'
  BY <1>1, Frame DEF Inv
<1>6. TypeOK'
  <2>1. (SessionType /\ TableType)'
    BY <1>1, <1>2, TypeParts DEF Inv, SessionType, TableType, session
  <2>2. (ChannelType /\ SendType /\ HistoryType)'
    BY <1>1, TypeParts DEF Inv, ChannelType, SendType, HistoryType, channels
  <2>3. (clearer \in [Clearer -> ClearState])'
    BY <1>1, TypeParts DEF Inv
  <2>4. QED
    BY <1>3, <2>1, <2>2, <2>3, TypesAreTypeOK DEF Types
<1>7. QueueInv'
  BY <1>1, <1>3, NothingMissed DEF Inv, QueueInv, Closed
<1>8. AllRemembered => \A e \in Id : Forgotten(e) => Forgotten(e)'
  BY <1>1, <1>2 DEF Forgotten, Past, session
<1>9. KnownInv'
  BY <1>1, <1>3, <1>8 DEF Inv, KnownInv, ObjectInv, AllRemembered, InUse, SameUse
<1>10. AnnouncedInv'
  BY <1>1, <1>3, <1>8 DEF Inv, AnnouncedInv, AllRemembered, InUse, Closed, SameUse, session
<1>11. ReportedInv'
  <2>. SUFFICES ASSUME ~cancelled, ~dropped, NEW e \in ClosedLocal', Home[e] = current
                PROVE  Reported(e)'
    BY <1>1 DEF ReportedInv, Reported, session
  <2>1. CASE e = id
    BY <1>1, <2>1 DEF Reported
  <2>2. CASE e # id
    BY <1>1, <1>2, <1>3, <2>2 DEF Inv, ReportedInv, Reported, SameUse, channels, session
  <2>3. QED
    BY <2>1, <2>2
<1>12. QED
  BY <1>2, <1>3, <1>4, <1>5, <1>6, <1>7, <1>9, <1>10, <1>11 DEF Inv

LEMMA ReadingStepKeeps ==
    ASSUME Inv, Reading
    PROVE  Inv'
<1>1. ASSUME Discard PROVE Inv'
  BY <1>1, RestKeeps DEF Discard
<1>2. ASSUME ReadFinished PROVE Inv'
  BY <1>2, RestKeeps DEF ReadFinished, Closed
<1>3. QED
  BY <1>1, <1>2, FindKeeps, RefuseKeeps, CreateKeeps, PushKeeps, CloseConnectionKeeps
     DEF Reading

-----------------------------------------------------------------------------
(* The control connection and closeAllLocalConns *)

LEMMA ClearerFacts ==
    ASSUME Inv
    PROVE  /\ clearer \in [Clearer -> ClearState]
           /\ "fail" \in Clearer /\ "stop" \in Clearer
           /\ \A k \in Clearer : /\ clearer[k].objs \subseteq Object
                                 /\ clearer[k].obj \in ObjectOrNone
                                 /\ InHand(k) \subseteq Object
           /\ \A id \in Id : Home[id] # NoControl /\ Home[id] \in Nat
           /\ installed \in Nat /\ current \in Nat /\ clearing \in Nat
<1>1. clearer \in [Clearer -> ClearState]
  BY TypeParts DEF Inv
<1>2. \A k \in Clearer : clearer[k].objs \subseteq Object /\ clearer[k].obj \in ObjectOrNone
  BY <1>1 DEF ClearState, ObjectSet
<1>3. \A id \in Id : Home[id] # NoControl /\ Home[id] \in Nat
  BY HomeAssumption DEF Control, NoControl
<1>4. installed \in Nat /\ current \in Nat /\ clearing \in Nat
  BY TypeParts, ControlAssumption DEF Inv, SessionType, ControlOrNone, Control, NoControl
<1>5. \A k \in Clearer : InHand(k) \subseteq Object
  BY <1>2 DEF InHand, ObjectOrNone
<1>6. QED
  BY <1>1, <1>2, <1>3, <1>4, <1>5 DEF Clearer

\* A caller of closeAllLocalConns goes on.
LEMMA ClearerKeeps ==
    ASSUME Inv, clearer' \in [Clearer -> ClearState], ControlInv', ClearerInv',
           UNCHANGED <<session, table, obj, reading, sending, failing, channels, history>>
    PROVE  Inv'
<1>1. UNCHANGED <<told, announced, dropped, local, closedOrder>>
  BY DEF history, table
<1>2. (ReadingInv /\ ObjectInv /\ QueueInv /\ LocalInv /\ MemoryInv)'
  BY <1>1, Frame DEF Inv
<1>3. (KnownInv /\ NeverReopened /\ AnnouncedInv /\ ReportedInv)'
  BY <1>1, Frame DEF Inv
<1>4. TypeOK'
  <2>1. (SessionType /\ TableType /\ ObjectType)'
    BY <1>1, TypeParts DEF Inv, SessionType, TableType, ObjectType, session
  <2>2. (ChannelType /\ SendType /\ HistoryType)'
    BY <1>1, TypeParts DEF Inv, ChannelType, SendType, HistoryType, channels
  <2>3. (reading \in ReadState)'
    BY TypeParts DEF Inv
  <2>4. QED
    BY <2>1, <2>2, <2>3, TypesAreTypeOK DEF Types
<1>5. QED
  BY <1>2, <1>3, <1>4 DEF Inv

\* ClearerAt(k, step) puts k at that step and leaves the rest alone.
LEMMA ClearerAtEffect ==
    ASSUME Inv, NEW k \in Clearer,
           NEW s \in {"idle", "close", "closing", "swap", "finish", "done"},
           clearer' = ClearerAt(k, s)
    PROVE  /\ clearer' \in [Clearer -> ClearState]
           /\ clearer'[k].at = s
           /\ \A j \in Clearer \ {k} : clearer'[j] = clearer[j]
           /\ \A j \in Clearer : InHand(j)' = InHand(j)
<1>1. clearer' \in [Clearer -> ClearState]
  BY ClearerFacts DEF ClearerAt, ClearState
<1>2. /\ clearer'[k].at = s /\ clearer'[k].objs = clearer[k].objs
      /\ clearer'[k].obj = clearer[k].obj
      /\ \A j \in Clearer \ {k} : clearer'[j] = clearer[j]
  BY ClearerFacts DEF ClearerAt, ClearState
<1>3. \A j \in Clearer : clearer'[j].objs = clearer[j].objs /\ clearer'[j].obj = clearer[j].obj
  BY <1>2
<1>4. QED
  BY <1>1, <1>2, <1>3 DEF InHand

LEMMA InstallKeeps ==
    ASSUME Inv, Install
    PROVE  Inv'
<1>1. /\ reading.at = "idle" /\ ~cancelled /\ installed < MaxControls
      /\ current = NoControl /\ clearing = NoControl
      /\ current' = installed + 1 /\ installed' = installed + 1
      /\ UNCHANGED <<clearing, cancelled, table, obj, reading, clearer, sending, failing,
                     channels, history>>
  BY DEF Install, S!Install, loops
<1>2. UNCHANGED <<local, closedOrder, told, announced, dropped>>
  BY <1>1 DEF table, history
<1>3. \A id \in Id : local[id] = NoObject
  BY <1>1, ClearerFacts DEF Inv, LocalInv
<1>4. \A id \in Id : Home[id] <= installed => Past(id)' /\ Home[id] <= installed'
  BY <1>1, ClearerFacts DEF Past
<1>5. \A id \in Id : (Past(id) => Past(id)') /\ (Forgotten(id) => Forgotten(id)')
  BY <1>1, <1>2, <1>4 DEF Past, Forgotten, ClosedLocal
<1>6. TypeOK'
  <2>1. SessionType'
    BY <1>1, ClearerFacts, ControlAssumption, TypeParts
       DEF Inv, SessionType, ControlOrNone, Control
  <2>2. (TableType /\ ObjectType /\ reading \in ReadState
            /\ clearer \in [Clearer -> ClearState])'
    BY <1>1, <1>2, TypeParts DEF Inv, TableType, ObjectType
  <2>3. (ChannelType /\ SendType /\ HistoryType)'
    BY <1>1, <1>2, TypeParts DEF Inv, ChannelType, SendType, HistoryType, channels
  <2>4. QED
    BY <2>1, <2>2, <2>3, TypesAreTypeOK DEF Types
<1>7. ControlInv'
  BY <1>1, <1>2, ClearerFacts DEF Inv, ControlInv
<1>8. ClearerInv'
  <2>1. \A k \in Clearer : InHand(k)' = InHand(k)
    BY <1>1 DEF InHand
  <2>2. \A k \in Clearer : \A o \in InHand(k) : o \in Object /\ InUse(o) /\ obj[o].id \in Id
    BY ClearerFacts DEF Inv, ClearerInv, ObjectInv, Clearer
  <2>3. QED
    BY <1>1, <1>5, <2>1, <2>2 DEF Inv, ClearerInv, InUse, Clearer
<1>9. ReadingInv'
  BY <1>1 DEF ReadingInv
<1>10. ObjectInv'
  <2>1. ASSUME NEW o \in Object, InUse(o) PROVE obj[o].control <= installed'
    BY <1>1, <1>4, <2>1 DEF Inv, ObjectInv
  <2>2. QED
    BY <1>1, <1>2, <1>5, <2>1 DEF Inv, ObjectInv, InUse
<1>11. QueueInv' /\ NeverReopened'
  BY <1>1, Frame DEF Inv
<1>12. LocalInv'
  BY <1>2, <1>3 DEF LocalInv
<1>13. MemoryInv'
  <2>1. \A id \in ClosedLocal : id \in Id
    BY TypeParts DEF Inv, TableType, ClosedLocal, ToSet
  <2>2. QED
    BY <1>2, <1>4, <2>1 DEF Inv, MemoryInv, ClosedLocal
<1>14. KnownInv'
  BY <1>1, <1>2, <1>5 DEF Inv, KnownInv, ObjectInv, AllRemembered, InUse
<1>15. AnnouncedInv'
  BY <1>1, <1>2, <1>5 DEF Inv, AnnouncedInv, AllRemembered, InUse, Closed
<1>16. ReportedInv'
  <2>1. \A id \in ClosedLocal' : id \in Id /\ Home[id] <= installed
    BY <1>2, TypeParts DEF Inv, TableType, MemoryInv, ClosedLocal, ToSet
  <2>2. \A id \in ClosedLocal' : Home[id] # current'
    BY <1>4, <2>1 DEF Past
  <2>3. QED
    BY <2>2 DEF ReportedInv, Reported
<1>17. QED
  BY <1>6, <1>7, <1>8, <1>9, <1>10, <1>11, <1>12, <1>13, <1>14, <1>15, <1>16 DEF Inv

\* failConn, by whichever thread.
LEMMA FailKeeps ==
    ASSUME Inv, current # NoControl, clearing = NoControl,
           current' = NoControl, clearing' = current,
           UNCHANGED <<installed, cancelled, table, obj, reading, sending, channels, history>>,
           failing' \in ControlOrNone, clearer' \in [Clearer -> ClearState],
           \A k \in Clearer : InHand(k)' = InHand(k),
           clearer'["fail"].at = "swap", clearer'["stop"].at # "idle" <=> cancelled
    PROVE  Inv'
<1>1. UNCHANGED <<local, closedOrder, told, announced, dropped>>
  BY DEF table, history
<1>2. /\ \A id \in Id : Past(id) => Past(id)'
      /\ \A id \in Id : Forgotten(id) => Forgotten(id)'
  BY <1>1, ClearerFacts DEF Past, Forgotten, ClosedLocal
<1>3. TypeOK'
  <2>1. SessionType' /\ SendType'
    BY TypeParts DEF Inv, SessionType, SendType, ControlOrNone
  <2>2. (TableType /\ ObjectType /\ reading \in ReadState)'
    BY <1>1, TypeParts DEF Inv, TableType, ObjectType
  <2>3. (ChannelType /\ HistoryType)'
    BY <1>1, TypeParts DEF Inv, ChannelType, HistoryType, channels
  <2>4. QED
    BY <2>1, <2>2, <2>3, TypesAreTypeOK DEF Types
<1>4. ControlInv'
  BY <1>1, ClearerFacts DEF Inv, ControlInv
<1>5. ClearerInv'
  <2>1. \A k \in Clearer : \A o \in InHand(k) : o \in Object /\ InUse(o) /\ obj[o].id \in Id
    BY ClearerFacts DEF Inv, ClearerInv, ObjectInv, Clearer
  <2>2. QED
    BY <1>2, <2>1 DEF Inv, ClearerInv, InUse, Clearer
<1>6. ReadingInv'
  BY <1>1 DEF Inv, ReadingInv, InUse
<1>7. ObjectInv'
  BY <1>1, <1>2 DEF Inv, ObjectInv, InUse
<1>8. QueueInv' /\ NeverReopened'
  BY Frame DEF Inv
<1>9. LocalInv'
  BY <1>1, ClearerFacts DEF Inv, LocalInv
<1>10. MemoryInv'
  BY <1>1 DEF Inv, MemoryInv, ClosedLocal
<1>11. KnownInv'
  BY <1>1, <1>2 DEF Inv, KnownInv, ObjectInv, AllRemembered, InUse
<1>12. AnnouncedInv'
  BY <1>1, <1>2 DEF Inv, AnnouncedInv, AllRemembered, InUse, Closed
<1>13. ReportedInv'
  <2>1. \A id \in ClosedLocal' : Home[id] # current'
    BY <1>1, ClearerFacts, TypeParts DEF Inv, TableType, ClosedLocal, ToSet
  <2>2. QED
    BY <2>1 DEF ReportedInv, Reported
<1>14. QED
  BY <1>3, <1>4, <1>5, <1>6, <1>7, <1>8, <1>9, <1>10, <1>11, <1>12, <1>13 DEF Inv

LEMMA LoseKeeps ==
    ASSUME Inv, Lose
    PROVE  Inv'
<1>1. /\ current # NoControl /\ clearing = NoControl
      /\ current' = NoControl /\ clearing' = current
      /\ clearer' = ClearerAt("fail", "swap")
      /\ UNCHANGED <<installed, cancelled, table, obj, reading, sending, channels, history>>
      /\ failing' = failing
  BY DEF Lose, Fail, S!Lose
<1>2. /\ clearer' \in [Clearer -> ClearState] /\ clearer'["fail"].at = "swap"
      /\ clearer'["stop"] = clearer["stop"]
      /\ \A k \in Clearer : InHand(k)' = InHand(k)
  BY <1>1, ClearerFacts, ClearerAtEffect DEF Clearer
<1>3. failing' \in ControlOrNone /\ (clearer'["stop"].at # "idle" <=> cancelled)
  BY <1>1, <1>2, TypeParts DEF Inv, SendType, ControlInv
<1>4. QED
  BY <1>1, <1>2, <1>3, FailKeeps

LEMMA StopClosesKeeps ==
    ASSUME Inv, StopCloses
    PROVE  Inv'
<1> DEFINE a == ClearerAt("fail", "swap")
<1>1. /\ current # NoControl /\ clearing = NoControl /\ clearer["stop"].at = "close"
      /\ current' = NoControl /\ clearing' = current
      /\ clearer' = [a EXCEPT !["stop"].at = "closing"]
      /\ UNCHANGED <<installed, cancelled, table, obj, reading, sending, channels, history>>
      /\ failing' = failing
  BY DEF StopCloses, Fail, S!Lose
<1>2. /\ a \in [Clearer -> ClearState] /\ a["fail"].at = "swap" /\ a["stop"] = clearer["stop"]
      /\ a["fail"].objs = clearer["fail"].objs /\ a["fail"].obj = clearer["fail"].obj
  BY ClearerFacts DEF ClearerAt, ClearState, Clearer
<1>. HIDE DEF a
<1>3. /\ clearer' \in [Clearer -> ClearState] /\ clearer'["fail"] = a["fail"]
      /\ clearer'["stop"].at = "closing"
      /\ clearer'["stop"].objs = a["stop"].objs /\ clearer'["stop"].obj = a["stop"].obj
  BY <1>1, <1>2 DEF ClearState, Clearer
<1>4. \A k \in Clearer : InHand(k)' = InHand(k)
  BY <1>2, <1>3 DEF InHand, Clearer
<1>5. failing' \in ControlOrNone /\ cancelled
  BY <1>1, TypeParts DEF Inv, SendType, ControlInv
<1>6. QED
  BY <1>1, <1>2, <1>3, <1>4, <1>5, FailKeeps

LEMMA StopKeeps ==
    ASSUME Inv, Stop
    PROVE  Inv'
<1>1. /\ clearer["stop"].at = "idle" /\ cancelled' = TRUE
      /\ clearer' = ClearerAt("stop", "close")
      /\ notices' = <<>> /\ overload' = NoControl
      /\ told' = {} /\ announced' = [id \in Id |-> 0] /\ dropped' = FALSE
      /\ UNCHANGED <<current, clearing, installed, table, obj, reading, sending, failing>>
  BY DEF Stop
<1>2. UNCHANGED <<local, closedOrder>>
  BY <1>1 DEF table
<1>3. /\ clearer' \in [Clearer -> ClearState] /\ clearer'["stop"].at = "close"
      /\ clearer'["fail"] = clearer["fail"]
      /\ \A k \in Clearer : InHand(k)' = InHand(k)
  BY <1>1, ClearerFacts, ClearerAtEffect DEF Clearer
<1>4. TypeOK'
  <2>1. (SessionType /\ TableType /\ ObjectType /\ reading \in ReadState /\ SendType)'
    BY <1>1, <1>2, TypeParts DEF Inv, SessionType, TableType, ObjectType, SendType
  <2>2. ChannelType'
    BY <1>1, SizeAssumption DEF ChannelType, ControlOrNone
  <2>3. told' \subseteq Id /\ announced' \in [Id -> 0 .. 2] /\ dropped' \in BOOLEAN
    <3>1. 0 \in 0 .. 2
      OBVIOUS
    <3>2. QED
      BY <1>1, <3>1
  <2>4. QED
    BY <1>3, <2>1, <2>2, <2>3, TypesAreTypeOK DEF Types, HistoryType
<1>5. ControlInv'
  BY <1>1, <1>2, <1>3 DEF Inv, ControlInv
<1>6. ClearerInv'
  BY <1>1, <1>3 DEF Inv, ClearerInv, InUse, Clearer
<1>7. ReadingInv'
  BY <1>1 DEF Inv, ReadingInv, InUse
<1>8. ObjectInv'
  BY <1>1 DEF Inv, ObjectInv, InUse
<1>9. QueueInv' /\ NeverReopened'
  BY <1>1, Frame DEF Inv
<1>10. LocalInv' /\ MemoryInv'
  BY <1>1, <1>2 DEF Inv, LocalInv, MemoryInv, ClosedLocal
<1>11. KnownInv'
  BY <1>1 DEF KnownInv, Forgotten
<1>12. AnnouncedInv'
  BY <1>1 DEF AnnouncedInv
<1>13. ReportedInv'
  BY <1>1 DEF ReportedInv
<1>14. QED
  BY <1>4, <1>5, <1>6, <1>7, <1>8, <1>9, <1>10, <1>11, <1>12, <1>13 DEF Inv

LEMMA StopClosedKeeps ==
    ASSUME Inv, StopClosed
    PROVE  Inv'
<1>1. /\ clearer["stop"].at # "idle" /\ clearer' = ClearerAt("stop", "swap")
      /\ UNCHANGED <<session, table, obj, reading, sending, failing, channels, history>>
  BY DEF StopClosed
<1>2. /\ clearer' \in [Clearer -> ClearState] /\ clearer'["stop"].at = "swap"
      /\ clearer'["fail"] = clearer["fail"]
      /\ \A k \in Clearer : InHand(k)' = InHand(k)
  BY <1>1, ClearerFacts, ClearerAtEffect DEF Clearer
<1>3. ControlInv'
  BY <1>1, <1>2 DEF Inv, ControlInv, session, table
<1>4. ClearerInv'
  BY <1>1, <1>2 DEF Inv, ClearerInv, InUse, Past, Clearer, session
<1>5. QED
  BY <1>1, <1>2, <1>3, <1>4, ClearerKeeps

\* The connections taken out of the map are those of the connection that was
\* lost, or the client stops.
LEMMA SwapKeeps ==
    ASSUME Inv, NEW k \in Clearer, Swap(k)
    PROVE  Inv'
<1> DEFINE taken == {local[id] : id \in Id} \ {NoObject}
<1>1. /\ clearer[k].at = "swap"
      /\ clearer' = [clearer EXCEPT ![k].at = "finish", ![k].objs = taken]
      /\ local' = [id \in Id |-> NoObject] /\ closedOrder' = <<>>
      /\ UNCHANGED <<session, obj, reading, sending, failing, channels, history>>
  BY DEF Swap
<1>2. UNCHANGED <<current, clearing, installed, cancelled, told, announced, dropped>>
  BY <1>1 DEF session, history
<1>3. cancelled \/ (k = "fail" /\ current = NoControl)
  BY <1>1 DEF Inv, ControlInv, Clearer
<1>4. \A id \in Id : Home[id] <= installed => Forgotten(id)' /\ (cancelled \/ Past(id))
  BY <1>2, <1>3, ClearerFacts DEF Forgotten, Past
<1>5. /\ taken \in ObjectSet
      /\ \A o \in taken : InUse(o) /\ obj[o].id \in Id /\ Home[obj[o].id] <= installed
  <2>1. ASSUME NEW id \in Id, local[id] # NoObject
        PROVE  local[id] \in Object /\ InUse(local[id])
    BY <2>1, TypeParts DEF Inv, TableType, ObjectOrNone, LocalInv, InUse
  <2>2. \A o \in taken : o \in Object /\ InUse(o)
    BY <2>1
  <2>3. QED
    BY <2>2 DEF Inv, ObjectInv, ObjectSet
<1>. HIDE DEF taken
<1>6. /\ clearer' \in [Clearer -> ClearState] /\ clearer'[k].at = "finish"
      /\ clearer'[k].objs = taken /\ clearer'[k].obj = clearer[k].obj
      /\ \A j \in Clearer \ {k} : clearer'[j] = clearer[j]
  BY <1>1, <1>5, ClearerFacts DEF ClearState
<1>7. TypeOK'
  <2>1. TableType'
    BY <1>1, SizeAssumption DEF TableType, ObjectOrNone
  <2>2. (SessionType /\ ObjectType /\ reading \in ReadState /\ SendType)'
    BY <1>1, <1>2, TypeParts DEF Inv, SessionType, ObjectType, SendType
  <2>3. (ChannelType /\ HistoryType)'
    BY <1>1, <1>2, TypeParts DEF Inv, ChannelType, HistoryType, channels
  <2>4. QED
    BY <1>6, <2>1, <2>2, <2>3, TypesAreTypeOK DEF Types
<1>8. ControlInv'
  BY <1>1, <1>2, <1>6 DEF Inv, ControlInv, Clearer
<1>9. ClearerInv'
  <2>1. InHand(k)' \subseteq taken \cup InHand(k)
    BY <1>6 DEF InHand
  <2>2. \A j \in Clearer \ {k} : InHand(j)' = InHand(j)
    BY <1>6 DEF InHand
  <2>3. \A o \in taken : InUse(o)' /\ (cancelled \/ Past(obj[o].id))'
    BY <1>1, <1>2, <1>4, <1>5 DEF InUse, Past
  <2>4. \A j \in Clearer : \A o \in InHand(j) : InUse(o)' /\ (cancelled \/ Past(obj[o].id))'
    BY <1>1, <1>2 DEF Inv, ClearerInv, InUse, Past, Clearer
  <2>5. QED
    BY <2>1, <2>2, <2>3, <2>4 DEF ClearerInv, Clearer
<1>10. (ReadingInv /\ ObjectInv /\ QueueInv /\ NeverReopened)'
  BY <1>1, <1>2, Frame DEF Inv
<1>11. LocalInv'
  BY <1>1 DEF LocalInv
<1>12. MemoryInv' /\ ReportedInv'
  BY <1>1 DEF MemoryInv, ReportedInv, ClosedLocal, ToSet
<1>13. KnownInv'
  BY <1>1, <1>4 DEF Inv, KnownInv, ObjectInv, AllRemembered, InUse
<1>14. AnnouncedInv'
  <2>1. \A id \in Id : Forgotten(id) => Forgotten(id)'
    BY <1>2, <1>4 DEF Inv, MemoryInv, Forgotten, Past
  <2>2. QED
    BY <1>1, <1>2, <2>1 DEF Inv, AnnouncedInv, AllRemembered, InUse, Closed
<1>15. QED
  BY <1>7, <1>8, <1>9, <1>10, <1>11, <1>12, <1>13, <1>14 DEF Inv

LEMMA ClearNextKeeps ==
    ASSUME Inv, NEW k \in Clearer, ClearNext(k)
    PROVE  Inv'
<1>1. PICK o \in clearer[k].objs :
          /\ obj' = [obj EXCEPT ![o] = Begun(@, FALSE)]
          /\ clearer' = [clearer EXCEPT ![k].objs = @ \ {o}, ![k].obj = o]
  BY DEF ClearNext
<1>2. /\ clearer[k].at = "finish" /\ clearer[k].obj = NoObject
      /\ UNCHANGED <<session, table, reading, sending, failing, channels, history>>
  BY DEF ClearNext
<1>3. o \in Object /\ InUse(o) /\ (cancelled \/ Past(obj[o].id))
  BY ClearerFacts DEF Inv, ClearerInv, InHand, Clearer
<1> DEFINE x == obj[o]
           y == Begun(x, FALSE)
<1>4. obj' = [obj EXCEPT ![o] = y]
  BY <1>1
<1>5. Typed(y)
  BY <1>3, ObjectFacts, BegunTyped
<1>6. /\ y.id = x.id /\ y.control = x.control /\ y.queue = x.queue /\ y.chunk = x.chunk
      /\ y.writer = x.writer /\ y.missed = x.missed
      /\ \/ y.stage = x.stage /\ y.notify = x.notify
         \/ x.stage = "open" /\ y.stage = "begun" /\ y.notify = FALSE
  BY <1>3, ObjectFacts, BegunEffect
<1>7. Advances(x, y)
  BY <1>3, <1>6 DEF Advances
<1>. HIDE DEF y
<1>8. UNCHANGED <<local, closedOrder, told, announced, dropped>>
  BY <1>2 DEF table, history
<1>9. ObjectType' /\ SameUse /\ ObjectInv' /\ LocalInv' /\ AnnouncedInv' /\ ReportedInv'
  BY <1>2, <1>3, <1>4, <1>5, <1>7, <1>8, AdvanceEffect
<1>10. /\ clearer' \in [Clearer -> ClearState]
       /\ clearer'[k].at = clearer[k].at /\ clearer'[k].objs = clearer[k].objs \ {o}
       /\ clearer'[k].obj = o /\ \A j \in Clearer \ {k} : clearer'[j] = clearer[j]
  <2>1. clearer[k].objs \ {o} \in ObjectSet /\ o \in ObjectOrNone
    BY <1>3, ClearerFacts DEF ObjectSet, ObjectOrNone
  <2> DEFINE rest == clearer[k].objs \ {o}
  <2>2. clearer' = [clearer EXCEPT ![k].objs = rest, ![k].obj = o]
    BY <1>1
  <2>3. rest \in ObjectSet
    BY <2>1
  <2>. HIDE DEF rest
  <2>4. QED
    BY <2>1, <2>2, <2>3, ClearerFacts DEF ClearState, rest
<1>11. ClearerInv'
  <2>1. \A j \in Clearer : InHand(j)' \subseteq InHand(j)
    BY <1>10 DEF InHand
  <2>2. \A j \in Clearer : InHand(j) \subseteq Object
    BY ClearerFacts
  <2>3. QED
    BY <1>2, <1>9, <2>1, <2>2 DEF Inv, ClearerInv, SameUse, InUse, Past, Clearer, session
<1>12. ReadingInv' /\ KnownInv' /\ NeverReopened'
  BY <1>2, <1>8, <1>9, SameUseFrame
<1>13. ControlInv'
  <2>1. \A j \in Clearer : clearer'[j].at = clearer[j].at
    BY <1>10
  <2>2. QED
    BY <1>2, <1>8, <2>1, ClearerFacts DEF Inv, ControlInv, session
<1>14. MemoryInv'
  BY <1>2, <1>8, Frame DEF Inv
<1>15. QueueInv'
  BY <1>2, <1>3, <1>4, <1>6, ObjectFacts DEF Inv, QueueInv, Closed
<1>16. TypeOK'
  <2>1. (SessionType /\ TableType /\ reading \in ReadState)'
    BY <1>2, <1>8, TypeParts DEF Inv, SessionType, TableType, session
  <2>2. (ChannelType /\ SendType /\ HistoryType)'
    BY <1>2, <1>8, TypeParts DEF Inv, ChannelType, SendType, HistoryType, channels
  <2>3. QED
    BY <1>9, <1>10, <2>1, <2>2, TypesAreTypeOK DEF Types
<1>17. QED
  BY <1>9, <1>11, <1>12, <1>13, <1>14, <1>15, <1>16 DEF Inv

LEMMA ClearedOneKeeps ==
    ASSUME Inv, NEW k \in Clearer, ClearedOne(k)
    PROVE  Inv'
<1>1. /\ clearer' = [clearer EXCEPT ![k].obj = NoObject]
      /\ UNCHANGED <<session, table, obj, reading, sending, failing, channels, history>>
  BY DEF ClearedOne
<1>2. NoObject \in ObjectOrNone
  BY DEF ObjectOrNone
<1>3. /\ clearer' \in [Clearer -> ClearState]
      /\ \A j \in Clearer : /\ clearer'[j].at = clearer[j].at
                            /\ clearer'[j].objs = clearer[j].objs
                            /\ clearer'[j].obj \in {clearer[j].obj, NoObject}
  BY <1>1, <1>2, ClearerFacts DEF ClearState
<1>4. ControlInv'
  BY <1>1, <1>3, ClearerFacts DEF Inv, ControlInv, session, table
<1>5. ClearerInv'
  <2>1. \A j \in Clearer : InHand(j)' \subseteq InHand(j)
    BY <1>3 DEF InHand
  <2>2. QED
    BY <1>1, <2>1 DEF Inv, ClearerInv, InUse, Past, Clearer, session
<1>6. QED
  BY <1>1, <1>3, <1>4, <1>5, ClearerKeeps

LEMMA ClearedAllKeeps ==
    ASSUME Inv, NEW k \in Clearer, ClearedAll(k)
    PROVE  Inv'
<1>1. /\ clearer[k].at = "finish"
      /\ UNCHANGED <<installed, cancelled, table, obj, reading, sending, failing, channels,
                     history>>
  BY DEF ClearedAll
<1>2. CASE k = "fail"
  <2>1. /\ clearing # NoControl /\ clearing' = NoControl /\ current' = current
        /\ clearer' = ClearerAt("fail", "idle")
    BY <1>2 DEF ClearedAll, S!Cleared
  <2>2. /\ clearer' \in [Clearer -> ClearState] /\ clearer'["fail"].at = "idle"
        /\ clearer'["stop"] = clearer["stop"]
        /\ \A j \in Clearer : InHand(j)' = InHand(j)
    BY <2>1, ClearerFacts, ClearerAtEffect DEF Clearer
  <2>3. UNCHANGED <<local, closedOrder, told, announced, dropped>>
    BY <1>1 DEF table, history
  <2>4. \A id \in Id : local[id] = NoObject
    BY <1>1, <1>2 DEF Inv, ControlInv
  <2>5. TypeOK'
    <3>1. (SessionType /\ TableType /\ ObjectType /\ reading \in ReadState)'
      BY <1>1, <2>1, <2>3, TypeParts
         DEF Inv, SessionType, TableType, ObjectType, ControlOrNone
    <3>2. (ChannelType /\ SendType /\ HistoryType)'
      BY <1>1, <2>3, TypeParts DEF Inv, ChannelType, SendType, HistoryType, channels
    <3>3. QED
      BY <2>2, <3>1, <3>2, TypesAreTypeOK DEF Types
  <2>6. ControlInv'
    BY <1>1, <2>1, <2>2, <2>3, ClearerFacts DEF Inv, ControlInv, NoControl
  <2>7. ClearerInv'
    BY <1>1, <2>1, <2>2 DEF Inv, ClearerInv, InUse, Past, Clearer
  <2>8. ReadingInv' /\ ObjectInv'
    BY <1>1, <2>1, <2>3 DEF Inv, ReadingInv, ObjectInv, InUse, Past
  <2>9. QueueInv' /\ NeverReopened'
    BY <1>1, Frame DEF Inv
  <2>10. LocalInv'
    BY <2>3, <2>4 DEF LocalInv
  <2>11. MemoryInv'
    BY <1>1, <2>3 DEF Inv, MemoryInv, ClosedLocal
  <2>12. KnownInv' /\ AnnouncedInv'
    BY <1>1, <2>1, <2>3
       DEF Inv, KnownInv, AnnouncedInv, AllRemembered, InUse, Closed, Forgotten, Past,
           ClosedLocal
  <2>13. ReportedInv'
    BY <1>1, <2>1, <2>3 DEF Inv, ReportedInv, Reported, ClosedLocal, channels
  <2>14. QED
    BY <2>5, <2>6, <2>7, <2>8, <2>9, <2>10, <2>11, <2>12, <2>13 DEF Inv
<1>3. CASE k # "fail"
  <2>1. /\ k = "stop" /\ UNCHANGED <<current, clearing>> /\ clearer' = ClearerAt("stop", "done")
    BY <1>3 DEF ClearedAll, Clearer
  <2>2. /\ clearer' \in [Clearer -> ClearState] /\ clearer'["stop"].at = "done"
        /\ clearer'["fail"] = clearer["fail"]
        /\ \A j \in Clearer : InHand(j)' = InHand(j)
    BY <2>1, ClearerFacts, ClearerAtEffect DEF Clearer
  <2>3. UNCHANGED session
    BY <1>1, <2>1 DEF session
  <2>4. ControlInv'
    <3>1. cancelled
      BY <1>1, <2>1 DEF Inv, ControlInv
    <3>2. UNCHANGED <<current, clearing, installed, cancelled, local>>
      BY <1>1, <2>1 DEF table
    <3>3. ControlInv /\ clearer'["fail"].at = clearer["fail"].at
      BY <2>2 DEF Inv
    <3>4. clearer'["stop"].at # "idle"
      BY <2>2
    <3>5. QED
      BY <3>1, <3>2, <3>3, <3>4 DEF ControlInv
  <2>5. ClearerInv'
    BY <1>1, <2>2, <2>3 DEF Inv, ClearerInv, InUse, Past, Clearer, session
  <2>6. QED
    BY <1>1, <2>2, <2>3, <2>4, <2>5, ClearerKeeps
<1>4. QED
  BY <1>2, <1>3

-----------------------------------------------------------------------------
(* The close notifications and the overload signal *)

\* A message that waits, or is being sent, may move on as long as the server
\* will learn of its id.
LEMMA NoticeKeeps ==
    ASSUME Inv,
           UNCHANGED <<session, table, obj, reading, clearer, failing, overload, announced,
                       dropped>>,
           notices' \in Seq(Notice), Len(notices') <= NoticeSize,
           sending' \in Notice \cup {None}, told \subseteq told', told' \subseteq Id,
           ~cancelled /\ current # NoControl => \A id \in Id :
              \/ <<current, id>> \in ToSet(notices) \/ <<current, id>> = sending
              => \/ id \in told' \/ <<current, id>> \in ToSet(notices')
                 \/ <<current, id>> = sending'
    PROVE  Inv'
<1>1. UNCHANGED <<current, clearing, installed, cancelled, local, closedOrder>>
  BY DEF session, table
<1>2. TypeOK'
  <2>1. (SessionType /\ TableType /\ ObjectType /\ reading \in ReadState
            /\ clearer \in [Clearer -> ClearState])'
    BY <1>1, TypeParts DEF Inv, SessionType, TableType, ObjectType
  <2>2. (ChannelType /\ SendType /\ HistoryType)'
    BY TypeParts DEF Inv, ChannelType, SendType, HistoryType
  <2>3. QED
    BY <2>1, <2>2, TypesAreTypeOK DEF Types
<1>3. (ControlInv /\ ClearerInv /\ QueueInv /\ LocalInv /\ MemoryInv)'
  BY <1>1, Frame DEF Inv
<1>4. (KnownInv /\ NeverReopened /\ AnnouncedInv)'
  BY <1>1, Frame DEF Inv
<1>5. ReadingInv' /\ ObjectInv'
  BY <1>1 DEF Inv, ReadingInv, ObjectInv, InUse, Past
<1>6. ReportedInv'
  <2>1. ClosedLocal' = ClosedLocal /\ ClosedLocal \subseteq Id
    BY <1>1, TypeParts DEF Inv, TableType, ClosedLocal, ToSet
  <2>2. \A id \in Id : Home[id] # NoControl
    BY ClearerFacts
  <2>3. ASSUME ~cancelled, NEW id \in ClosedLocal, Reported(id) PROVE Reported(id)'
    <3>1. CASE current = NoControl
      BY <1>1, <2>1, <2>2, <3>1 DEF Reported
    <3>2. CASE current # NoControl
      <4>1. id \in Id
        BY <2>1
      <4>2. QED
        BY <1>1, <2>3, <3>2, <4>1 DEF Reported
    <3>3. QED
      BY <3>1, <3>2
  <2>4. QED
    BY <1>1, <2>1, <2>3 DEF Inv, ReportedInv
<1>7. QED
  BY <1>2, <1>3, <1>4, <1>5, <1>6 DEF Inv

LEMMA TakeNoticeKeeps ==
    ASSUME Inv, TakeNotice
    PROVE  Inv'
<1> DEFINE n == Len(notices)
           h == Head(notices)
           t == Tail(notices)
<1>1. /\ sending = None /\ notices # <<>> /\ sending' = h /\ notices' = t
      /\ UNCHANGED <<session, table, obj, reading, clearer, failing, overload, told,
                     announced, dropped>>
  BY DEF TakeNotice, history
<1>2. notices \in Seq(Notice) /\ n <= NoticeSize /\ told \subseteq Id
  BY TypeParts DEF Inv, ChannelType, HistoryType
<1>3. /\ n \in Nat \ {0} /\ h = notices[1] /\ h \in Notice
      /\ t \in Seq(Notice) /\ Len(t) = n - 1
      /\ \A i \in 1 .. n - 1 : t[i] = notices[i + 1]
  BY <1>1, <1>2
<1>4. \A e \in ToSet(notices) : e = h \/ e \in ToSet(t)
  <2>1. DOMAIN notices = 1 .. n /\ DOMAIN t = 1 .. n - 1
    BY <1>2, <1>3
  <2>. HIDE DEF n, h, t
  <2>2. ASSUME NEW i \in 1 .. n, i # 1 PROVE i - 1 \in 1 .. n - 1 /\ notices[i] = t[i - 1]
    BY <1>3, <2>2
  <2>3. QED
    BY <1>3, <2>1, <2>2 DEF ToSet
<1>. HIDE DEF n, h, t
<1>5. NoticeSize \in Nat /\ Len(notices') <= NoticeSize
  BY <1>1, <1>2, <1>3, SizeAssumption
<1>6. \A id \in Id : <<current, id>> = sending => <<current, id>> \notin Notice
  BY <1>1, NoneAssumption DEF Notice
<1>7. \A id \in Id : current = NoControl \/ <<current, id>> \in Notice
  BY TypeParts DEF Inv, SessionType, ControlOrNone, Notice
<1>8. QED
  BY <1>1, <1>2, <1>3, <1>4, <1>5, <1>6, <1>7, NoticeKeeps

LEMMA SendNoticeKeeps ==
    ASSUME Inv, SendNotice
    PROVE  Inv'
<1>1. /\ sending # None /\ sending' = None
      /\ told' = IF sending[1] = current /\ ~cancelled THEN told \cup {sending[2]} ELSE told
      /\ UNCHANGED <<session, table, obj, reading, clearer, failing, notices, overload,
                     announced, dropped>>
  BY DEF SendNotice, channels
<1>2. /\ notices \in Seq(Notice) /\ Len(notices) <= NoticeSize
      /\ sending \in Notice /\ told \subseteq Id
  BY <1>1, TypeParts DEF Inv, ChannelType, SendType, HistoryType
<1>3. sending[2] \in Id /\ \A id \in Id : <<current, id>> = sending =>
                                 sending[1] = current /\ sending[2] = id
  BY <1>2 DEF Notice
<1>4. told \subseteq told' /\ told' \subseteq Id
  BY <1>1, <1>2, <1>3
<1>5. QED
  BY <1>1, <1>2, <1>3, <1>4, NoticeKeeps

LEMMA TakeOverloadKeeps ==
    ASSUME Inv, TakeOverload
    PROVE  Inv'
<1>1. /\ failing = NoControl /\ failing' = overload /\ overload' = NoControl
      /\ UNCHANGED <<session, table, obj, reading, clearer, sending, notices, history>>
  BY DEF TakeOverload
<1>2. UNCHANGED <<current, clearing, installed, cancelled, local, closedOrder, told,
                  announced, dropped>>
  BY <1>1 DEF session, table, history
<1>3. TypeOK'
  <2>1. (SessionType /\ TableType /\ ObjectType /\ reading \in ReadState
            /\ clearer \in [Clearer -> ClearState])'
    BY <1>1, <1>2, TypeParts DEF Inv, SessionType, TableType, ObjectType
  <2>2. (ChannelType /\ SendType /\ HistoryType)'
    BY <1>1, <1>2, TypeParts
       DEF Inv, ChannelType, SendType, HistoryType, ControlOrNone
  <2>3. QED
    BY <2>1, <2>2, TypesAreTypeOK DEF Types
<1>4. (ControlInv /\ ClearerInv /\ ReadingInv /\ ObjectInv /\ QueueInv /\ LocalInv)'
  BY <1>1, <1>2, Frame DEF Inv
<1>5. (MemoryInv /\ KnownInv /\ NeverReopened /\ AnnouncedInv)'
  BY <1>1, <1>2, Frame DEF Inv
<1>6. ReportedInv'
  BY <1>1, <1>2, ClearerFacts, TypeParts
     DEF Inv, ReportedInv, Reported, ClosedLocal, TableType, ToSet
<1>7. QED
  BY <1>3, <1>4, <1>5, <1>6 DEF Inv

LEMMA FailOverloadedKeeps ==
    ASSUME Inv, FailOverloaded
    PROVE  Inv'
<1>1. failing # NoControl /\ failing' = NoControl
  BY DEF FailOverloaded
<1>2. CASE failing = current
  <2>1. /\ current # NoControl /\ clearing = NoControl
        /\ current' = NoControl /\ clearing' = current
        /\ clearer' = ClearerAt("fail", "swap")
        /\ UNCHANGED <<installed, cancelled, table, obj, reading, sending, channels, history>>
    BY <1>2 DEF FailOverloaded, Fail, S!Lose
  <2>2. /\ clearer' \in [Clearer -> ClearState] /\ clearer'["fail"].at = "swap"
        /\ clearer'["stop"] = clearer["stop"]
        /\ \A k \in Clearer : InHand(k)' = InHand(k)
    BY <2>1, ClearerFacts, ClearerAtEffect DEF Clearer
  <2>3. failing' \in ControlOrNone /\ (clearer'["stop"].at # "idle" <=> cancelled)
    BY <1>1, <2>2 DEF Inv, ControlInv, ControlOrNone
  <2>4. QED
    BY <2>1, <2>2, <2>3, FailKeeps
<1>3. CASE failing # current
  <2>1. UNCHANGED <<session, table, obj, reading, clearer, sending, channels, history>>
    BY <1>3 DEF FailOverloaded
  <2>2. UNCHANGED <<current, clearing, installed, cancelled, local, closedOrder, told,
                    announced, dropped, notices, overload>>
    BY <2>1 DEF session, table, history, channels
  <2>3. TypeOK'
    <3>1. (SessionType /\ TableType /\ ObjectType /\ reading \in ReadState
              /\ clearer \in [Clearer -> ClearState])'
      BY <2>1, <2>2, TypeParts DEF Inv, SessionType, TableType, ObjectType
    <3>2. (ChannelType /\ SendType /\ HistoryType)'
      BY <1>1, <2>1, <2>2, TypeParts
         DEF Inv, ChannelType, SendType, HistoryType, ControlOrNone
    <3>3. QED
      BY <3>1, <3>2, TypesAreTypeOK DEF Types
  <2>4. (ControlInv /\ ClearerInv /\ ReadingInv /\ ObjectInv /\ QueueInv /\ LocalInv)'
    BY <2>1, <2>2, Frame DEF Inv
  <2>5. (MemoryInv /\ KnownInv /\ NeverReopened /\ AnnouncedInv)'
    BY <2>1, <2>2, Frame DEF Inv
  <2>6. ReportedInv'
    BY <1>1, <1>3, <2>1, <2>2, ClearerFacts, TypeParts
       DEF Inv, ReportedInv, Reported, ClosedLocal, TableType, ToSet
  <2>7. QED
    BY <2>3, <2>4, <2>5, <2>6 DEF Inv
<1>4. QED
  BY <1>2, <1>3

LEMMA StutterKeeps ==
    ASSUME Inv, UNCHANGED vars
    PROVE  Inv'
<1>1. UNCHANGED <<session, table, obj, reading, clearer, sending, failing, channels, history>>
  BY DEF vars, loops
<1>2. UNCHANGED <<told, announced, dropped, local, closedOrder>>
  BY <1>1 DEF history, table
<1>3. ControlInv' /\ ClearerInv'
  BY <1>1, <1>2, Frame DEF Inv
<1>4. clearer' \in [Clearer -> ClearState]
  BY <1>1, TypeParts DEF Inv
<1>5. QED
  BY <1>1, <1>3, <1>4, ClearerKeeps

-----------------------------------------------------------------------------
(* The invariant *)

LEMMA InitEstablishes == Init => Inv
<1>. SUFFICES ASSUME Init PROVE Inv
  OBVIOUS
<1>1. /\ current = NoControl /\ clearing = NoControl /\ installed = 0 /\ cancelled = FALSE
      /\ local = [id \in Id |-> NoObject] /\ closedOrder = <<>>
      /\ obj = [o \in Object |-> Unused] /\ reading = Rest
      /\ clearer = [k \in Clearer |-> [at |-> "idle", objs |-> {}, obj |-> NoObject]]
      /\ notices = <<>> /\ sending = None /\ overload = NoControl /\ failing = NoControl
      /\ told = {} /\ announced = [id \in Id |-> 0] /\ dropped = FALSE
  BY DEF Init, S!Init, Clearer
<1>2. Typed(Unused) /\ Unused.stage = "none"
  <2>1. /\ None \in IdOrNone /\ NoControl \in ControlOrNone /\ <<>> \in Queue
        /\ None \in Chunk /\ 0 \in Bytes /\ Len(<<>>) = 0
    BY SizeAssumption DEF IdOrNone, ControlOrNone, Queue, Chunk, Bytes
  <2>2. Unused \in ObjectState
    BY <2>1, StateFields DEF Unused
  <2>3. QED
    BY <2>1, <2>2 DEF Typed, Unused
<1>3. \A o \in Object : obj[o] = Unused /\ ~InUse(o)
  BY <1>1, <1>2 DEF InUse
<1>4. ClosedLocal = {}
  BY <1>1 DEF ClosedLocal, ToSet
<1>5. \A k \in Clearer : clearer[k].at = "idle" /\ InHand(k) = {}
  BY <1>1 DEF InHand
<1>6. "fail" \in Clearer /\ "stop" \in Clearer
  BY DEF Clearer
<1>7. TypeOK
  <2>1. SessionType /\ TableType
    <3>1. 0 \in 0 .. MaxControls /\ 0 <= Remembered
      BY ControlAssumption, SizeAssumption
    <3>2. <<>> \in Seq(Id) /\ Len(<<>>) = 0
      OBVIOUS
    <3>3. QED
      BY <1>1, <3>1, <3>2 DEF SessionType, TableType, ControlOrNone, ObjectOrNone
  <2>2. ObjectType
    BY <1>1, <1>2 DEF ObjectType, Typed
  <2>3. reading \in ReadState
    BY <1>1 DEF ReadState, Rest, IdOrNone, ObjectOrNone
  <2>4. clearer \in [Clearer -> ClearState]
    BY <1>1 DEF ClearState, ObjectSet, ObjectOrNone
  <2>5. ChannelType /\ SendType
    BY <1>1, SizeAssumption DEF ChannelType, SendType, ControlOrNone
  <2>6. HistoryType
    <3>1. 0 \in 0 .. 2
      OBVIOUS
    <3>2. QED
      BY <1>1, <3>1 DEF HistoryType
  <2>7. QED
    BY <2>1, <2>2, <2>3, <2>4, <2>5, <2>6, TypesAreTypeOK DEF Types
<1>8. ControlInv
  BY <1>1, <1>5, <1>6 DEF ControlInv, NoControl
<1>9. ClearerInv /\ ReadingInv /\ ObjectInv
  BY <1>1, <1>3, <1>5 DEF ClearerInv, ReadingInv, ObjectInv, Clearer, Rest
<1>10. QueueInv
  BY <1>1, <1>3, NoneAssumption DEF QueueInv, Unused
<1>11. LocalInv /\ MemoryInv
  BY <1>1, <1>4 DEF LocalInv, MemoryInv
<1>12. KnownInv /\ NeverReopened /\ AnnouncedInv
  BY <1>1, <1>3 DEF KnownInv, NeverReopened, AnnouncedInv
<1>13. ReportedInv
  BY <1>4 DEF ReportedInv
<1>14. QED
  BY <1>7, <1>8, <1>9, <1>10, <1>11, <1>12, <1>13 DEF Inv

LEMMA ClearingKeeps ==
    ASSUME Inv, NEW k \in Clearer, Clearing(k)
    PROVE  Inv'
BY SwapKeeps, ClearNextKeeps, ClearedOneKeeps, ClearedAllKeeps DEF Clearing

LEMMA ObjectStepKeeps ==
    ASSUME Inv, NEW o \in Object,
           \/ Finishing(o) \/ Writing(o) \/ Take(o) \/ LeaveLoop(o)
           \/ LocalEnds(o) \/ ReadClosed(o)
    PROVE  Inv'
<1>1. ASSUME Finishing(o) PROVE Inv'
  BY <1>1, ForgetKeeps, ShutKeeps DEF Finishing
<1>2. ASSUME Writing(o) PROVE Inv'
  BY <1>2, DialledKeeps, WriteKeeps, TaskEndsKeeps DEF Writing
<1>3. QED
  BY <1>1, <1>2, TakeKeeps, TaskEndsKeeps

LEMMA NextKeeps == Inv /\ [Next]_vars => Inv'
<1>. SUFFICES ASSUME Inv, [Next]_vars PROVE Inv'
  OBVIOUS
<1>1. "fail" \in Clearer /\ "stop" \in Clearer
  BY DEF Clearer
<1>2. ASSUME Reading \/ Install \/ Lose \/ Stop PROVE Inv'
  BY <1>2, ReadingStepKeeps, InstallKeeps, LoseKeeps, StopKeeps
<1>3. ASSUME Stopping \/ Clearing("fail") PROVE Inv'
  BY <1>1, <1>3, StopClosesKeeps, StopClosedKeeps, ClearingKeeps DEF Stopping
<1>4. ASSUME TakeNotice \/ SendNotice \/ TakeOverload \/ FailOverloaded PROVE Inv'
  BY <1>4, TakeNoticeKeeps, SendNoticeKeeps, TakeOverloadKeeps, FailOverloadedKeeps
<1>5. ASSUME NEW id \in Id, NEW what \in {"data", "close"}, Receive(id, what) PROVE Inv'
  BY <1>5, ReceiveKeeps
<1>6. ASSUME NEW o \in Object,
             \/ Finishing(o) \/ Writing(o) \/ Take(o) \/ LeaveLoop(o)
             \/ LocalEnds(o) \/ ReadClosed(o)
      PROVE  Inv'
  BY <1>6, ObjectStepKeeps
<1>7. ASSUME UNCHANGED vars PROVE Inv'
  BY <1>7, StutterKeeps
<1>8. QED
  BY <1>2, <1>3, <1>4, <1>5, <1>6, <1>7 DEF Next

\* The invariant on which everything below rests.
THEOREM ForwardingInvariant == Spec => []Inv
<1>1. Init => Inv
  BY InitEstablishes
<1>2. Inv /\ [Next]_vars => Inv'
  BY NextKeeps
<1>3. QED
  BY <1>1, <1>2, PTL DEF Spec

-----------------------------------------------------------------------------
(* What it means for the users of the client *)

\* Every byte queued for a local connection is counted, no queue grows beyond
\* its limit, and the service gets what the server sent without a gap, whatever
\* the sizes of the queues.
THEOREM QueuesStaySound == Spec => []QueuesSound
<1>1. Inv => QueuesSound
  BY DEF Inv, QueueInv, QueuesSound, NoGap
<1>2. QED
  BY <1>1, ForwardingInvariant, PTL

\* What the client forwards for belongs to the control connection it has or to
\* the one failConn is clearing away, however Stop, a loss and the read loop
\* interleave.
THEOREM LocalIsOfCurrent == Spec => []LocalOfCurrent
<1>1. ASSUME Inv PROVE LocalOfCurrent
  <2>. SUFFICES ASSUME NEW id \in Id, local[id] # NoObject
                PROVE  /\ obj[local[id]].control \in {current, clearing} \ {NoControl}
                       /\ obj[local[id]].control = Home[id]
    BY DEF LocalOfCurrent
  <2>1. local[id] \in Object /\ obj[local[id]].id = id /\ InUse(local[id])
        /\ Home[id] \in {current, clearing}
    BY <1>1, TypeParts DEF Inv, LocalInv, TableType, ObjectOrNone, InUse
  <2>2. obj[local[id]].control = Home[id] /\ Home[id] # NoControl
    BY <1>1, <2>1, ClearerFacts DEF Inv, ObjectInv
  <2>3. QED
    BY <2>1, <2>2
<1>2. QED
  BY <1>1, ForwardingInvariant, PTL

\* An id opens at most one local connection as long as the client can remember
\* every closed id: DATA that is still on its way when a connection ends, or
\* that was decoded before the control connection was lost, opens none.
THEOREM IdOpensOnce == Spec => []NeverReopened
<1>1. Inv => NeverReopened
  BY DEF Inv
<1>2. QED
  BY <1>1, ForwardingInvariant, PTL

\* Under the same condition an id is announced as closed at most once, whoever
\* finishes its local connection and however often.
THEOREM IdAnnouncedOnce == Spec => []AnnouncedOnce
<1>1. ASSUME Inv PROVE AnnouncedOnce
  BY <1>1 DEF Inv, AnnouncedInv, AnnouncedOnce, AllRemembered
<1>2. QED
  BY <1>1, ForwardingInvariant, PTL

\* Of every id closed here the server learns, or has a message of it coming, or
\* is about to lose the control connection for it.
THEOREM ClosesAreReported == Spec => []ClosesReported
<1>1. ASSUME Inv PROVE ClosesReported
  <2>. SUFFICES ASSUME ~cancelled, ~dropped, NEW id \in Unreported PROVE FALSE
    BY DEF ClosesReported
  <2>1. id \in ClosedLocal /\ Home[id] = current /\ ~Reported(id)
    BY DEF Unreported, Reported
  <2>2. QED
    BY <1>1, <2>1 DEF Inv, ReportedInv
<1>2. QED
  BY <1>1, ForwardingInvariant, PTL

-----------------------------------------------------------------------------
(* Nobody waits for what nobody does *)

Over == {"begun", "removed", "done"}

\* A local connection that is not over has a writer that will find it out, and
\* its socket is open only as long as somebody will close it.
Tended(x) ==
    /\ x.stage = "open" => x.writer \in {"dial", "loop", "write"}
    /\ x.writer # "none" \/ x.reader # "none" => x.stage # "none"
    /\ x.conn = "open" => x.stage \notin {"none", "done"}
    /\ x.reader = "read" => x.conn # "none"

\* Whoever waits for finishLocal waits for one that has begun.
ReaderWaits ==
    /\ reading.at = "idle" => reading = Rest
    /\ reading.at = "finish" => obj[reading.obj].stage \in Over

ClearerWaits ==
    \A k \in Clearer : clearer[k].obj # NoObject =>
        clearer[k].at = "finish" /\ obj[clearer[k].obj].stage \in Over

AllTended == \A o \in Object : Tended(obj[o])

WaitInv == ReaderWaits /\ ClearerWaits /\ AllTended

\* Nothing that is being finished is ever taken up again.
NoReturn == \A p \in Object : obj[p].stage \in Over => obj'[p].stage \in Over

LEMMA OneMoves ==
    ASSUME Inv, WaitInv, NEW o \in Object, NEW y, obj' = [obj EXCEPT ![o] = y],
           Tended(y), obj[o].stage \in Over => y.stage \in Over
    PROVE  AllTended' /\ NoReturn /\ obj'[o] = y
<1>1. obj'[o] = y /\ \A p \in Object \ {o} : obj'[p] = obj[p]
  BY ObjectFacts
<1>2. NoReturn
  BY <1>1 DEF NoReturn
<1>3. AllTended'
  BY <1>1 DEF AllTended, WaitInv, Tended
<1>4. QED
  BY <1>1, <1>2, <1>3

LEMMA WaitersStay ==
    ASSUME Inv, WaitInv, NoReturn
    PROVE  /\ UNCHANGED reading => ReaderWaits'
           /\ UNCHANGED clearer => ClearerWaits'
<1>1. ASSUME UNCHANGED reading PROVE ReaderWaits'
  BY <1>1 DEF WaitInv, ReaderWaits, NoReturn, Inv, ReadingInv, Rest
<1>2. ASSUME UNCHANGED clearer PROVE ClearerWaits'
  <2>1. \A k \in Clearer : clearer[k].obj # NoObject => clearer[k].obj \in Object
    BY ClearerFacts DEF ObjectOrNone
  <2>2. QED
    BY <1>2, <2>1 DEF WaitInv, ClearerWaits, NoReturn
<1>3. QED
  BY <1>1, <1>2

\* When no local connection changes, only the waiters are left to look at.
LEMMA ObjectsStay ==
    ASSUME Inv, WaitInv, UNCHANGED obj
    PROVE  AllTended' /\ NoReturn
BY DEF WaitInv, AllTended, NoReturn, Tended

LEMMA ObjectMoves ==
    ASSUME Inv, WaitInv, NEW o \in Object, NEW y, Step(o, y), Tended(y),
           obj[o].stage \in Over => y.stage \in Over
    PROVE  WaitInv'
<1>1. obj' = [obj EXCEPT ![o] = y] /\ UNCHANGED <<reading, clearer>>
  BY DEF Step, loops
<1>2. AllTended' /\ NoReturn
  BY <1>1, OneMoves
<1>3. QED
  BY <1>1, <1>2, WaitersStay DEF WaitInv

\* Begun leaves a local connection tended.
LEMMA BegunTended ==
    ASSUME NEW x, Typed(x), x.stage # "none", NEW n \in BOOLEAN,
           x.conn = "open" => x.stage # "done", x.reader = "read" => x.conn # "none"
    PROVE  Tended(Begun(x, n)) /\ Begun(x, n).stage \in Over
<1> DEFINE y == Begun(x, n)
<1>1. /\ y.conn = x.conn /\ y.writer = x.writer /\ y.reader = x.reader
      /\ y.stage = IF x.stage = "open" THEN "begun" ELSE x.stage
  BY BegunEffect DEF Typed, ObjectState, Begun
<1>2. x.stage \in {"open", "begun", "removed", "done"}
  BY DEF Typed, ObjectState
<1>. HIDE DEF y
<1>3. Tended(y) /\ y.stage \in Over
  BY <1>1, <1>2 DEF Tended, Over
<1>4. QED
  BY <1>3 DEF y

\* A task that ends leaves it tended.
LEMMA EndTended ==
    ASSUME NEW x, Typed(x), x.stage # "none",
           x.conn = "open" => x.stage # "done", x.reader = "read" => x.conn # "none"
    PROVE  /\ Tended(WriterEnds(x)) /\ WriterEnds(x).stage \in Over
           /\ Tended(WriterGivesUp(x)) /\ WriterGivesUp(x).stage \in Over
           /\ Tended(ReaderEnds(x)) /\ ReaderEnds(x).stage \in Over
<1> DEFINE w == [x EXCEPT !.writer = "end", !.chunk = None, !.bytes = Len(x.queue)]
           g == [x EXCEPT !.writer = "end"]
           r == [x EXCEPT !.reader = "end"]
<1>1. /\ w.conn = x.conn /\ w.stage = x.stage /\ w.reader = x.reader
      /\ g.conn = x.conn /\ g.stage = x.stage /\ g.reader = x.reader
      /\ r.conn = x.conn /\ r.stage = x.stage /\ r.reader = "end"
  BY DEF Typed, ObjectState
<1>2. Typed(w) /\ Typed(g) /\ Typed(r)
  BY WriterEndsTyped, GivesUpTyped, ReaderEndsTyped
<1>3. WriterEnds(x) = Begun(w, TRUE) /\ WriterGivesUp(x) = Begun(g, TRUE) /\ ReaderEnds(x) = Begun(r, TRUE)
  BY DEF WriterEnds, WriterGivesUp, ReaderEnds
<1>. HIDE DEF w, g, r
<1>4. QED
  BY <1>1, <1>2, <1>3, BegunTended

\* The tasks of a local connection, and finishLocal for it.
LEMMA ObjectStepTended ==
    ASSUME Inv, WaitInv, NEW o \in Object,
           \/ Finishing(o) \/ Writing(o) \/ Take(o) \/ LeaveLoop(o)
           \/ LocalEnds(o) \/ ReadClosed(o)
    PROVE  WaitInv'
<1> DEFINE x == obj[o]
<1>1. x \in ObjectState /\ Typed(x) /\ Tended(x)
  BY ObjectFacts DEF WaitInv, AllTended
<1>2. x.stage \in {"none", "open", "begun", "removed", "done"}
  BY <1>1 DEF ObjectState
<1>3. ASSUME Forget(o) PROVE WaitInv'
  <2> DEFINE y == [x EXCEPT !.stage = "removed"]
  <2>1. x.stage = "begun" /\ obj' = [obj EXCEPT ![o] = y] /\ UNCHANGED <<reading, clearer>>
    BY <1>3 DEF Forget, loops
  <2>2. Tended(y) /\ y.stage \in Over
    BY <1>1, <2>1 DEF Tended, Over, ObjectState
  <2>. HIDE DEF y
  <2>3. AllTended' /\ NoReturn
    BY <2>1, <2>2, OneMoves
  <2>4. QED
    BY <2>1, <2>3, WaitersStay DEF WaitInv
<1>4. ASSUME Shut(o) PROVE WaitInv'
  <2> DEFINE c == IF x.conn = "open" THEN "closed" ELSE x.conn
             y == [x EXCEPT !.stage = "done", !.conn = c]
  <2>1. x.stage = "removed" /\ obj' = [obj EXCEPT ![o] = y] /\ UNCHANGED <<reading, clearer>>
    BY <1>4 DEF Shut, loops
  <2>2. Tended(y) /\ y.stage \in Over
    BY <1>1, <2>1 DEF Tended, Over, ObjectState
  <2>. HIDE DEF y
  <2>3. AllTended' /\ NoReturn
    BY <2>1, <2>2, OneMoves
  <2>4. QED
    BY <2>1, <2>3, WaitersStay DEF WaitInv
\* A task that ends comes to finishLocal, whatever it has done before.
<1>5. ASSUME x.stage # "none",
             Step(o, WriterEnds(x)) \/ Step(o, WriterGivesUp(x)) \/ Step(o, ReaderEnds(x))
      PROVE  WaitInv'
  <2>1. /\ Tended(WriterEnds(x)) /\ WriterEnds(x).stage \in Over
        /\ Tended(WriterGivesUp(x)) /\ WriterGivesUp(x).stage \in Over
        /\ Tended(ReaderEnds(x)) /\ ReaderEnds(x).stage \in Over
    BY <1>1, <1>5, EndTended DEF Tended
  <2>2. QED
    BY <1>5, <2>1, ObjectMoves
<1>6. x.writer # "none" \/ x.reader # "none" => x.stage # "none"
  BY <1>1 DEF Tended
<1>7. x.reader = "read" => x.stage # "none"
  BY <1>6
<1>8. ASSUME Dialled(o) PROVE WaitInv'
  <2>1. x.writer = "dial" /\ x.stage # "none"
    BY <1>6, <1>8 DEF Dialled
  <2>2. CASE Closed(o)
    BY <1>5, <1>8, <2>1, <2>2 DEF Dialled
  <2>3. CASE ~Closed(o) /\ cancelled
    <3> DEFINE y == [x EXCEPT !.conn = "open"]
    <3>1. Typed(y) /\ y.stage = x.stage /\ y.conn = "open" /\ y.stage # "done"
      BY <1>1, <2>3, DialTyped DEF ObjectState, Closed
    <3>2. Step(o, WriterEnds(y))
      BY <1>8, <2>3 DEF Dialled
    <3>. HIDE DEF y
    <3>3. Tended(WriterEnds(y)) /\ WriterEnds(y).stage \in Over
      BY <2>1, <3>1, EndTended
    <3>4. QED
      BY <3>2, <3>3, ObjectMoves
  <2>4. CASE ~Closed(o) /\ ~cancelled
    <3> DEFINE y == [x EXCEPT !.conn = "open", !.writer = "loop", !.reader = "read"]
    <3>1. Tended(y) /\ y.stage = x.stage
      BY <1>1, <2>1, <2>4 DEF ObjectState, Closed, Tended
    <3>2. Step(o, y)
      BY <1>8, <2>4 DEF Dialled
    <3>. HIDE DEF y
    <3>3. QED
      BY <3>1, <3>2, ObjectMoves
  <2>5. QED
    BY <2>2, <2>3, <2>4
<1>9. ASSUME DialFails(o) \/ WriteFails(o) \/ LeaveLoop(o) PROVE WaitInv'
  BY <1>5, <1>6, <1>9 DEF DialFails, WriteFails, LeaveLoop
<1>10. ASSUME Take(o) PROVE WaitInv'
  <2> DEFINE h == Head(x.queue)
             q == Tail(x.queue)
             y == [x EXCEPT !.writer = "write", !.chunk = h, !.queue = q]
  <2>1. x.writer = "loop" /\ Step(o, y)
    BY <1>10 DEF Take
  <2>. HIDE DEF h, q
  <2>2. Tended(y) /\ y.stage = x.stage
    BY <1>1, <2>1 DEF ObjectState, Tended
  <2>. HIDE DEF y
  <2>3. QED
    BY <2>1, <2>2, ObjectMoves
<1>11. ASSUME Write(o) PROVE WaitInv'
  <2> DEFINE n == x.bytes - 1
             y == [x EXCEPT !.writer = "loop", !.chunk = None, !.bytes = n]
  <2>1. x.writer = "write" /\ Step(o, y)
    BY <1>11 DEF Write
  <2>. HIDE DEF n
  <2>2. Tended(y) /\ y.stage = x.stage
    BY <1>1, <2>1 DEF ObjectState, Tended
  <2>. HIDE DEF y
  <2>3. QED
    BY <2>1, <2>2, ObjectMoves
<1>12. ASSUME LocalEnds(o) \/ ReadClosed(o) PROVE WaitInv'
  <2>1. x.stage # "none"
    BY <1>7, <1>12 DEF LocalEnds, ReadClosed
  <2>2. QED
    BY <1>5, <1>12, <2>1 DEF LocalEnds, ReadClosed
<1>13. QED
  BY <1>3, <1>4, <1>8, <1>9, <1>10, <1>11, <1>12 DEF Finishing, Writing

\* The read loop: it is at rest, or waits for what it has begun.
LEMMA ReadingTended ==
    ASSUME Inv, WaitInv, Reading
    PROVE  WaitInv'
<1>1. ASSUME UNCHANGED <<obj, clearer>>,
             reading' = Rest \/ reading'.at \notin {"idle", "finish"}
      PROVE  WaitInv'
  <2>1. AllTended' /\ NoReturn
    BY <1>1, ObjectsStay
  <2>2. ReaderWaits'
    BY <1>1 DEF ReaderWaits, Rest
  <2>3. QED
    BY <1>1, <2>1, <2>2, WaitersStay DEF WaitInv
<1>2. ASSUME Discard \/ Refuse \/ ReadFinished PROVE WaitInv'
  BY <1>1, <1>2 DEF Discard, Refuse, ReadFinished
<1>3. reading \in ReadState
  BY TypeParts DEF Inv
<1>4. ASSUME Find PROVE WaitInv'
  <2>1. reading'.at = "push" /\ UNCHANGED <<obj, clearer>>
    BY <1>3, <1>4 DEF Find, ReadState
  <2>2. QED
    BY <1>1, <2>1
<1>5. ASSUME NEW o \in Object, NEW y, obj' = [obj EXCEPT ![o] = y], Tended(y),
             obj[o].stage \in Over => y.stage \in Over, UNCHANGED clearer,
             \/ reading' = Rest \/ reading'.at = "push"
             \/ reading'.at = "finish" /\ reading'.obj = o /\ y.stage \in Over
      PROVE  WaitInv'
  <2>1. AllTended' /\ NoReturn /\ obj'[o] = y
    BY <1>5, OneMoves
  <2>2. ReaderWaits'
    BY <1>5, <2>1 DEF ReaderWaits, Rest
  <2>3. QED
    BY <1>5, <2>1, <2>2, WaitersStay DEF WaitInv
<1>6. ASSUME Create PROVE WaitInv'
  <2> PICK o \in Object :
         /\ ~InUse(o)
         /\ obj' = [obj EXCEPT ![o] = [Unused EXCEPT !.id = reading.id,
                      !.control = current, !.stage = "open", !.writer = "dial"]]
         /\ reading' = [reading EXCEPT !.at = "push", !.obj = o]
    BY <1>6 DEF Create
  <2> DEFINE y == [Unused EXCEPT !.id = reading.id, !.control = current,
                                 !.stage = "open", !.writer = "dial"]
  <2>1. y.stage = "open" /\ y.writer = "dial" /\ y.conn = "none" /\ y.reader = "none"
    BY DEF Unused
  <2>2. obj' = [obj EXCEPT ![o] = y] /\ obj[o].stage = "none"
    BY DEF InUse
  <2>. HIDE DEF y
  <2>3. Tended(y) /\ obj[o].stage \notin Over
    BY <2>1, <2>2 DEF Tended, Over
  <2>4. UNCHANGED clearer /\ reading'.at = "push"
    BY <1>3, <1>6 DEF Create, ReadState
  <2>5. QED
    BY <1>5, <2>2, <2>3, <2>4
<1>7. ASSUME Push PROVE WaitInv'
  <2>1. reading.at = "push" /\ reading.obj \in Object /\ InUse(reading.obj) /\ UNCHANGED clearer
    BY <1>7 DEF Push, Inv, ReadingInv
  <2> PICK o \in Object : o = reading.obj
    BY <2>1
  <2> DEFINE x == obj[o]
             m == [x EXCEPT !.missed = TRUE]
             c == Append(x.queue, IF x.missed THEN "gap" ELSE "whole")
             n == x.bytes + 1
             q == [x EXCEPT !.bytes = n, !.queue = c]
             y == Begun(m, TRUE)
  <2>2. Typed(x) /\ x \in ObjectState /\ Tended(x) /\ x.stage # "none"
    BY <2>1, ObjectFacts DEF WaitInv, AllTended, InUse
  <2>3. CASE Closed(o)
    <3>1. reading' = Rest /\ obj' = obj
      BY <1>7, <2>3 DEF Push, Closed
    <3>2. QED
      BY <1>1, <2>1, <3>1
  <2>4. CASE ~Closed(o) /\ Full(x)
    <3>1. obj' = [obj EXCEPT ![o] = y] /\ reading'.at = "finish" /\ reading'.obj = o
      BY <1>3, <1>7, <2>4 DEF Push, ReadState
    <3>2. /\ Typed(m) /\ m.stage = x.stage /\ m.conn = x.conn /\ m.reader = x.reader
      BY <2>2 DEF Typed, ObjectState
    <3>. HIDE DEF m
    <3>3. Tended(y) /\ y.stage \in Over
      BY <2>2, <3>2, BegunTended DEF Tended
    <3>4. QED
      BY <1>5, <2>1, <3>1, <3>3
  <2>5. CASE ~Closed(o) /\ ~Full(x)
    <3>1. obj' = [obj EXCEPT ![o] = q] /\ reading' = Rest
      BY <1>7, <2>5 DEF Push
    <3>. HIDE DEF c, n
    <3>2. Tended(q) /\ q.stage = x.stage
      BY <2>2 DEF ObjectState, Tended
    <3>. HIDE DEF q
    <3>3. QED
      BY <1>5, <2>1, <3>1, <3>2
  <2>6. QED
    BY <2>3, <2>4, <2>5
<1>8. ASSUME CloseConnection PROVE WaitInv'
  <2>1. reading.id \in Id /\ local[reading.id] \in ObjectOrNone /\ UNCHANGED clearer
    BY <1>8, TypeParts DEF CloseConnection, Inv, ReadingInv, TableType
  <2>2. CASE local[reading.id] = NoObject
    <3>1. reading' = Rest /\ UNCHANGED obj
      BY <1>8, <2>2 DEF CloseConnection
    <3>2. QED
      BY <1>1, <2>1, <3>1
  <2>3. CASE local[reading.id] # NoObject
    <3> PICK o \in Object : o = local[reading.id]
      BY <2>1, <2>3 DEF ObjectOrNone
    <3> DEFINE y == Begun(obj[o], FALSE)
    <3>1. obj' = [obj EXCEPT ![o] = y] /\ reading'.at = "finish" /\ reading'.obj = o
      BY <1>3, <1>8, <2>3 DEF CloseConnection, ReadState
    <3>2. obj[o].stage # "none"
      BY <2>1, <2>3 DEF Inv, LocalInv
    <3>3. Typed(obj[o]) /\ Tended(obj[o])
      BY ObjectFacts DEF WaitInv, AllTended
    <3>4. Tended(y) /\ y.stage \in Over
      BY <3>2, <3>3, BegunTended DEF Tended
    <3>. HIDE DEF y
    <3>5. QED
      BY <1>5, <2>1, <3>1, <3>4
  <2>4. QED
    BY <2>2, <2>3
<1>9. QED
  BY <1>2, <1>4, <1>6, <1>7, <1>8 DEF Reading

LEMMA ReceiveTended ==
    ASSUME Inv, WaitInv, NEW id \in Id, NEW what \in {"data", "close"}, Receive(id, what)
    PROVE  WaitInv'
<1>1. reading'.at \in {"data", "close"} /\ UNCHANGED <<obj, clearer>>
  BY DEF Receive
<1>2. AllTended' /\ NoReturn /\ ClearerWaits'
  BY <1>1, ObjectsStay, WaitersStay
<1>3. QED
  BY <1>1, <1>2 DEF WaitInv, ReaderWaits

\* The control connection, and whoever clears local connections away.
LEMMA WaitersGoOn ==
    ASSUME Inv, WaitInv, UNCHANGED <<obj, reading>>,
           \A k \in Clearer : clearer'[k].obj = NoObject \/ clearer'[k] = clearer[k]
    PROVE  WaitInv'
<1>1. AllTended' /\ NoReturn /\ ReaderWaits'
  BY ObjectsStay, WaitersStay
<1>2. ClearerWaits'
  BY DEF ClearerWaits, WaitInv
<1>3. QED
  BY <1>1, <1>2 DEF WaitInv

\* Whoever waits for nobody may go wherever he goes.
LEMMA ClearerAtTended ==
    ASSUME Inv, WaitInv, UNCHANGED <<obj, reading>>, NEW k \in Clearer, clearer[k].at # "finish",
           NEW s \in {"idle", "close", "closing", "swap", "finish", "done"},
           clearer' = ClearerAt(k, s)
    PROVE  WaitInv'
<1>1. clearer[k].obj = NoObject
  BY DEF WaitInv, ClearerWaits
<1>2. clearer'[k].obj = clearer[k].obj /\ \A j \in Clearer \ {k} : clearer'[j] = clearer[j]
  BY ClearerFacts DEF ClearerAt, ClearState
<1>3. QED
  BY <1>1, <1>2, WaitersGoOn

LEMMA FailTended ==
    ASSUME Inv, WaitInv, Fail(ClearerAt("fail", "swap"))
    PROVE  WaitInv'
<1>1. /\ clearer' = ClearerAt("fail", "swap") /\ clearing = NoControl
      /\ UNCHANGED <<obj, reading>>
  BY DEF Fail
<1>2. clearer["fail"].at # "finish"
  BY <1>1 DEF Inv, ControlInv
<1>3. QED
  BY <1>1, <1>2, ClearerAtTended, ClearerFacts

LEMMA ControlTended ==
    ASSUME Inv, WaitInv,
           \/ Install \/ Lose \/ Stop \/ StopCloses \/ StopClosed
           \/ TakeNotice \/ SendNotice \/ TakeOverload \/ FailOverloaded
    PROVE  WaitInv'
<1>1. ASSUME UNCHANGED <<obj, reading, clearer>> PROVE WaitInv'
  BY <1>1, WaitersGoOn
<1>2. ASSUME Install \/ TakeNotice \/ SendNotice \/ TakeOverload PROVE WaitInv'
  BY <1>1, <1>2 DEF Install, TakeNotice, SendNotice, TakeOverload, loops
<1>3. ASSUME Lose \/ FailOverloaded PROVE WaitInv'
  BY <1>1, <1>3, FailTended DEF Lose, FailOverloaded
<1>4. ASSUME Stop PROVE WaitInv'
  <2>1. clearer["stop"].at = "idle" /\ clearer' = ClearerAt("stop", "close")
        /\ UNCHANGED <<obj, reading>>
    BY <1>4 DEF Stop
  <2>2. QED
    BY <2>1, ClearerAtTended, ClearerFacts
<1>5. ASSUME StopCloses PROVE WaitInv'
  <2> DEFINE f == ClearerAt("fail", "swap")
  <2>1. /\ clearer["stop"].at = "close" /\ clearing = NoControl /\ UNCHANGED <<obj, reading>>
        /\ clearer' = [f EXCEPT !["stop"].at = "closing"]
    BY <1>5 DEF StopCloses, Fail
  <2>2. clearer["fail"].at # "finish"
    BY <2>1 DEF Inv, ControlInv
  <2>3. clearer["fail"].obj = NoObject /\ clearer["stop"].obj = NoObject
    BY <2>1, <2>2, ClearerFacts DEF WaitInv, ClearerWaits
  <2>4. /\ f \in [Clearer -> ClearState]
        /\ f["fail"].obj = NoObject /\ f["stop"] = clearer["stop"]
    BY <2>3, ClearerFacts DEF ClearerAt, ClearState
  <2>. HIDE DEF f
  <2>5. clearer'["fail"].obj = NoObject /\ clearer'["stop"].obj = NoObject
    BY <2>1, <2>3, <2>4, ClearerFacts DEF ClearState
  <2>6. QED
    BY <2>1, <2>5, WaitersGoOn DEF Clearer
<1>6. ASSUME StopClosed PROVE WaitInv'
  <2>1. /\ clearer["stop"].at \in {"close", "closing"} /\ clearer' = ClearerAt("stop", "swap")
        /\ UNCHANGED <<obj, reading>>
    BY <1>6 DEF StopClosed
  <2>2. QED
    BY <2>1, ClearerAtTended, ClearerFacts
<1>7. QED
  BY <1>2, <1>3, <1>4, <1>5, <1>6

LEMMA ClearingTended ==
    ASSUME Inv, WaitInv, NEW k \in Clearer, Clearing(k)
    PROVE  WaitInv'
<1>0. clearer \in [Clearer -> ClearState]
  BY ClearerFacts
<1>1. ASSUME Swap(k) PROVE WaitInv'
  <2> DEFINE all == {local[id] : id \in Id} \ {NoObject}
  <2>1. /\ clearer[k].at = "swap" /\ UNCHANGED <<obj, reading>>
        /\ clearer' = [clearer EXCEPT ![k].at = "finish", ![k].objs = all]
    BY <1>1 DEF Swap
  <2>2. clearer[k].obj = NoObject
    BY <2>1 DEF WaitInv, ClearerWaits
  <2>. HIDE DEF all
  <2>3. clearer'[k].obj = NoObject /\ \A j \in Clearer \ {k} : clearer'[j] = clearer[j]
    BY <1>0, <2>1, <2>2 DEF ClearState
  <2>4. QED
    BY <2>1, <2>3, WaitersGoOn
<1>2. ASSUME ClearNext(k) PROVE WaitInv'
  <2>1. PICK o \in clearer[k].objs :
          /\ obj' = [obj EXCEPT ![o] = Begun(@, FALSE)]
          /\ clearer' = [clearer EXCEPT ![k].objs = @ \ {o}, ![k].obj = o]
    BY <1>2 DEF ClearNext
  <2>2. clearer[k].at = "finish" /\ UNCHANGED reading
    BY <1>2 DEF ClearNext
  <2>3. o \in Object /\ obj[o].stage # "none"
    BY ClearerFacts DEF Inv, ClearerInv, InHand, Clearer, InUse
  <2> DEFINE y == Begun(obj[o], FALSE)
             rest == clearer[k].objs \ {o}
  <2>4. Tended(y) /\ y.stage \in Over
    <3>1. Typed(obj[o]) /\ Tended(obj[o])
      BY <2>3, ObjectFacts DEF WaitInv, AllTended
    <3>2. QED
      BY <2>3, <3>1, BegunTended DEF Tended
  <2>5. /\ obj' = [obj EXCEPT ![o] = y]
        /\ clearer' = [clearer EXCEPT ![k].objs = rest, ![k].obj = o]
    BY <2>1
  <2>. HIDE DEF y, rest
  <2>6. AllTended' /\ NoReturn /\ obj'[o] = y
    BY <2>3, <2>4, <2>5, OneMoves
  <2>7. /\ clearer'[k].at = "finish" /\ clearer'[k].obj = o
        /\ \A j \in Clearer \ {k} : clearer'[j] = clearer[j]
    BY <1>0, <2>2, <2>5 DEF ClearState
  <2>8. ClearerWaits'
    <3>1. \A j \in Clearer : clearer[j].obj # NoObject => clearer[j].obj \in Object
      BY ClearerFacts DEF ObjectOrNone
    <3>2. QED
      BY <2>4, <2>6, <2>7, <3>1 DEF ClearerWaits, WaitInv, NoReturn
  <2>9. QED
    BY <2>2, <2>6, <2>8, WaitersStay DEF WaitInv
<1>3. ASSUME ClearedOne(k) PROVE WaitInv'
  <2>1. clearer' = [clearer EXCEPT ![k].obj = NoObject] /\ UNCHANGED <<obj, reading>>
    BY <1>3 DEF ClearedOne
  <2>2. clearer'[k].obj = NoObject /\ \A j \in Clearer \ {k} : clearer'[j] = clearer[j]
    BY <1>0, <2>1 DEF ClearState
  <2>3. QED
    BY <2>1, <2>2, WaitersGoOn
<1>4. ASSUME ClearedAll(k) PROVE WaitInv'
  <2>1. /\ clearer[k].obj = NoObject /\ UNCHANGED <<obj, reading>>
        /\ clearer' = ClearerAt(k, "idle") \/ clearer' = ClearerAt(k, "done")
    BY <1>4 DEF ClearedAll
  <2>2. clearer'[k].obj = NoObject /\ \A j \in Clearer \ {k} : clearer'[j] = clearer[j]
    BY <1>0, <2>1 DEF ClearerAt, ClearState
  <2>3. QED
    BY <2>1, <2>2, WaitersGoOn
<1>5. QED
  BY <1>1, <1>2, <1>3, <1>4 DEF Clearing

LEMMA WaitKeeps == Inv /\ WaitInv /\ [Next]_vars => WaitInv'
<1>. SUFFICES ASSUME Inv, WaitInv, [Next]_vars PROVE WaitInv'
  OBVIOUS
<1>1. ASSUME Stopping \/ Clearing("fail") PROVE WaitInv'
  BY <1>1, ControlTended, ClearingTended, ClearerFacts DEF Stopping
<1>2. ASSUME UNCHANGED vars PROVE WaitInv'
  BY <1>2, WaitersGoOn DEF vars, loops
<1>3. QED
  BY <1>1, <1>2, ReadingTended, ReceiveTended, ObjectStepTended, ControlTended DEF Next

LEMMA WaitInit == Init => WaitInv
<1>. SUFFICES ASSUME Init PROVE WaitInv
  OBVIOUS
<1>1. \A o \in Object : Tended(obj[o])
  BY DEF Init, Unused, Tended
<1>2. reading.at = "idle" /\ reading = Rest /\ \A k \in Clearer : clearer[k].obj = NoObject
  BY DEF Init, Rest, Clearer
<1>3. QED
  BY <1>1, <1>2 DEF WaitInv, ReaderWaits, ClearerWaits, AllTended

\* While the client stops, somebody always has a step left to take until all
\* have ended; and that is what TasksEnd says as far as the steps that can be
\* taken are those whose guards hold.
THEOREM NobodyIsStuck == Spec => []NobodyStuck /\ [](GuardsRight => TasksEnd)
<1>1. Spec => [](Inv /\ WaitInv)
  <2>1. Init => Inv /\ WaitInv
    BY InitEstablishes, WaitInit
  <2>2. (Inv /\ WaitInv) /\ [Next]_vars => (Inv /\ WaitInv)'
    BY NextKeeps, WaitKeeps
  <2>3. QED
    BY <2>1, <2>2, PTL DEF Spec
<1>2. ASSUME Inv, WaitInv, cancelled, ~Ready PROVE Ended
  <2>1. \A o \in Object : /\ obj[o].stage \notin {"begun", "removed"}
                          /\ obj[o].writer \notin {"dial", "loop", "write"}
                          /\ ~(obj[o].reader = "read" /\ obj[o].conn = "closed")
    BY <1>2 DEF Ready
  <2>2. \A o \in Object : /\ obj[o].stage \in {"none", "done"}
                          /\ obj[o].writer \in {"none", "end"}
                          /\ obj[o].reader \in {"none", "end"}
    <3>. SUFFICES ASSUME NEW o \in Object
                  PROVE  /\ obj[o].stage \in {"none", "done"}
                         /\ obj[o].writer \in {"none", "end"}
                         /\ obj[o].reader \in {"none", "end"}
      OBVIOUS
    <3>1. /\ obj[o].stage \in {"none", "open", "begun", "removed", "done"}
          /\ obj[o].writer \in {"none", "dial", "loop", "write", "end"}
          /\ obj[o].reader \in {"none", "read", "end"}
          /\ obj[o].conn \in {"none", "open", "closed"}
      BY <1>2, ObjectFacts DEF ObjectState
    <3>2. Tended(obj[o])
      BY <1>2 DEF WaitInv, AllTended
    <3>3. QED
      BY <2>1, <3>1, <3>2 DEF Tended
  \* Whoever waits for an object to be finished has one that is.
  <2>3. reading = Rest
    <3>1. reading.at \in {"idle", "data", "close", "push", "finish"}
      BY <1>2, TypeParts DEF Inv, ReadState
    <3>2. reading.at # "finish"
      <4>1. ASSUME reading.at = "finish" PROVE FALSE
        <5>1. reading.obj \in Object /\ obj[reading.obj].stage \in Over
          BY <1>2, <4>1 DEF Inv, ReadingInv, WaitInv, ReaderWaits
        <5>2. obj[reading.obj].stage = "done"
          BY <2>2, <5>1 DEF Over
        <5>3. QED
          BY <1>2, <4>1, <5>2 DEF Ready, Closed
      <4>2. QED
        BY <4>1
    <3>3. reading.at \notin {"data", "push", "close"}
      BY <1>2 DEF Ready
    <3>4. QED
      BY <1>2, <3>1, <3>2, <3>3 DEF WaitInv, ReaderWaits
  <2>4. ASSUME NEW k \in Clearer PROVE clearer[k].at \notin {"swap", "finish"}
    <3>1. clearer[k].at # "swap"
      BY <1>2 DEF Ready, Clearer
    <3>2. ASSUME clearer[k].at = "finish" PROVE FALSE
      <4>1. clearer[k].obj # NoObject
        BY <1>2, <3>2 DEF Ready, Clearer
      <4>2. clearer[k].obj \in Object /\ obj[clearer[k].obj].stage \in Over
        BY <1>2, <4>1, ClearerFacts DEF WaitInv, ClearerWaits, ObjectOrNone
      <4>3. obj[clearer[k].obj].stage = "done"
        BY <2>2, <4>2 DEF Over
      <4>4. QED
        BY <1>2, <4>1, <4>3 DEF Ready, Closed, Clearer
    <3>3. QED
      BY <3>1, <3>2
  <2>5. clearer["stop"].at = "done"
    <3>1. clearer["stop"].at \in {"close", "closing", "swap", "finish", "done"}
      BY <1>2, ClearerFacts DEF Inv, ControlInv, ClearState
    <3>2. clearer["stop"].at # "close"
      BY <1>2 DEF Ready
    <3>3. clearer["stop"].at # "closing"
      <4>1. clearing = NoControl
        BY <1>2, <2>4, ClearerFacts DEF Inv, ControlInv
      <4>2. QED
        BY <1>2, <4>1 DEF Ready
    <3>4. QED
      BY <1>2, <2>4, <3>1, <3>2, <3>3, ClearerFacts
  <2>6. QED
    BY <2>2, <2>3, <2>5 DEF Ended
<1>3. Inv /\ WaitInv => NobodyStuck /\ (GuardsRight => TasksEnd)
  BY <1>2 DEF NobodyStuck, TasksEnd
<1>4. QED
  BY <1>1, <1>3, PTL
=============================================================================

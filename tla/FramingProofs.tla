--------------------------- MODULE FramingProofs ---------------------------
(***************************************************************************)
(* Proofs about Framing, for any senders, ids, payloads and limits: the    *)
(* stream is read as it was written.                                       *)
(*                                                                         *)
(* The messages form a stream, of which the decoder and the network hold a *)
(* part.  The invariant says that there are places, one for each message   *)
(* (Placed), at which whatever there is of its frame is its encoding       *)
(* (InFrames), and that the stream ends where the holder of writeMu goes   *)
(* on writing (Unwritten).  A message that is begun gets the next place, a *)
(* write goes on with the last frame, a read moves units within the        *)
(* stream, and Decode takes the first frame off it.                        *)
(***************************************************************************)
EXTENDS Framing, SequenceTheorems, TLAPS

-----------------------------------------------------------------------------
(* Units and messages.                                                     *)

\* The structures that are sent as objects.
Structure == {"registration", "timestamp", "device code", "description", "candidate",
              "connection", "result", "error", "device"}

AnyUnit == {Unit(k, n) : k \in {"magic", "length", "byte"}, n \in Nat}
               \cup {Unit("json", o) : o \in Structure}

AnyMessage == [type : Nat, length : Nat, body : Seq(AnyUnit)]

\* What Encode does not refuse.
Sendable == {m \in Messages : m.length <= MaxBodyLength}

FrameLength(m) == HeaderLength + Len(m.body)

-----------------------------------------------------------------------------
(* The messages and their encodings.                                       *)

\* A unit is a number of some kind or an object.
LEMMA NumberUnit ==
    ASSUME NEW k \in {"magic", "length", "byte"}, NEW n \in Nat
    PROVE  Unit(k, n) \in AnyUnit
BY DEF AnyUnit

LEMMA ObjectUnit ==
    ASSUME NEW o \in Structure
    PROVE  Unit("json", o) \in AnyUnit
BY DEF AnyUnit

\* A message made of one object is well formed.
LEMMA ObjectShape ==
    ASSUME NEW t \in Nat, NEW k \in Structure
    PROVE  /\ Msg(t, Object(k)) \in AnyMessage
           /\ Msg(t, Object(k)).length = Len(Msg(t, Object(k)).body)
           /\ Msg(t, Object(k)).body = <<[kind |-> "json", value |-> k]>>
<1> DEFINE o == Object(k)
<1>1. Unit("json", k) \in AnyUnit
  BY ObjectUnit
<1>2. o \in Seq(AnyUnit) /\ Len(o) \in Nat
  BY <1>1 DEF Object
<1>3. o = <<[kind |-> "json", value |-> k]>>
  BY DEF Object, Unit
<1> HIDE DEF o
<1>4. Msg(t, o) = [type |-> t, length |-> Len(o), body |-> o]
  BY DEF Msg
<1>5. Msg(t, o) \in AnyMessage /\ Msg(t, o).length = Len(Msg(t, o).body) /\ Msg(t, o).body = o
  BY <1>2, <1>4 DEF AnyMessage
<1> QED
  BY <1>3, <1>5 DEF o

\* Ids and payloads are sequences of units.
LEMMA ContentIsUnits ==
    ASSUME NEW c \in Id \cup Bytes \cup {<<>>}
    PROVE  c \in Seq(AnyUnit) /\ Len(c) \in Nat
<1>1. OneByte \subseteq AnyUnit
  <2> SUFFICES ASSUME NEW u \in OneByte PROVE u \in AnyUnit
    OBVIOUS
  <2>1. u.kind = "byte" /\ u.value \in Nat /\ u = Unit(u.kind, u.value)
    BY DEF OneByte, Unit
  <2> QED
    BY <2>1, NumberUnit
<1>2. c \in Seq(OneByte)
  <2>1. CASE c = <<>>
    BY <2>1, EmptySeq
  <2>2. CASE c \in Id \cup Bytes
    BY <2>2, ContentAssumption
  <2> QED
    BY <2>1, <2>2
<1> QED
  BY <1>1, <1>2, SeqMonotonic, LenProperties

\* What follows a sequence begins after its last unit.
LEMMA Joined ==
    ASSUME NEW s \in Seq(AnyUnit), NEW t \in Seq(AnyUnit)
    PROVE  /\ s \o t \in Seq(AnyUnit)
           /\ Len(s) \in Nat /\ Len(t) \in Nat /\ Len(s \o t) = Len(s) + Len(t)
           /\ \A k \in 1 .. Len(s) : (s \o t)[k] = s[k]
           /\ \A k \in 1 .. Len(t) : (s \o t)[Len(s) + k] = t[k]
<1>1. Len(s) \in Nat /\ Len(t) \in Nat
  BY LenProperties
<1>2. /\ s \o t \in Seq(AnyUnit) /\ Len(s \o t) = Len(s) + Len(t)
      /\ \A k \in 1 .. Len(s) + Len(t) :
            (s \o t)[k] = IF k <= Len(s) THEN s[k] ELSE t[k - Len(s)]
  BY ConcatProperties
<1>3. ASSUME NEW k \in 1 .. Len(s) PROVE (s \o t)[k] = s[k]
  BY <1>1, <1>2
<1>4. ASSUME NEW k \in 1 .. Len(t) PROVE (s \o t)[Len(s) + k] = t[k]
  <2>1. Len(s) + k \in 1 .. Len(s) + Len(t) /\ ~(Len(s) + k <= Len(s)) /\ Len(s) + k - Len(s) = k
    BY <1>1
  <2> QED
    BY <1>2, <2>1
<1> QED
  BY <1>1, <1>2, <1>3, <1>4

\* A packet is the length of the id, the id and the data; the length has not
\* wrapped around (Message.toBytes).
LEMMA PacketShape ==
    ASSUME NEW i \in Id, NEW c \in Bytes \cup {<<>>}
    PROVE  /\ Packet(i, c) \in Seq(AnyUnit)
           /\ Len(Packet(i, c)) = 1 + Len(i) + Len(c)
           /\ Packet(i, c)[1].value = Len(i)
           /\ \A k \in 1 .. Len(i) : Packet(i, c)[1 + k] = i[k]
           /\ \A k \in 1 .. Len(c) : Packet(i, c)[1 + Len(i) + k] = c[k]
<1> DEFINE first == <<Unit("byte", Len(i) % IdLimit)>>
<1>1. i \in Seq(AnyUnit) /\ c \in Seq(AnyUnit) /\ Len(i) \in Nat /\ Len(c) \in Nat
  BY ContentIsUnits
<1>2. Len(i) % IdLimit = Len(i)
  <2>1. IdLimit \in Nat \ {0} /\ Len(i) < IdLimit
    BY IdAssumption, FramingAssumption
  <2> QED
    BY <1>1, <2>1
<1>3. first \in Seq(AnyUnit) /\ Len(first) = 1 /\ first[1].value = Len(i)
  <2>1. Unit("byte", Len(i) % IdLimit) \in AnyUnit
    BY <1>1, <1>2, NumberUnit
  <2> QED
    BY <1>2, <2>1 DEF Unit
<1> HIDE DEF first
<1>4. /\ first \o i \in Seq(AnyUnit) /\ Len(first \o i) = Len(first) + Len(i)
      /\ \A k \in 1 .. Len(first) : (first \o i)[k] = first[k]
      /\ \A k \in 1 .. Len(i) : (first \o i)[Len(first) + k] = i[k]
  BY <1>1, <1>3, Joined, Zenon
<1>5. Packet(i, c) = (first \o i) \o c
  BY DEF Packet, first
<1>6. /\ (first \o i) \o c \in Seq(AnyUnit)
      /\ Len((first \o i) \o c) = Len(first \o i) + Len(c)
      /\ \A k \in 1 .. Len(first \o i) : ((first \o i) \o c)[k] = (first \o i)[k]
      /\ \A k \in 1 .. Len(c) : ((first \o i) \o c)[Len(first \o i) + k] = c[k]
  BY <1>1, <1>4, Joined, Zenon
<1>7. Packet(i, c)[1].value = Len(i)
  BY <1>1, <1>3, <1>4, <1>5, <1>6
<1>8. ASSUME NEW k \in 1 .. Len(i) PROVE Packet(i, c)[1 + k] = i[k]
  <2>1. 1 + k \in 1 .. Len(first \o i)
    BY <1>1, <1>3, <1>4
  <2>2. Packet(i, c)[1 + k] = (first \o i)[1 + k]
    BY <1>5, <1>6, <2>1
  <2> QED
    BY <1>3, <1>4, <2>2
<1>9. Len(first \o i) = 1 + Len(i) /\ Len(Packet(i, c)) = 1 + Len(i) + Len(c)
  <2>1. Len(first \o i) = 1 + Len(i)
    BY <1>1, <1>3, <1>4
  <2> QED
    BY <1>1, <1>5, <1>6, <2>1
<1>10. ASSUME NEW k \in 1 .. Len(c) PROVE Packet(i, c)[1 + Len(i) + k] = c[k]
  BY <1>5, <1>6, <1>9
<1> QED
  BY <1>5, <1>6, <1>7, <1>8, <1>9, <1>10

\* A packet comes apart where it was put together.
LEMMA ParsePacket ==
    ASSUME NEW i \in Id, NEW c \in Bytes \cup {<<>>}
    PROVE  ParseDataPacket(Packet(i, c)) = <<i, c>>
<1> DEFINE p == Packet(i, c)
<1>1. i \in Seq(AnyUnit) /\ c \in Seq(AnyUnit) /\ Len(i) \in Nat /\ Len(c) \in Nat
  BY ContentIsUnits
<1>2. /\ p \in Seq(AnyUnit) /\ Len(p) = 1 + Len(i) + Len(c) /\ p[1].value = Len(i)
      /\ \A k \in 1 .. Len(i) : p[1 + k] = i[k]
      /\ \A k \in 1 .. Len(c) : p[1 + Len(i) + k] = c[k]
  BY PacketShape
<1>3. \A k \in 1 .. Len(p) : p[k] \in AnyUnit
  BY <1>2, ElementOfSeq
<1> HIDE DEF p
<1>4. SubSeq(p, 2, 1 + Len(i)) = i
  <2>1. /\ SubSeq(p, 2, 1 + Len(i)) \in Seq(AnyUnit)
        /\ Len(SubSeq(p, 2, 1 + Len(i))) = Len(i)
        /\ \A k \in 1 .. Len(i) : SubSeq(p, 2, 1 + Len(i))[k] = p[2 + k - 1]
    BY <1>1, <1>2, <1>3, SubSeqProperties, 2 \in Int, 1 + Len(i) \in Int
  <2> QED
    BY <1>1, <1>2, <2>1, SeqEqual
<1>5. SubSeq(p, 2 + Len(i), Len(p)) = c
  <2>1. /\ SubSeq(p, 2 + Len(i), Len(p)) \in Seq(AnyUnit)
        /\ Len(SubSeq(p, 2 + Len(i), Len(p))) = Len(c)
        /\ \A k \in 1 .. Len(c) : SubSeq(p, 2 + Len(i), Len(p))[k] = p[2 + Len(i) + k - 1]
    BY <1>1, <1>2, <1>3, SubSeqProperties, 2 + Len(i) \in Int, Len(p) \in Int
  <2>2. ASSUME NEW k \in 1 .. Len(c) PROVE SubSeq(p, 2 + Len(i), Len(p))[k] = c[k]
    <3>1. 2 + Len(i) + k - 1 = 1 + Len(i) + k
      BY <1>1
    <3> QED
      BY <1>2, <2>1, <3>1
  <2> QED
    BY <1>1, <2>1, <2>2, SeqEqual
<1>6. p # <<>> /\ ~(1 + p[1].value > Len(p))
  BY <1>1, <1>2, EmptySeq
<1> QED
  BY <1>2, <1>4, <1>5, <1>6 DEF ParseDataPacket, p

IsObject(m, t, k) == m = Msg(t, Object(k))

\* The types of the messages that carry an object, each with its structure.
CarriesObject(m) ==
    \/ IsObject(m, 1, "registration") \/ IsObject(m, 2, "timestamp")
    \/ IsObject(m, 14, "device code") \/ IsObject(m, 8, "description")
    \/ IsObject(m, 9, "description") \/ IsObject(m, 10, "candidate")
    \/ IsObject(m, 11, "connection") \/ IsObject(m, 12, "connection")
    \/ IsObject(m, 13, "connection") \/ IsObject(m, 5, "result")
    \/ IsObject(m, 4, "error") \/ IsObject(m, 15, "device")

\* A message carries an object or comes from one of three constructors.
LEMMA MessageCases ==
    ASSUME NEW m \in Messages
    PROVE  \/ CarriesObject(m)
           \/ \E i \in Id : m = NewCloseConnectionMessage(i)
           \/ \E b \in Bytes : m = NewDataMessage(b)
           \/ \E i \in Id, b \in Bytes : m = NewDataMessageWithConnectionID(i, b)
<1>1. CASE m \in ServerAnswers
  BY <1>1 DEF ServerAnswers, Type, CarriesObject, IsObject
<1>2. CASE m \in {NewRegisterMessage, NewHeartbeatMessage, NewDeviceQueryMessage,
                  NewWebRTCOfferMessage, NewWebRTCAnswerMessage, NewWebRTCICECandidateMessage,
                  NewWebRTCICECompleteMessage, NewWebRTCEstablishedMessage,
                  NewWebRTCFailedMessage}
  BY <1>2 DEF NewRegisterMessage, NewHeartbeatMessage, NewDeviceQueryMessage,
       NewWebRTCOfferMessage, NewWebRTCAnswerMessage, NewWebRTCICECandidateMessage,
       NewWebRTCICECompleteMessage, NewWebRTCEstablishedMessage, NewWebRTCFailedMessage,
       Type, CarriesObject, IsObject
<1> QED
  BY <1>1, <1>2 DEF Messages

\* A message says how long its body is, and the body is made of units.
LEMMA MessageShape ==
    ASSUME NEW m \in Messages
    PROVE  m \in AnyMessage /\ m.length = Len(m.body)
<1>1. ASSUME NEW t \in Nat, NEW b \in Seq(AnyUnit)
      PROVE  Msg(t, b) \in AnyMessage /\ Msg(t, b).length = Len(Msg(t, b).body)
  BY <1>1, LenProperties DEF Msg, AnyMessage
<1>2. CASE CarriesObject(m)
  <2>1. ASSUME NEW t \in Nat, NEW k \in Structure, IsObject(m, t, k)
        PROVE  m \in AnyMessage /\ m.length = Len(m.body)
    BY <2>1, ObjectShape DEF IsObject
  <2> QED
    BY <1>2, <2>1 DEF CarriesObject, Structure
<1>4. CASE \E i \in Id : m = NewCloseConnectionMessage(i)
  BY <1>1, <1>4, PacketShape DEF NewCloseConnectionMessage, Type
<1>5. CASE \E b \in Bytes : m = NewDataMessage(b)
  BY <1>1, <1>5, ContentIsUnits DEF NewDataMessage, Type
<1>6. CASE \E i \in Id, b \in Bytes : m = NewDataMessageWithConnectionID(i, b)
  BY <1>1, <1>6, PacketShape DEF NewDataMessageWithConnectionID, Type
<1> QED
  BY <1>2, <1>4, <1>5, <1>6, MessageCases

\* What handleMessage does with the types the server sends objects of.
LEMMA Dispatch ==
    ASSUME NEW m
    PROVE  /\ m.type = 5 => handleMessage(m) = Unmarshal(m.body, "result")
           /\ m.type = 4 => handleMessage(m) = Unmarshal(m.body, "error")
           /\ m.type = 9 => handleMessage(m) = Unmarshal(m.body, "description")
           /\ m.type = 10 => handleMessage(m) = Unmarshal(m.body, "candidate")
           /\ m.type \in {11, 12, 13} => handleMessage(m) = Unmarshal(m.body, "connection")
           /\ m.type = 15 => handleMessage(m) = Unmarshal(m.body, "device")
<1>1. /\ Type.RegisterAck = 5 /\ Type.HeartbeatAck = 6 /\ Type.CloseConnection = 7
      /\ Type.Data = 3 /\ Type.Error = 4 /\ Type.WebRTCAnswer = 9
      /\ Type.WebRTCICECandidate = 10 /\ Type.WebRTCICEComplete = 11
      /\ Type.WebRTCEstablished = 12 /\ Type.WebRTCFailed = 13 /\ Type.DeviceQueryAck = 15
  BY DEF Type
<1>2. CASE m.type = 5
  BY <1>1, <1>2 DEF handleMessage
<1>3. CASE m.type = 4
  BY <1>1, <1>3 DEF handleMessage, handleError
<1>4. CASE m.type = 9
  BY <1>1, <1>4 DEF handleMessage
<1>5. CASE m.type = 10
  BY <1>1, <1>5 DEF handleMessage
<1>6. CASE m.type \in {11, 12, 13}
  BY <1>1, <1>6 DEF handleMessage
<1>7. CASE m.type = 15
  BY <1>1, <1>7 DEF handleMessage, handleDeviceQueryAck
<1> QED
  BY <1>2, <1>3, <1>4, <1>5, <1>6, <1>7

\* The client takes each message for what it was made from.
LEMMA MessageUnderstood ==
    ASSUME NEW m \in Messages
    PROVE  /\ \A i \in Id, b \in Bytes :
                 m = NewDataMessageWithConnectionID(i, b) => handleMessage(m) = <<i, b>>
           /\ \A i \in Id : m = NewCloseConnectionMessage(i) => handleMessage(m) = <<i, <<>>>>
           /\ m.type \in FromServer => handleMessage(m) = <<m.body[1].value>>
<1>1. ASSUME NEW i \in Id, NEW b \in Bytes, m = NewDataMessageWithConnectionID(i, b)
      PROVE  handleMessage(m) = <<i, b>>
  <2>1. m.type = Type.Data /\ m.body = Packet(i, b)
    BY <1>1 DEF NewDataMessageWithConnectionID, Msg
  <2>2. handleMessage(m) = ParseDataPacket(Packet(i, b))
    BY <2>1 DEF handleMessage, handleData, Type
  <2> QED
    BY <2>2, ParsePacket
<1>2. ASSUME NEW i \in Id, m = NewCloseConnectionMessage(i)
      PROVE  handleMessage(m) = <<i, <<>>>>
  <2>1. m.type = Type.CloseConnection /\ m.body = Packet(i, <<>>)
    BY <1>2 DEF NewCloseConnectionMessage, Msg
  <2>2. handleMessage(m) = ParseDataPacket(Packet(i, <<>>))
    BY <2>1 DEF handleMessage, Type
  <2> QED
    BY <2>2, ParsePacket
<1>3. ASSUME m.type \in FromServer
      PROVE  handleMessage(m) = <<m.body[1].value>>
  <2>1. ASSUME NEW t, NEW k \in Structure, IsObject(m, t, k)
        PROVE  m.type = t /\ <<m.body[1].value>> = <<k>> /\ Unmarshal(m.body, k) = <<k>>
    BY <2>1 DEF IsObject, Msg, Object, Unit, Unmarshal
  <2>2. CASE CarriesObject(m)
    <3>1. \/ IsObject(m, 5, "result") \/ IsObject(m, 4, "error")
          \/ IsObject(m, 9, "description") \/ IsObject(m, 10, "candidate")
          \/ IsObject(m, 11, "connection") \/ IsObject(m, 12, "connection")
          \/ IsObject(m, 13, "connection") \/ IsObject(m, 15, "device")
      <4>1. m.type \notin {1, 2, 8, 14}
        BY <1>3 DEF FromServer, Type
      <4>2. /\ IsObject(m, 1, "registration") => m.type = 1
            /\ IsObject(m, 2, "timestamp") => m.type = 2
            /\ IsObject(m, 8, "description") => m.type = 8
            /\ IsObject(m, 14, "device code") => m.type = 14
        BY <2>1 DEF Structure
      <4> QED
        BY <2>2, <4>1, <4>2 DEF CarriesObject
    <3>2. \/ m.type = 5 /\ <<m.body[1].value>> = Unmarshal(m.body, "result")
          \/ m.type = 4 /\ <<m.body[1].value>> = Unmarshal(m.body, "error")
          \/ m.type = 9 /\ <<m.body[1].value>> = Unmarshal(m.body, "description")
          \/ m.type = 10 /\ <<m.body[1].value>> = Unmarshal(m.body, "candidate")
          \/ m.type \in {11, 12, 13} /\ <<m.body[1].value>> = Unmarshal(m.body, "connection")
          \/ m.type = 15 /\ <<m.body[1].value>> = Unmarshal(m.body, "device")
      BY <2>1, <3>1 DEF Structure
    <3>3. /\ m.type = 5 => handleMessage(m) = Unmarshal(m.body, "result")
          /\ m.type = 4 => handleMessage(m) = Unmarshal(m.body, "error")
          /\ m.type = 9 => handleMessage(m) = Unmarshal(m.body, "description")
          /\ m.type = 10 => handleMessage(m) = Unmarshal(m.body, "candidate")
          /\ m.type \in {11, 12, 13} => handleMessage(m) = Unmarshal(m.body, "connection")
          /\ m.type = 15 => handleMessage(m) = Unmarshal(m.body, "device")
      BY Dispatch
    <3> QED
      BY <3>2, <3>3
  <2>3. \A t, b : Msg(t, b).type = t
    BY DEF Msg
  <2> QED
    BY <1>3, <2>2, <2>3, MessageCases DEF FromServer, Type, NewCloseConnectionMessage,
         NewDataMessage, NewDataMessageWithConnectionID
<1> QED
  BY <1>1, <1>2, <1>3

-----------------------------------------------------------------------------
(* One frame.                                                              *)

LEMMA EncodedShape ==
    ASSUME NEW m \in Messages
    PROVE  LET e == EncodeToBytes(m) IN
           /\ e \in Seq(AnyUnit) /\ Len(m.body) \in Nat
           /\ m.body \in Seq(AnyUnit) /\ Header(m) \in Seq(AnyUnit)
           /\ Len(e) = FrameLength(m) /\ Len(Header(m)) = HeaderLength
           /\ \A k \in 1 .. HeaderLength : e[k] = Header(m)[k]
           /\ e[1] = [kind |-> "magic", value |-> m.type]
           /\ e[2] = [kind |-> "length", value |-> Len(m.body)]
           /\ \A k \in 1 .. Len(m.body) : e[HeaderLength + k] = m.body[k]
<1>1. /\ m.type \in Nat /\ m.length \in Nat /\ m.body \in Seq(AnyUnit)
      /\ m.length = Len(m.body)
  BY MessageShape DEF AnyMessage
<1>2. Header(m) \in Seq(AnyUnit) /\ Len(Header(m)) = 2
  <2>1. Unit("magic", m.type) \in AnyUnit /\ Unit("length", m.length) \in AnyUnit
    BY <1>1, NumberUnit
  <2> QED
    BY <2>1 DEF Header
<1>3. /\ Header(m)[1] = [kind |-> "magic", value |-> m.type]
      /\ Header(m)[2] = [kind |-> "length", value |-> Len(m.body)]
  BY <1>1 DEF Header, Unit
<1>4. /\ EncodeToBytes(m) \in Seq(AnyUnit) /\ Len(m.body) \in Nat
      /\ Len(EncodeToBytes(m)) = Len(Header(m)) + Len(m.body)
      /\ \A k \in 1 .. Len(Header(m)) : EncodeToBytes(m)[k] = Header(m)[k]
      /\ \A k \in 1 .. Len(m.body) : EncodeToBytes(m)[Len(Header(m)) + k] = m.body[k]
  BY <1>1, <1>2, Joined, Zenon DEF EncodeToBytes
<1> QED
  BY <1>1, <1>2, <1>3, <1>4 DEF FrameLength, HeaderLength

\* A valid header, and a message that is what it was, come out of units that
\* begin with the encoding of a message.
LEMMA FrameDecoded ==
    ASSUME NEW m \in Sendable, NEW data \in Seq(AnyUnit), FrameLength(m) <= Len(data),
           \A k \in 1 .. FrameLength(m) : data[k] = EncodeToBytes(m)[k]
    PROVE  /\ HeaderValid(data) /\ data[2].value = Len(m.body)
           /\ Msg(data[1].value, SubSeq(data, 1 + HeaderLength, FrameLength(m))) = m
<1> DEFINE e == EncodeToBytes(m)
           l == Len(m.body)
           cut0 == SubSeq(data, 3, 2 + l)
<1>1. m \in Messages /\ m.length <= MaxBodyLength
  BY DEF Sendable
<1>2. m \in AnyMessage /\ m.length = l /\ m.body \in Seq(AnyUnit) /\ l \in Nat
  BY <1>1, MessageShape, LenProperties DEF AnyMessage
<1>3. /\ e[1] = [kind |-> "magic", value |-> m.type] /\ e[2] = [kind |-> "length", value |-> l]
      /\ \A k \in 1 .. l : e[2 + k] = m.body[k]
  BY <1>1, EncodedShape DEF HeaderLength
<1>4. FrameLength(m) = 2 + l
  BY DEF FrameLength, HeaderLength
<1> HIDE DEF e, l
<1>5. data[1] = e[1] /\ data[2] = e[2] /\ \A k \in 1 .. l : data[2 + k] = e[2 + k]
  BY <1>2, <1>4 DEF e
<1>6. cut0 = m.body
  <2>1. Len(data) \in Nat /\ \A k \in 3 .. 2 + l : data[k] \in AnyUnit
    BY <1>2, <1>4, LenProperties, ElementOfSeq
  <2>2. /\ cut0 \in Seq(AnyUnit) /\ Len(cut0) = l
        /\ \A k \in 1 .. l : cut0[k] = data[3 + k - 1]
    BY <1>2, <2>1, SubSeqProperties, 3 \in Int, 2 + l \in Int
  <2>3. ASSUME NEW k \in 1 .. l PROVE cut0[k] = m.body[k]
    <3>1. 3 + k - 1 = 2 + k
      OBVIOUS
    <3> QED
      BY <1>3, <1>5, <2>2, <3>1
  <2> QED
    BY <1>2, <2>2, <2>3, SeqEqual DEF l
<1>7. data[1].kind = "magic" /\ data[1].value = m.type
      /\ data[2].kind = "length" /\ data[2].value = l
  BY <1>3, <1>5
<1>8. HeaderValid(data)
  BY <1>1, <1>2, <1>7, FramingAssumption DEF HeaderValid
<1>9. m = [type |-> m.type, length |-> l, body |-> m.body]
  BY <1>2 DEF AnyMessage
<1>10. Msg(data[1].value, cut0) = m
  BY <1>6, <1>7, <1>9 DEF Msg, l
<1> QED
  BY <1>4, <1>7, <1>8, <1>10 DEF HeaderLength, l

\* DecodeFromBytes gives the first message, whatever follows it.
LEMMA SliceDecoded ==
    ASSUME NEW m \in Sendable, NEW rest \in Seq(AnyUnit)
    PROVE  DecodeFromBytes(EncodeToBytes(m) \o rest) = <<m, Len(EncodeToBytes(m))>>
<1> DEFINE e == EncodeToBytes(m)
           data == e \o rest
<1>1. m \in Messages
  BY DEF Sendable
<1>2. e \in Seq(AnyUnit) /\ Len(e) = FrameLength(m) /\ Len(m.body) \in Nat
  BY <1>1, EncodedShape
<1>3. FrameLength(m) = HeaderLength + Len(m.body)
  BY DEF FrameLength
<1> HIDE DEF e
<1>4. /\ data \in Seq(AnyUnit) /\ Len(rest) \in Nat /\ Len(data) = Len(e) + Len(rest)
      /\ \A k \in 1 .. Len(e) : data[k] = e[k]
  BY <1>2, Joined
<1> HIDE DEF data
<1>5. FrameLength(m) <= Len(data) /\ Len(data) \in Nat
  BY <1>2, <1>3, <1>4 DEF HeaderLength
<1>6. \A k \in 1 .. FrameLength(m) : data[k] = EncodeToBytes(m)[k]
  BY <1>2, <1>4 DEF e
<1>7. /\ HeaderValid(data) /\ data[2].value = Len(m.body)
      /\ Msg(data[1].value, SubSeq(data, 1 + HeaderLength, FrameLength(m))) = m
  BY <1>4, <1>5, <1>6, FrameDecoded
<1>8. ~(Len(data) < HeaderLength) /\ ~(Len(data) < HeaderLength + data[2].value)
  BY <1>2, <1>3, <1>5, <1>7 DEF HeaderLength
<1>9. DecodeFromBytes(data) = <<m, FrameLength(m)>>
  BY <1>3, <1>7, <1>8 DEF DecodeFromBytes
<1> QED
  BY <1>2, <1>9 DEF data, e

\* It gives nothing for an encoding that ends early.
LEMMA SliceTooShort ==
    ASSUME NEW m \in Sendable, NEW n \in 0 .. Len(EncodeToBytes(m)) - 1
    PROVE  DecodeFromBytes(SubSeq(EncodeToBytes(m), 1, n)) = <<>>
<1> DEFINE e == EncodeToBytes(m)
           data == SubSeq(e, 1, n)
<1>1. /\ e \in Seq(AnyUnit) /\ Len(e) = 2 + Len(m.body) /\ Len(m.body) \in Nat
      /\ e[2] = [kind |-> "length", value |-> Len(m.body)]
  BY EncodedShape DEF Sendable, FrameLength, HeaderLength
<1>2. n \in Nat /\ n < 2 + Len(m.body)
  BY <1>1
<1> HIDE DEF e
<1>3. \A k \in 1 .. n : e[k] \in AnyUnit
  BY <1>1, <1>2, ElementOfSeq
<1>4. Len(data) = n /\ \A k \in 1 .. n : data[k] = e[1 + k - 1]
  BY <1>2, <1>3, SubSeqProperties, 1 \in Int, n \in Int
<1> HIDE DEF data
<1>5. ASSUME n < 2 PROVE DecodeFromBytes(data) = <<>>
  BY <1>4, <1>5 DEF DecodeFromBytes, HeaderLength
<1>6. ASSUME ~(n < 2) PROVE DecodeFromBytes(data) = <<>>
  <2>1. data[2] = e[2]
    BY <1>2, <1>4, <1>6
  <2>2. Len(data) < HeaderLength + data[2].value
    BY <1>1, <1>2, <1>4, <2>1 DEF HeaderLength
  <2> QED
    BY <2>2 DEF DecodeFromBytes
<1> QED
  BY <1>5, <1>6 DEF data, e

-----------------------------------------------------------------------------
(* Where the frames lie.  off[i] units of the whole stream come before the *)
(* i-th message s[i]; n messages have been decoded; st are the units that  *)
(* the decoder has in hand or that are on the wire.                        *)

Placed(off, s) ==
    /\ off \in [1 .. Len(s) + 1 -> Nat]
    /\ \A i \in 1 .. Len(s) : off[i + 1] = off[i] + FrameLength(s[i])
    /\ \A i, j \in 1 .. Len(s) + 1 : i <= j => off[i] <= off[j]

\* What is there of a frame is its encoding.
InFrames(off, s, n, st) ==
    \A i \in n + 1 .. Len(s) : \A k \in 1 .. FrameLength(s[i]) :
        off[i] + k - off[n + 1] <= Len(st) => st[off[i] + k - off[n + 1]] = EncodeToBytes(s[i])[k]

\* The places once m is the message after s.
WithPlace(off, s, m) ==
    [i \in 1 .. Len(s) + 2 |->
        IF i <= Len(s) + 1 THEN off[i] ELSE off[Len(s) + 1] + FrameLength(m)]

\* A frame holds a header and a body.
LEMMA FrameLengthNat ==
    ASSUME NEW m \in Sendable
    PROVE  /\ FrameLength(m) \in Nat /\ Len(m.body) \in Nat
           /\ FrameLength(m) = 2 + Len(m.body) /\ FrameLength(m) >= 2
BY EncodedShape DEF Sendable, FrameLength, HeaderLength

\* A message that is begun gets the place after the last one, and no place
\* moves (Start).
LEMMA PlaceNew ==
    ASSUME NEW s \in Seq(Sendable), NEW m \in Sendable, NEW n \in 0 .. Len(s),
           NEW st \in Seq(AnyUnit), NEW off, Placed(off, s), InFrames(off, s, n, st),
           off[n + 1] + Len(st) <= off[Len(s) + 1]
    PROVE  LET new == WithPlace(off, s, m) IN
           /\ Placed(new, Append(s, m)) /\ InFrames(new, Append(s, m), n, st)
           /\ \A i \in 1 .. Len(s) + 1 : new[i] = off[i]
           /\ new[Len(s) + 2] = off[Len(s) + 1] + FrameLength(m)
<1> DEFINE l == Len(s)
           t == Append(s, m)
           new == WithPlace(off, s, m)
<1>1. l \in Nat /\ n \in Nat /\ n <= l /\ Len(st) \in Nat
  BY LenProperties
<1>2. /\ t \in Seq(Sendable) /\ Len(t) = l + 1 /\ t[l + 1] = m
      /\ \A i \in 1 .. l : t[i] = s[i]
  BY AppendProperties
<1>3. /\ off \in [1 .. l + 1 -> Nat]
      /\ \A i \in 1 .. l : off[i + 1] = off[i] + FrameLength(s[i])
      /\ \A i, j \in 1 .. l + 1 : i <= j => off[i] <= off[j]
  BY DEF Placed
<1>4. FrameLength(m) \in Nat
  BY FrameLengthNat
<1> HIDE DEF t
<1>0. new = [i \in 1 .. l + 2 |-> IF i <= l + 1 THEN off[i] ELSE off[l + 1] + FrameLength(m)]
  BY DEF WithPlace
<1> HIDE DEF l, new
<1>5. /\ \A i \in 1 .. l + 1 : new[i] = off[i]
      /\ new[l + 2] = off[l + 1] + FrameLength(m)
      /\ DOMAIN new = 1 .. l + 2
  BY <1>0, <1>1
<1>6. \A i \in 1 .. l + 1 : off[i] \in Nat
  BY <1>3
<1>7. new \in [1 .. l + 2 -> Nat]
  BY <1>0, <1>1, <1>4, <1>6
<1>8. ASSUME NEW i \in 1 .. l + 1 PROVE new[i + 1] = new[i] + FrameLength(t[i])
  <2>1. CASE i <= l
    <3>1. i \in 1 .. l /\ i + 1 \in 1 .. l + 1
      BY <1>1, <2>1
    <3> QED
      BY <1>2, <1>3, <1>5, <3>1
  <2>2. CASE i = l + 1
    <3>1. i + 1 = l + 2
      BY <1>1, <2>2
    <3> QED
      BY <1>2, <1>5, <2>2, <3>1
  <2> QED
    BY <1>1, <2>1, <2>2
<1>9. ASSUME NEW i \in 1 .. l + 2, NEW j \in 1 .. l + 2, i <= j PROVE new[i] <= new[j]
  <2>1. CASE j <= l + 1
    <3>1. i \in 1 .. l + 1 /\ j \in 1 .. l + 1
      BY <1>1, <1>9, <2>1
    <3> QED
      BY <1>3, <1>5, <1>9, <3>1
  <2>2. CASE j = l + 2 /\ i <= l + 1
    <3>1. i \in 1 .. l + 1 /\ l + 1 \in 1 .. l + 1
      BY <1>1, <2>2
    <3>2. off[i] <= off[l + 1] /\ off[i] \in Nat /\ off[l + 1] \in Nat
      BY <1>1, <1>3, <1>6, <3>1
    <3> QED
      BY <1>4, <1>5, <2>2, <3>1, <3>2
  <2>3. CASE i = l + 2 /\ j = l + 2
    BY <1>1, <1>4, <1>5, <1>6, <2>3
  <2> QED
    BY <1>1, <1>9, <2>1, <2>2, <2>3
<1>10. Placed(new, t)
  <2>1. l + 1 + 1 = l + 2
    BY <1>1
  <2> QED
    BY <1>2, <1>7, <1>8, <1>9, <2>1 DEF Placed
<1>11. InFrames(new, t, n, st)
  <2> SUFFICES ASSUME NEW i \in n + 1 .. l + 1, NEW k \in 1 .. FrameLength(t[i]),
                      new[i] + k - new[n + 1] <= Len(st)
               PROVE  st[new[i] + k - new[n + 1]] = EncodeToBytes(t[i])[k]
    BY <1>2 DEF InFrames
  <2>1. i \in 1 .. l + 1 /\ n + 1 \in 1 .. l + 1
    BY <1>1
  <2>2. new[i] = off[i] /\ new[n + 1] = off[n + 1] /\ off[i] \in Nat /\ off[n + 1] \in Nat
    BY <1>5, <1>6, <2>1
  <2>3. i # l + 1
    <3>1. off[n + 1] + Len(st) <= off[l + 1]
      BY DEF l
    <3>2. k \in Int /\ k >= 1
      <4>1. t[i] \in Sendable
        BY <1>2, <2>1, ElementOfSeq
      <4> QED
        BY <4>1, FrameLengthNat
    <3> QED
      BY <1>1, <2>2, <3>1, <3>2
  <2>4. i \in n + 1 .. l /\ i \in 1 .. l
    BY <1>1, <2>3
  <2>5. t[i] = s[i]
    BY <1>2, <2>4
  <2> QED
    BY <2>2, <2>4, <2>5 DEF InFrames, l
<1> QED
  BY <1>5, <1>10, <1>11 DEF l, t, new

\* Units written next go on with the last message (WritePart, WriteFails).
LEMMA WriteMore ==
    ASSUME NEW s \in Seq(Sendable), Len(s) > 0, NEW n \in 0 .. Len(s),
           NEW st \in Seq(AnyUnit), NEW part \in Seq(AnyUnit), NEW d \in Nat,
           NEW off, Placed(off, s), InFrames(off, s, n, st),
           off[n + 1] + Len(st) = off[Len(s)] + d,
           d + Len(part) <= FrameLength(s[Len(s)]),
           \A k \in 1 .. Len(part) : part[k] = EncodeToBytes(s[Len(s)])[d + k]
    PROVE  InFrames(off, s, n, st \o part)
<1> DEFINE l == Len(s)
           all == st \o part
<1>1. l \in Nat /\ l > 0 /\ n \in Nat /\ n <= l /\ Len(st) \in Nat /\ Len(part) \in Nat
  BY LenProperties
<1>2. /\ Len(all) = Len(st) + Len(part)
      /\ \A k \in 1 .. Len(st) : all[k] = st[k]
      /\ \A k \in 1 .. Len(part) : all[Len(st) + k] = part[k]
  BY Joined
<1>3. /\ \A i \in 1 .. l + 1 : off[i] \in Nat
      /\ \A i \in 1 .. l : off[i + 1] = off[i] + FrameLength(s[i])
      /\ \A i, j \in 1 .. l + 1 : i <= j => off[i] <= off[j]
  BY DEF Placed
<1>4. off[n + 1] + Len(st) = off[l] + d
  OBVIOUS
<1> SUFFICES ASSUME NEW i \in n + 1 .. l, NEW k \in 1 .. FrameLength(s[i]),
                    off[i] + k - off[n + 1] <= Len(all)
             PROVE  all[off[i] + k - off[n + 1]] = EncodeToBytes(s[i])[k]
  BY DEF InFrames
<1> HIDE DEF l, all
<1>5. /\ i \in 1 .. l /\ i + 1 \in 1 .. l + 1 /\ l \in 1 .. l + 1
      /\ n + 1 \in 1 .. l + 1 /\ i \in 1 .. l + 1
  BY <1>1
<1>6. FrameLength(s[i]) \in Nat
  BY <1>5, FrameLengthNat, ElementOfSeq DEF l
<1>7. PICK x \in Nat, b \in Nat, y \in Nat : x = off[i] /\ b = off[n + 1] /\ y = off[l]
  BY <1>1, <1>3, <1>5
<1>8. b <= x
  BY <1>1, <1>3, <1>5, <1>7
<1>9. k \in Nat /\ 1 <= k /\ k <= FrameLength(s[i])
  BY <1>6
<1>10. PICK p \in Nat : p = x + k - b /\ p >= 1
  BY <1>8, <1>9
<1>11. p = off[i] + k - off[n + 1]
  BY <1>7, <1>10
<1>12. CASE p <= Len(st)
  <2>1. st[p] = EncodeToBytes(s[i])[k]
    BY <1>12, <1>11 DEF InFrames, l
  <2>2. p \in 1 .. Len(st)
    BY <1>1, <1>10, <1>12
  <2> QED
    BY <1>2, <1>11, <2>1, <2>2
<1>13. CASE ~(p <= Len(st))
  <2>1. i = l
    <3>1. SUFFICES ASSUME i # l PROVE FALSE
      OBVIOUS
    <3>2. off[i + 1] <= off[l] /\ off[i + 1] = off[i] + FrameLength(s[i])
      BY <1>1, <1>3, <1>5, <3>1
    <3>3. x + FrameLength(s[i]) <= y /\ b + Len(st) = y + d
      BY <1>4, <1>7, <3>2
    <3> QED
      BY <1>1, <1>6, <1>9, <1>10, <1>13, <3>3, SMTT(30)
  <2>2. b + Len(st) = x + d /\ p <= Len(st) + Len(part)
    BY <1>2, <1>4, <1>7, <1>11, <2>1
  <2>3. PICK q \in 1 .. Len(part) : p = Len(st) + q
    <3>1. p - Len(st) \in 1 .. Len(part) /\ p = Len(st) + (p - Len(st))
      BY <1>1, <1>10, <1>13, <2>2
    <3> QED
      BY <3>1, Zenon
  <2>4. k = d + q
    BY <1>1, <1>9, <1>10, <2>2, <2>3, SMTT(30)
  <2>5. all[Len(st) + q] = EncodeToBytes(s[i])[d + q]
    BY <1>2, <2>1, <2>3 DEF l
  <2> QED
    BY <1>11, <2>3, <2>4, <2>5
<1> QED
  BY <1>12, <1>13

\* What the decoder has in hand begins with the next frame.
LEMMA NextFrame ==
    ASSUME NEW s \in Seq(Sendable), NEW n \in 0 .. Len(s), NEW st \in Seq(AnyUnit),
           NEW off, Placed(off, s), InFrames(off, s, n, st),
           off[n + 1] + Len(st) <= off[Len(s) + 1], Len(st) > 0
    PROVE  /\ n < Len(s) /\ n + 1 \in 1 .. Len(s) /\ s[n + 1] \in Sendable
           /\ \A k \in 1 .. FrameLength(s[n + 1]) :
                 k <= Len(st) => st[k] = EncodeToBytes(s[n + 1])[k]
<1>1. Len(s) \in Nat /\ n \in Nat /\ n <= Len(s) /\ Len(st) \in Nat
  BY LenProperties
<1>2. n + 1 \in 1 .. Len(s) + 1
  BY <1>1
<1>3. off[n + 1] \in Nat
  BY <1>2 DEF Placed
<1>4. n < Len(s)
  BY <1>1, <1>3
<1>5. n + 1 \in 1 .. Len(s) /\ n + 1 \in n + 1 .. Len(s) /\ s[n + 1] \in Sendable
  BY <1>1, <1>4, ElementOfSeq
<1>6. ASSUME NEW k \in 1 .. FrameLength(s[n + 1]), k <= Len(st)
      PROVE  st[k] = EncodeToBytes(s[n + 1])[k]
  <2>1. k \in Int
    BY <1>5, FrameLengthNat
  <2>2. off[n + 1] + k - off[n + 1] = k
    BY <1>3, <2>1
  <2> QED
    BY <1>5, <1>6, <2>2 DEF InFrames
<1> QED
  BY <1>4, <1>5, <1>6

\* When it has been decoded, what is left begins with the frame after it.
LEMMA FrameTaken ==
    ASSUME NEW s \in Seq(Sendable), NEW n \in Nat, n < Len(s),
           NEW b \in Seq(AnyUnit), NEW w \in Seq(AnyUnit),
           NEW off, Placed(off, s), InFrames(off, s, n, b \o w),
           Len(b) = FrameLength(s[n + 1])
    PROVE  /\ InFrames(off, s, n + 1, w)
           /\ off[n + 2] = off[n + 1] + Len(b)
<1> DEFINE all == b \o w
<1>1. Len(s) \in Nat /\ Len(b) \in Nat /\ Len(w) \in Nat
  BY LenProperties
<1>2. /\ Len(all) = Len(b) + Len(w)
      /\ \A k \in 1 .. Len(w) : all[Len(b) + k] = w[k]
  BY Joined
<1>3. /\ \A i \in 1 .. Len(s) + 1 : off[i] \in Nat
      /\ \A i \in 1 .. Len(s) : off[i + 1] = off[i] + FrameLength(s[i])
      /\ \A i, j \in 1 .. Len(s) + 1 : i <= j => off[i] <= off[j]
  BY DEF Placed
<1>4. n + 1 \in 1 .. Len(s) /\ n + 1 \in 1 .. Len(s) + 1 /\ n + 2 \in 1 .. Len(s) + 1
      /\ n + 1 + 1 = n + 2
  BY <1>1
<1>5. off[n + 2] = off[n + 1] + Len(b)
  BY <1>3, <1>4
<1>6. PICK y \in Nat, z \in Nat : y = off[n + 1] /\ z = off[n + 2]
  BY <1>3, <1>4
<1> HIDE DEF all
<1>7. ASSUME NEW i \in n + 2 .. Len(s), NEW k \in 1 .. FrameLength(s[i]),
             off[i] + k - off[n + 2] <= Len(w)
      PROVE  w[off[i] + k - off[n + 2]] = EncodeToBytes(s[i])[k]
  <2>1. i \in n + 1 .. Len(s) /\ i \in 1 .. Len(s) /\ i \in 1 .. Len(s) + 1 /\ n + 2 <= i
    BY <1>1
  <2>2. FrameLength(s[i]) \in Nat
    BY <2>1, FrameLengthNat, ElementOfSeq
  <2>3. k \in Nat /\ 1 <= k
    BY <2>2
  <2>4. PICK x \in Nat : x = off[i] /\ z <= x
    BY <1>3, <1>4, <1>6, <2>1
  <2>5. x + k - z \in 1 .. Len(w) /\ x + k - y = Len(b) + (x + k - z)
    <3>1. z = y + Len(b)
      BY <1>5, <1>6
    <3>2. x + k - z <= Len(w)
      BY <1>6, <1>7, <2>4
    <3>3. y \in Nat /\ z \in Nat /\ x \in Nat /\ k \in Nat /\ Len(b) \in Nat /\ Len(w) \in Nat
      BY <1>1, <1>6, <2>3, <2>4
    <3>4. z <= x /\ 1 <= k
      BY <2>3, <2>4
    <3>5. 1 <= x + k - z /\ x + k - z \in Int
      BY <3>3, <3>4
    <3>6. x + k - y = Len(b) + (x + k - z)
      BY <3>1, <3>3, SMTT(30)
    <3> QED
      BY <3>2, <3>3, <3>5, <3>6
  <2>6. x + k - y <= Len(all)
    BY <1>1, <1>2, <2>5
  <2>7. all[x + k - y] = EncodeToBytes(s[i])[k]
    BY <1>6, <2>1, <2>4, <2>6 DEF InFrames, all
  <2>8. all[x + k - y] = w[x + k - z]
    BY <1>2, <2>5
  <2> QED
    BY <1>6, <2>4, <2>7, <2>8
<1> QED
  BY <1>4, <1>5, <1>7 DEF InFrames

-----------------------------------------------------------------------------
(* The invariant.                                                          *)

\* How much of the last message is still to be written.
Unwritten(off) ==
    LET written == off[Len(decoded) + 1] + Len(buf \o wire)
        begin == off[Len(sent)]
        end == off[Len(sent) + 1]
        last == sent[Len(sent)] IN
    /\ written <= end
    /\ writing = Nobody =>
          \/ written = end
          \/ cut /\ Len(sent) > 0 /\ begin <= written
    /\ writing # Nobody =>
          /\ Len(sent) > 0
          /\ \/ writing.left = <<Header(last), last.body>> /\ written = begin
             \/ writing.left = <<last.body>> /\ written = begin + HeaderLength
             \/ writing.left = <<>> /\ written = end

Layout(off) ==
    /\ Placed(off, sent)
    /\ InFrames(off, sent, Len(decoded), buf \o wire)
    /\ Unwritten(off)

TypeInv ==
    /\ sent \in Seq(Sendable) /\ decoded \in Seq(Sendable)
    /\ buf \in Seq(AnyUnit) /\ wire \in Seq(AnyUnit)
    /\ writing = [by |-> writing.by, left |-> writing.left]

DecodedFirst ==
    /\ Len(decoded) <= Len(sent)
    /\ \A i \in 1 .. Len(decoded) : decoded[i] = sent[i]

\* After the end nobody writes, and the decoder takes no more than a frame.
Bounds ==
    /\ cut => ~usable /\ writing = Nobody
    /\ HeaderRead /\ HeaderValid(buf) => Len(buf) <= HeaderLength + buf[2].value

StreamInv ==
    /\ TypeInv /\ DecodedFirst /\ Bounds
    /\ \E off : Layout(off)

LEMMA StreamInit == Init => StreamInv
<1> SUFFICES ASSUME Init PROVE StreamInv
  OBVIOUS
<1> USE DEF Init
<1>1. TypeInv
  BY EmptySeq DEF TypeInv, Nobody
<1>2. DecodedFirst /\ Bounds
  BY EmptySeq DEF DecodedFirst, Bounds, HeaderRead, HeaderLength
<1>3. Layout([i \in 1 .. 1 |-> 0])
  <2> DEFINE off == [i \in 1 .. 1 |-> 0]
  <2>1. off \in [1 .. 1 -> Nat] /\ off[1] = 0 /\ \A i \in 1 .. 1 : i = 1
    OBVIOUS
  <2>2. Len(sent) = 0 /\ Len(decoded) = 0 /\ 1 .. Len(sent) = {} /\ 0 + 1 = 1
        /\ buf \o wire = <<>> /\ Len(buf \o wire) = 0
    BY EmptySeq, ConcatEmptySeq
  <2> HIDE DEF off
  <2>3. Placed(off, sent)
    BY <2>1, <2>2 DEF Placed
  <2>4. InFrames(off, sent, Len(decoded), buf \o wire)
    BY <2>2 DEF InFrames
  <2>5. Unwritten(off)
    <3>1. /\ off[Len(decoded) + 1] + Len(buf \o wire) = off[Len(sent) + 1]
          /\ off[Len(decoded) + 1] + Len(buf \o wire) <= off[Len(sent) + 1]
          /\ writing = Nobody
      BY <2>1, <2>2
    <3> QED
      BY <3>1 DEF Unwritten
  <2> QED
    BY <2>3, <2>4, <2>5 DEF Layout, off
<1> QED
  BY <1>1, <1>2, <1>3 DEF StreamInv

\* What the holder of writeMu writes next is what the frame goes on with.
LEMMA NextPart ==
    ASSUME StreamInv, NEW off, Layout(off), writing.left # <<>>
    PROVE  LET part == Head(writing.left)
               last == sent[Len(sent)] IN
           \E d \in Nat :
              /\ Len(sent) > 0 /\ writing # Nobody /\ part \in Seq(AnyUnit)
              /\ off[Len(decoded) + 1] + Len(buf \o wire) = off[Len(sent)] + d
              /\ d + Len(part) <= FrameLength(last)
              /\ \A k \in 1 .. Len(part) : part[k] = EncodeToBytes(last)[d + k]
              /\ \/ d + Len(part) = HeaderLength /\ Tail(writing.left) = <<last.body>>
                 \/ d + Len(part) = FrameLength(last) /\ Tail(writing.left) = <<>>
<1> DEFINE last == sent[Len(sent)]
           body == last.body
           written == off[Len(decoded) + 1] + Len(buf \o wire)
<1>1. writing # Nobody
  BY DEF Nobody
<1>2. /\ Len(sent) > 0
      /\ \/ writing.left = <<Header(last), body>> /\ written = off[Len(sent)]
         \/ writing.left = <<body>> /\ written = off[Len(sent)] + 2
  BY <1>1 DEF Layout, Unwritten, HeaderLength
<1>3. Len(sent) \in Nat /\ last \in Sendable
  <2>1. sent \in Seq(Sendable) /\ Len(sent) \in Nat
    BY LenProperties DEF StreamInv, TypeInv
  <2> QED
    BY <1>2, <2>1, ElementOfSeq
<1>4. Len(sent) \in 1 .. Len(sent) + 1 /\ off[Len(sent)] \in Nat
  <2>1. Len(sent) \in 1 .. Len(sent) + 1
    BY <1>2, <1>3
  <2> QED
    BY <2>1 DEF Layout, Placed
<1> HIDE DEF last
<1>5. /\ Len(body) \in Nat /\ body \in Seq(AnyUnit)
      /\ Header(last) \in Seq(AnyUnit) /\ Len(Header(last)) = 2
      /\ \A k \in 1 .. 2 : EncodeToBytes(last)[k] = Header(last)[k]
      /\ \A k \in 1 .. Len(body) : EncodeToBytes(last)[2 + k] = body[k]
      /\ FrameLength(last) = 2 + Len(body)
  BY <1>3, EncodedShape, FrameLengthNat DEF Sendable, HeaderLength
<1> HIDE DEF body, written
<1>6. CASE writing.left = <<Header(last), body>> /\ written = off[Len(sent)]
  <2>1. Head(writing.left) = Header(last) /\ Tail(writing.left) = <<body>>
    BY <1>6
  <2>2. written = off[Len(sent)] + 0
    BY <1>4, <1>6
  <2>3. \A k \in 1 .. 2 : Header(last)[k] = EncodeToBytes(last)[0 + k]
    BY <1>5
  <2>4. 0 + Len(Header(last)) <= FrameLength(last) /\ 0 + Len(Header(last)) = HeaderLength
    BY <1>5 DEF HeaderLength
  <2> QED
    BY <1>1, <1>2, <1>5, <2>1, <2>2, <2>3, <2>4, 0 \in Nat DEF last, body, written
<1>7. CASE writing.left = <<body>> /\ written = off[Len(sent)] + 2
  <2>1. Head(writing.left) = body /\ Tail(writing.left) = <<>>
    BY <1>7
  <2>2. 2 + Len(body) <= FrameLength(last) /\ 2 + Len(body) = FrameLength(last)
    BY <1>5
  <2> QED
    BY <1>1, <1>2, <1>5, <1>7, <2>1, <2>2, 2 \in Nat DEF last, body, written
<1> QED
  BY <1>2, <1>6, <1>7 DEF last, body, written

-----------------------------------------------------------------------------
(* Each step preserves it.                                                 *)

\* What the invariant says of lengths and units.
LEMMA InvShape ==
    ASSUME StreamInv
    PROVE  /\ sent \in Seq(Sendable) /\ decoded \in Seq(Sendable)
           /\ buf \in Seq(AnyUnit) /\ wire \in Seq(AnyUnit) /\ buf \o wire \in Seq(AnyUnit)
           /\ Len(sent) \in Nat /\ Len(decoded) \in 0 .. Len(sent)
           /\ Len(buf) \in Nat /\ Len(wire) \in Nat
           /\ Len(buf \o wire) = Len(buf) + Len(wire)
<1>1. /\ sent \in Seq(Sendable) /\ decoded \in Seq(Sendable)
      /\ buf \in Seq(AnyUnit) /\ wire \in Seq(AnyUnit) /\ Len(decoded) <= Len(sent)
  BY DEF StreamInv, TypeInv, DecodedFirst
<1>2. Len(sent) \in Nat /\ Len(decoded) \in Nat
  BY <1>1, LenProperties
<1>3. /\ buf \o wire \in Seq(AnyUnit) /\ Len(buf) \in Nat /\ Len(wire) \in Nat
      /\ Len(buf \o wire) = Len(buf) + Len(wire)
  BY <1>1, Joined
<1> QED
  BY <1>1, <1>2, <1>3

LEMMA StartInv ==
    ASSUME StreamInv, NEW s, NEW m \in Messages, Start(s, m)
    PROVE  StreamInv'
<1>1. PICK off : Layout(off)
  BY DEF StreamInv
<1>2. /\ wire' = wire /\ cut' = cut /\ buf' = buf /\ decoded' = decoded
      /\ usable /\ writing = Nobody /\ ~cut
  BY DEF Start, StreamInv, Bounds
<1>3. CASE m.length > MaxBodyLength
  <2>1. usable' = FALSE /\ writing' = writing /\ sent' = sent
    BY <1>3 DEF Start
  <2>2. Layout(off)'
    BY <1>1, <1>2, <2>1 DEF Layout, Unwritten
  <2>3. TypeInv' /\ DecodedFirst' /\ Bounds'
    BY <1>2, <2>1 DEF StreamInv, TypeInv, DecodedFirst, Bounds, HeaderRead, HeaderValid
  <2> QED
    BY <2>2, <2>3 DEF StreamInv
<1>4. CASE ~(m.length > MaxBodyLength)
  <2>1. /\ sent' = Append(sent, m) /\ usable' = usable
        /\ writing' = [by |-> s, left |-> <<Header(m), m.body>>]
    BY <1>4 DEF Start
  <2>2. m \in Sendable
    <3>1. m.length \in Nat
      BY MessageShape DEF AnyMessage
    <3> QED
      BY <1>4, <3>1, FramingAssumption DEF Sendable
  <2>3. /\ sent' \in Seq(Sendable) /\ Len(sent') = Len(sent) + 1 /\ sent'[Len(sent) + 1] = m
        /\ \A i \in 1 .. Len(sent) : sent'[i] = sent[i]
    BY <2>1, <2>2, InvShape, AppendProperties
  <2>4. TypeInv' /\ DecodedFirst' /\ Bounds'
    <3>1. writing'.left = <<Header(m), m.body>> /\ writing'.by = s
      BY <2>1
    <3>2. TypeInv'
      BY <1>2, <2>1, <2>3, <3>1 DEF StreamInv, TypeInv
    <3>3. DecodedFirst'
      BY <1>2, <2>3, InvShape DEF StreamInv, DecodedFirst
    <3>4. Bounds'
      BY <1>2, <2>1 DEF StreamInv, Bounds, HeaderRead, HeaderValid
    <3> QED
      BY <3>2, <3>3, <3>4
  <2>5. off[Len(decoded) + 1] + Len(buf \o wire) = off[Len(sent) + 1]
    BY <1>1, <1>2 DEF Layout, Unwritten
  <2>6. off[Len(sent) + 1] \in Nat /\ FrameLength(m) \in Nat
    <3>1. Len(sent) + 1 \in 1 .. Len(sent) + 1
      BY InvShape
    <3> QED
      BY <1>1, <2>2, <3>1, FrameLengthNat DEF Layout, Placed
  <2>7. off[Len(decoded) + 1] + Len(buf \o wire) <= off[Len(sent) + 1]
    BY <2>5, <2>6
  <2>8. PICK new :
              /\ new = WithPlace(off, sent, m)
              /\ Placed(new, Append(sent, m))
              /\ InFrames(new, Append(sent, m), Len(decoded), buf \o wire)
              /\ \A i \in 1 .. Len(sent) + 1 : new[i] = off[i]
              /\ new[Len(sent) + 2] = off[Len(sent) + 1] + FrameLength(m)
    <3>1. Placed(off, sent) /\ InFrames(off, sent, Len(decoded), buf \o wire)
      BY <1>1 DEF Layout
    <3>2. /\ sent \in Seq(Sendable) /\ Len(decoded) \in 0 .. Len(sent)
          /\ buf \o wire \in Seq(AnyUnit)
      BY InvShape
    <3>3. /\ Placed(WithPlace(off, sent, m), Append(sent, m))
          /\ InFrames(WithPlace(off, sent, m), Append(sent, m), Len(decoded), buf \o wire)
          /\ \A i \in 1 .. Len(sent) + 1 : WithPlace(off, sent, m)[i] = off[i]
          /\ WithPlace(off, sent, m)[Len(sent) + 2] = off[Len(sent) + 1] + FrameLength(m)
      <4>1. \A q \in Seq(Sendable), u \in Sendable, st \in Seq(AnyUnit) :
               \A n \in 0 .. Len(q) : \A o :
               /\ Placed(o, q) /\ InFrames(o, q, n, st)
               /\ o[n + 1] + Len(st) <= o[Len(q) + 1]
               => /\ Placed(WithPlace(o, q, u), Append(q, u))
                  /\ InFrames(WithPlace(o, q, u), Append(q, u), n, st)
                  /\ \A i \in 1 .. Len(q) + 1 : WithPlace(o, q, u)[i] = o[i]
                  /\ WithPlace(o, q, u)[Len(q) + 2] = o[Len(q) + 1] + FrameLength(u)
        BY PlaceNew
      <4>2. m \in Sendable
        BY <2>2
      <4>3. \A o :
               /\ Placed(o, sent) /\ InFrames(o, sent, Len(decoded), buf \o wire)
               /\ o[Len(decoded) + 1] + Len(buf \o wire) <= o[Len(sent) + 1]
               => /\ Placed(WithPlace(o, sent, m), Append(sent, m))
                  /\ InFrames(WithPlace(o, sent, m), Append(sent, m), Len(decoded), buf \o wire)
                  /\ \A i \in 1 .. Len(sent) + 1 : WithPlace(o, sent, m)[i] = o[i]
                  /\ WithPlace(o, sent, m)[Len(sent) + 2] = o[Len(sent) + 1] + FrameLength(m)
        BY <3>2, <4>1, <4>2, ZenonT(30)
      <4> QED
        BY <2>7, <3>1, <4>3, ZenonT(30)
    <3> QED
      BY <3>3
  <2>9. Layout(new)'
    <3>1. /\ new[Len(decoded) + 1] = off[Len(decoded) + 1]
          /\ new[Len(sent')] = off[Len(sent) + 1]
          /\ new[Len(sent') + 1] = off[Len(sent) + 1] + FrameLength(m)
      <4>1. /\ Len(decoded) + 1 \in 1 .. Len(sent) + 1 /\ Len(sent) + 1 \in 1 .. Len(sent) + 1
            /\ Len(sent) + 1 + 1 = Len(sent) + 2
        BY InvShape
      <4> QED
        BY <2>3, <2>8, <4>1
    <3>2. /\ new[Len(decoded) + 1] + Len(buf \o wire) <= new[Len(sent') + 1]
          /\ new[Len(decoded) + 1] + Len(buf \o wire) = new[Len(sent')]
      BY <2>5, <2>6, <3>1
    <3>3. /\ writing'.left = <<Header(sent'[Len(sent')]), sent'[Len(sent')].body>>
          /\ writing' # Nobody /\ Len(sent') > 0
      <4>1. sent'[Len(sent')] = m /\ Len(sent') > 0
        BY <2>3, InvShape
      <4>2. writing'.left = <<Header(m), m.body>> /\ Nobody.left = <<>>
        BY <2>1 DEF Nobody
      <4>3. <<Header(m), m.body>> # <<>>
        OBVIOUS
      <4> QED
        BY <4>1, <4>2, <4>3
    <3>4. Unwritten(new)'
      BY <1>2, <3>2, <3>3 DEF Unwritten
    <3> QED
      BY <1>2, <2>1, <2>8, <3>4 DEF Layout
  <2> QED
    BY <2>4, <2>9 DEF StreamInv
<1> QED
  BY <1>3, <1>4

LEMMA WritePartInv ==
    ASSUME StreamInv, NEW s, WritePart(s)
    PROVE  StreamInv'
<1>1. PICK off : Layout(off)
  BY DEF StreamInv
<1> DEFINE part == Head(writing.left)
           last == sent[Len(sent)]
<1>2. /\ wire' = wire \o part /\ writing' = [writing EXCEPT !.left = Tail(@)]
      /\ usable' = usable /\ cut' = cut /\ buf' = buf /\ sent' = sent /\ decoded' = decoded
      /\ writing.left # <<>>
  BY DEF WritePart
<1>3. PICK d \in Nat :
         /\ Len(sent) > 0 /\ writing # Nobody /\ part \in Seq(AnyUnit)
         /\ off[Len(decoded) + 1] + Len(buf \o wire) = off[Len(sent)] + d
         /\ d + Len(part) <= FrameLength(last)
         /\ \A k \in 1 .. Len(part) : part[k] = EncodeToBytes(last)[d + k]
         /\ \/ d + Len(part) = HeaderLength /\ Tail(writing.left) = <<last.body>>
            \/ d + Len(part) = FrameLength(last) /\ Tail(writing.left) = <<>>
  BY <1>1, <1>2, NextPart
<1> HIDE DEF part
<1>4. InFrames(off, sent, Len(decoded), (buf \o wire) \o part)
  BY <1>1, <1>3, InvShape, WriteMore DEF Layout
<1>5. buf' \o wire' = (buf \o wire) \o part
  <2>1. /\ buf \in Seq(AnyUnit) /\ wire \in Seq(AnyUnit) /\ part \in Seq(AnyUnit)
    BY <1>3, InvShape
  <2>2. (buf \o wire) \o part = buf \o (wire \o part)
    BY <2>1, ConcatAssociative, SMTT(20)
  <2> QED
    BY <1>2, <2>2
<1>6. Len((buf \o wire) \o part) = Len(buf \o wire) + Len(part) /\ Len(part) \in Nat
  BY <1>3, InvShape, Joined
<1>7. /\ off[Len(sent)] \in Nat /\ off[Len(decoded) + 1] \in Nat
      /\ off[Len(sent) + 1] = off[Len(sent)] + FrameLength(last)
  <2>1. /\ Len(sent) \in 1 .. Len(sent) /\ Len(sent) \in 1 .. Len(sent) + 1
        /\ Len(decoded) + 1 \in 1 .. Len(sent) + 1
    BY <1>3, InvShape
  <2> QED
    BY <1>1, <2>1 DEF Layout, Placed
<1>8. FrameLength(last) \in Nat /\ HeaderLength = 2 /\ Len(buf \o wire) \in Nat
  <2>1. Len(sent) \in 1 .. Len(sent)
    BY <1>3, InvShape
  <2> QED
    BY <2>1, InvShape, FrameLengthNat, ElementOfSeq DEF HeaderLength
<1>9. /\ writing'.left = Tail(writing.left)
      /\ writing' = [by |-> writing.by, left |-> Tail(writing.left)]
  BY <1>2 DEF StreamInv, TypeInv
<1> HIDE DEF last
<1>10. off[Len(decoded) + 1] + Len((buf \o wire) \o part) = off[Len(sent)] + (d + Len(part))
  <2>1. off[Len(decoded) + 1] + Len(buf \o wire) = off[Len(sent)] + d
    BY <1>3
  <2> QED
    BY <1>6, <1>7, <1>8, <2>1, SMTT(30)
<1>11. Unwritten(off)'
  <2>1. off[Len(decoded) + 1] + Len((buf \o wire) \o part) <= off[Len(sent) + 1]
    BY <1>3, <1>6, <1>7, <1>8, <1>10
  <2>2. CASE d + Len(part) = HeaderLength /\ Tail(writing.left) = <<last.body>>
    <3>1. writing' # Nobody
      BY <1>9, <2>2 DEF Nobody
    <3> QED
      BY <1>2, <1>3, <1>5, <1>9, <1>10, <2>1, <2>2, <3>1 DEF Unwritten, last
  <2>3. CASE d + Len(part) = FrameLength(last) /\ Tail(writing.left) = <<>>
    BY <1>2, <1>3, <1>5, <1>7, <1>9, <1>10, <2>1, <2>3 DEF Unwritten, last
  <2> QED
    BY <1>3, <2>2, <2>3
<1>12. Layout(off)'
  BY <1>1, <1>2, <1>4, <1>5, <1>11 DEF Layout
<1>13. TypeInv'
  <2>1. wire' \in Seq(AnyUnit)
    BY <1>2, <1>3, InvShape, Joined
  <2>2. writing' = [by |-> writing'.by, left |-> writing'.left]
    BY <1>9
  <2> QED
    BY <1>2, <2>1, <2>2 DEF StreamInv, TypeInv
<1>14. DecodedFirst' /\ Bounds'
  BY <1>2, <1>3 DEF StreamInv, DecodedFirst, Bounds, HeaderRead, HeaderValid
<1> QED
  BY <1>12, <1>13, <1>14 DEF StreamInv

LEMMA DoneInv ==
    ASSUME StreamInv, NEW s, Done(s)
    PROVE  StreamInv'
<1>1. PICK off : Layout(off)
  BY DEF StreamInv
<1>2. /\ usable' = usable /\ wire' = wire /\ cut' = cut /\ buf' = buf /\ sent' = sent
      /\ decoded' = decoded /\ writing.left = <<>> /\ writing' = Nobody
  BY DEF Done
<1>3. \/ off[Len(decoded) + 1] + Len(buf \o wire) = off[Len(sent) + 1]
      \/ /\ cut /\ Len(sent) > 0
         /\ off[Len(sent)] <= off[Len(decoded) + 1] + Len(buf \o wire)
  <2>1. CASE writing = Nobody
    BY <1>1, <2>1 DEF Layout, Unwritten
  <2>2. CASE writing # Nobody
    <3> DEFINE last == sent[Len(sent)]
    <3>1. <<Header(last), last.body>> # <<>> /\ <<last.body>> # <<>>
      OBVIOUS
    <3> QED
      BY <1>1, <1>2, <2>2, <3>1 DEF Layout, Unwritten
  <2> QED
    BY <2>1, <2>2
<1>4. Layout(off)'
  <2>1. off[Len(decoded) + 1] + Len(buf \o wire) <= off[Len(sent) + 1]
    BY <1>1 DEF Layout, Unwritten
  <2>2. (buf \o wire)' = buf \o wire
    BY <1>2
  <2> DEFINE n == Len(buf \o wire)
  <2>3. Len((buf \o wire)') = n
    BY <2>2
  <2> HIDE DEF n
  <2>4. Unwritten(off)'
    BY <1>2, <1>3, <2>1, <2>3 DEF Unwritten, n
  <2> QED
    BY <1>1, <1>2, <2>4 DEF Layout
<1>5. TypeInv' /\ DecodedFirst' /\ Bounds'
  BY <1>2 DEF StreamInv, TypeInv, DecodedFirst, Bounds, HeaderRead, HeaderValid, Nobody
<1> QED
  BY <1>4, <1>5 DEF StreamInv

LEMMA WriteFailsInv ==
    ASSUME StreamInv, NEW s, WriteFails(s)
    PROVE  StreamInv'
<1>1. PICK off : Layout(off)
  BY DEF StreamInv
<1> DEFINE whole == Head(writing.left)
           last == sent[Len(sent)]
<1>2. PICK q \in 0 .. Len(whole) - 1 : wire' = wire \o SubSeq(whole, 1, q)
  BY DEF WriteFails
<1> DEFINE part == SubSeq(whole, 1, q)
<1>3. /\ usable' = FALSE /\ cut' = TRUE /\ writing' = Nobody /\ buf' = buf /\ sent' = sent
      /\ decoded' = decoded /\ writing.left # <<>>
  BY DEF WriteFails
<1>4. PICK d \in Nat :
         /\ Len(sent) > 0 /\ writing # Nobody /\ whole \in Seq(AnyUnit)
         /\ off[Len(decoded) + 1] + Len(buf \o wire) = off[Len(sent)] + d
         /\ d + Len(whole) <= FrameLength(last)
         /\ \A k \in 1 .. Len(whole) : whole[k] = EncodeToBytes(last)[d + k]
         /\ \/ d + Len(whole) = HeaderLength /\ Tail(writing.left) = <<last.body>>
            \/ d + Len(whole) = FrameLength(last) /\ Tail(writing.left) = <<>>
  BY <1>1, <1>3, NextPart
<1> HIDE DEF whole
<1>5. Len(whole) \in Nat /\ q \in Nat /\ q < Len(whole)
  BY <1>4, LenProperties
<1>6. \A k \in 1 .. q : whole[k] \in AnyUnit
  BY <1>4, <1>5, ElementOfSeq
<1>7. part \in Seq(AnyUnit) /\ Len(part) = q /\ \A k \in 1 .. q : part[k] = whole[1 + k - 1]
  BY <1>5, <1>6, SubSeqProperties, 1 \in Int, q \in Int
<1>8. \A k \in 1 .. Len(part) : part[k] = EncodeToBytes(last)[d + k]
  BY <1>4, <1>5, <1>7
<1> HIDE DEF part
<1>9. /\ off[Len(sent)] \in Nat /\ off[Len(decoded) + 1] \in Nat
      /\ off[Len(sent) + 1] = off[Len(sent)] + FrameLength(last)
  <2>1. /\ Len(sent) \in 1 .. Len(sent) /\ Len(sent) \in 1 .. Len(sent) + 1
        /\ Len(decoded) + 1 \in 1 .. Len(sent) + 1
    BY <1>4, InvShape
  <2> QED
    BY <1>1, <2>1 DEF Layout, Placed
<1>10. FrameLength(last) \in Nat /\ Len(buf \o wire) \in Nat
  <2>1. Len(sent) \in 1 .. Len(sent)
    BY <1>4, InvShape
  <2> QED
    BY <2>1, InvShape, FrameLengthNat, ElementOfSeq
<1> HIDE DEF last
<1>11. d + Len(part) <= FrameLength(last)
  BY <1>4, <1>5, <1>7, <1>10
<1>12. InFrames(off, sent, Len(decoded), (buf \o wire) \o part)
  BY <1>1, <1>4, <1>7, <1>8, <1>11, InvShape, WriteMore DEF Layout, last
<1>13. buf' \o wire' = (buf \o wire) \o part
  <2>1. /\ buf \in Seq(AnyUnit) /\ wire \in Seq(AnyUnit) /\ part \in Seq(AnyUnit)
    BY <1>7, InvShape
  <2>2. (buf \o wire) \o part = buf \o (wire \o part)
    BY <2>1, ConcatAssociative, SMTT(20)
  <2> QED
    BY <1>2, <1>3, <2>2 DEF part
<1>14. Len((buf \o wire) \o part) = Len(buf \o wire) + q
  BY <1>7, InvShape, Joined
<1>15. Unwritten(off)'
  <2>1. off[Len(decoded) + 1] + Len(buf \o wire) = off[Len(sent)] + d
    BY <1>4
  <2>2. off[Len(decoded) + 1] + Len((buf \o wire) \o part) <= off[Len(sent) + 1]
    BY <1>5, <1>7, <1>9, <1>10, <1>11, <1>14, <2>1, SMTT(30)
  <2>3. off[Len(sent)] <= off[Len(decoded) + 1] + Len((buf \o wire) \o part)
    BY <1>5, <1>9, <1>10, <1>14, <2>1, SMTT(30)
  <2> QED
    BY <1>3, <1>4, <1>13, <2>2, <2>3 DEF Unwritten
<1>16. Layout(off)'
  BY <1>1, <1>3, <1>12, <1>13, <1>15 DEF Layout
<1>17. TypeInv'
  <2>1. wire' \in Seq(AnyUnit)
    BY <1>2, <1>7, InvShape, Joined DEF part
  <2> QED
    BY <1>3, <2>1 DEF StreamInv, TypeInv, Nobody
<1>18. DecodedFirst' /\ Bounds'
  BY <1>3 DEF StreamInv, DecodedFirst, Bounds, HeaderRead, HeaderValid
<1> QED
  BY <1>16, <1>17, <1>18 DEF StreamInv

LEMMA EndsInv ==
    ASSUME StreamInv, Ends
    PROVE  StreamInv'
<1>1. PICK off : Layout(off)
  BY DEF StreamInv
<1>2. /\ cut' = TRUE /\ usable' = FALSE /\ writing' = writing /\ wire' = wire /\ buf' = buf
      /\ sent' = sent /\ decoded' = decoded /\ writing = Nobody
  BY DEF Ends
<1>3. Layout(off)'
  BY <1>1, <1>2 DEF Layout, Unwritten
<1>4. TypeInv' /\ DecodedFirst' /\ Bounds'
  BY <1>2 DEF StreamInv, TypeInv, DecodedFirst, Bounds, HeaderRead, HeaderValid
<1> QED
  BY <1>3, <1>4 DEF StreamInv

LEMMA ArrivesInv ==
    ASSUME StreamInv, Arrives
    PROVE  StreamInv'
<1>1. PICK off : Layout(off)
  BY DEF StreamInv
<1>2. /\ writing' = writing /\ usable' = usable /\ cut' = cut /\ sent' = sent
      /\ decoded' = decoded /\ wire # <<>>
      /\ buf' = Append(buf, Head(wire)) /\ wire' = Tail(wire)
      /\ HeaderRead => HeaderValid(buf) /\ Len(buf) < HeaderLength + buf[2].value
  BY DEF Arrives
<1> DEFINE h == Head(wire)
           t == Tail(wire)
<1>3. /\ buf \in Seq(AnyUnit) /\ wire \in Seq(AnyUnit) /\ Len(buf) \in Nat
  BY InvShape
<1>4. h \in AnyUnit /\ t \in Seq(AnyUnit) /\ wire = <<h>> \o t
  <2>1. /\ h \in AnyUnit /\ t \in Seq(AnyUnit) /\ Len(t) = Len(wire) - 1
        /\ \A i \in 1 .. Len(t) : t[i] = wire[i + 1]
    BY <1>2, <1>3, HeadTailProperties
  <2>2. h = wire[1] /\ Len(wire) \in Nat
    BY <1>3, LenProperties
  <2> HIDE DEF h, t
  <2>3. <<h>> \in Seq(AnyUnit) /\ Len(<<h>>) = 1 /\ <<h>>[1] = h
    BY <2>1
  <2>4. /\ <<h>> \o t \in Seq(AnyUnit) /\ Len(<<h>> \o t) = Len(wire)
        /\ \A i \in 1 .. 1 : (<<h>> \o t)[i] = <<h>>[i]
        /\ \A i \in 1 .. Len(t) : (<<h>> \o t)[1 + i] = t[i]
    <3>1. /\ <<h>> \o t \in Seq(AnyUnit) /\ Len(<<h>> \o t) = Len(<<h>>) + Len(t)
          /\ \A i \in 1 .. Len(<<h>>) : (<<h>> \o t)[i] = <<h>>[i]
          /\ \A i \in 1 .. Len(t) : (<<h>> \o t)[Len(<<h>>) + i] = t[i]
      BY <2>1, <2>3, Joined, Zenon
    <3> QED
      BY <2>1, <2>2, <2>3, <3>1
  <2>5. ASSUME NEW i \in 1 .. Len(wire) PROVE wire[i] = (<<h>> \o t)[i]
    <3>1. CASE i = 1
      BY <2>2, <2>3, <2>4, <3>1
    <3>2. CASE i # 1
      <4>1. i - 1 \in 1 .. Len(t) /\ 1 + (i - 1) = i /\ (i - 1) + 1 = i
        BY <2>1, <2>2, <3>2
      <4> QED
        BY <2>1, <2>4, <4>1
    <3> QED
      BY <3>1, <3>2
  <2> QED
    BY <1>3, <2>1, <2>4, <2>5, SeqEqual
<1> HIDE DEF h, t
<1>5. Append(buf, h) = buf \o <<h>> /\ <<h>> \in Seq(AnyUnit)
  BY <1>3, <1>4, AppendIsConcat
<1>6. buf' \o wire' = buf \o wire
  <2>1. (buf \o <<h>>) \o t = buf \o (<<h>> \o t)
    BY <1>3, <1>4, <1>5, ConcatAssociative, SMTT(20)
  <2> QED
    BY <1>2, <1>4, <1>5, <2>1 DEF h, t
<1>7. Layout(off)'
  BY <1>1, <1>2, <1>6 DEF Layout, Unwritten
<1>8. /\ buf' \in Seq(AnyUnit) /\ wire' \in Seq(AnyUnit) /\ Len(buf') = Len(buf) + 1
      /\ \A i \in 1 .. Len(buf) : buf'[i] = buf[i]
  BY <1>2, <1>3, <1>4, AppendProperties DEF h, t
<1>9. Bounds'
  <2>1. cut' => ~usable' /\ writing' = Nobody
    BY <1>2 DEF StreamInv, Bounds
  <2>2. ASSUME HeaderRead', HeaderValid(buf')
        PROVE  Len(buf') <= HeaderLength + buf'[2].value
    <3>1. buf'[2].value \in Nat
      BY <2>2, FramingAssumption DEF HeaderValid
    <3>2. CASE HeaderRead
      <4>1. 2 \in 1 .. Len(buf)
        BY <1>3, <3>2 DEF HeaderRead, HeaderLength
      <4>2. buf'[2] = buf[2] /\ Len(buf) < HeaderLength + buf[2].value
        BY <1>2, <1>8, <3>2, <4>1
      <4> QED
        BY <1>3, <1>8, <3>1, <4>2 DEF HeaderLength
    <3>3. CASE ~HeaderRead
      BY <1>3, <1>8, <3>1, <3>3 DEF HeaderRead, HeaderLength
    <3> QED
      BY <3>2, <3>3
  <2> QED
    BY <2>1, <2>2 DEF Bounds
<1>10. TypeInv' /\ DecodedFirst'
  BY <1>2, <1>8 DEF StreamInv, TypeInv, DecodedFirst
<1> QED
  BY <1>7, <1>9, <1>10 DEF StreamInv

LEMMA DecodeInv ==
    ASSUME StreamInv, Decode
    PROVE  StreamInv'
<1>1. PICK off : Layout(off)
  BY DEF StreamInv
<1> DEFINE n == Len(decoded)
           f == sent[n + 1]
           st == buf \o wire
           m == Msg(buf[1].value, SubSeq(buf, 1 + HeaderLength, Len(buf)))
<1>2. /\ writing' = writing /\ usable' = usable /\ wire' = wire /\ cut' = cut /\ sent' = sent
      /\ buf' = <<>> /\ decoded' = Append(decoded, m)
      /\ HeaderRead /\ HeaderValid(buf) /\ Len(buf) = HeaderLength + buf[2].value
  BY DEF Decode, Complete
<1>3. /\ buf \in Seq(AnyUnit) /\ wire \in Seq(AnyUnit) /\ st \in Seq(AnyUnit)
      /\ Len(buf) \in Nat /\ Len(wire) \in Nat /\ Len(st) = Len(buf) + Len(wire)
      /\ \A k \in 1 .. Len(buf) : st[k] = buf[k]
      /\ sent \in Seq(Sendable) /\ decoded \in Seq(Sendable)
      /\ Len(sent) \in Nat /\ n \in 0 .. Len(sent) /\ n \in Nat
  BY InvShape, Joined
<1>4. Len(buf) >= 2
  BY <1>2 DEF HeaderRead, HeaderLength
<1>5. off[n + 1] + Len(st) <= off[Len(sent) + 1]
  BY <1>1 DEF Layout, Unwritten
<1>6. Placed(off, sent) /\ InFrames(off, sent, n, st)
  BY <1>1 DEF Layout
<1> HIDE DEF n, st, m
<1>7. /\ n < Len(sent) /\ n + 1 \in 1 .. Len(sent) /\ f \in Sendable
      /\ \A k \in 1 .. FrameLength(f) : k <= Len(st) => st[k] = EncodeToBytes(f)[k]
  <2>1. Len(st) > 0
    BY <1>3, <1>4
  <2> QED
    BY <1>3, <1>5, <1>6, <2>1, NextFrame
<1> HIDE DEF f
<1>8. /\ FrameLength(f) \in Nat /\ Len(f.body) \in Nat
      /\ FrameLength(f) = 2 + Len(f.body) /\ FrameLength(f) >= 2
  BY <1>7, FrameLengthNat
<1>9. buf[2].value = Len(f.body)
  <2>1. 2 \in 1 .. FrameLength(f) /\ 2 <= Len(st) /\ 2 \in 1 .. Len(buf)
    BY <1>3, <1>4, <1>8
  <2>2. buf[2] = EncodeToBytes(f)[2]
    BY <1>3, <1>7, <2>1
  <2>3. EncodeToBytes(f)[2] = [kind |-> "length", value |-> Len(f.body)]
    BY <1>7, EncodedShape DEF Sendable
  <2> QED
    BY <2>2, <2>3
<1>10. Len(buf) = FrameLength(f)
  BY <1>2, <1>8, <1>9 DEF HeaderLength
<1>11. \A k \in 1 .. FrameLength(f) : buf[k] = EncodeToBytes(f)[k]
  BY <1>3, <1>7, <1>8, <1>10
<1>12. m = f
  <2>1. FrameLength(f) <= Len(buf)
    BY <1>8, <1>10
  <2>2. Msg(buf[1].value, SubSeq(buf, 1 + HeaderLength, FrameLength(f))) = f
    BY <1>3, <1>7, <1>11, <2>1, FrameDecoded
  <2> QED
    BY <1>10, <2>2 DEF m
<1>13. /\ decoded' \in Seq(Sendable) /\ Len(decoded') = n + 1 /\ decoded'[n + 1] = f
       /\ \A i \in 1 .. n : decoded'[i] = decoded[i]
  BY <1>2, <1>3, <1>7, <1>12, AppendProperties DEF n
<1>14. InFrames(off, sent, n + 1, wire) /\ off[n + 2] = off[n + 1] + Len(buf)
  BY <1>3, <1>6, <1>7, <1>10, FrameTaken, SMTT(30) DEF f, st
<1>15. buf' \o wire' = wire
  BY <1>2, <1>3, ConcatEmptySeq
<1>16. off[n + 1] \in Nat
  <2>1. n + 1 \in 1 .. Len(sent) + 1
    BY <1>3
  <2> QED
    BY <1>6, <2>1 DEF Placed
<1>17. off[Len(decoded') + 1] + Len(buf' \o wire') = off[n + 1] + Len(st)
  <2>1. n + 1 + 1 = n + 2
    BY <1>3
  <2> QED
    BY <1>3, <1>13, <1>14, <1>15, <1>16, <2>1
<1>18. Layout(off)'
  <2>1. Unwritten(off)'
    BY <1>1, <1>2, <1>17 DEF Layout, Unwritten, n, st
  <2>2. InFrames(off, sent', Len(decoded'), buf' \o wire')
    BY <1>2, <1>13, <1>14, <1>15
  <2> QED
    BY <1>2, <1>6, <2>1, <2>2 DEF Layout
<1>19. DecodedFirst'
  <2>1. n + 1 <= Len(sent)
    BY <1>3, <1>7
  <2>2. ASSUME NEW i \in 1 .. n + 1 PROVE decoded'[i] = sent[i]
    <3>1. CASE i = n + 1
      BY <1>13, <3>1 DEF f
    <3>2. CASE i # n + 1
      <4>1. i \in 1 .. n
        BY <1>3, <3>2
      <4> QED
        BY <1>13, <4>1 DEF StreamInv, DecodedFirst, n
    <3> QED
      BY <3>1, <3>2
  <2> QED
    BY <1>2, <1>13, <2>1, <2>2 DEF DecodedFirst
<1>20. TypeInv'
  BY <1>2, <1>3, <1>13, EmptySeq DEF StreamInv, TypeInv
<1>21. Bounds'
  <2>1. ~HeaderRead'
    BY <1>2, EmptySeq DEF HeaderRead, HeaderLength
  <2> QED
    BY <1>2, <2>1 DEF StreamInv, Bounds
<1> QED
  BY <1>18, <1>19, <1>20, <1>21 DEF StreamInv

LEMMA RestInv ==
    ASSUME StreamInv, DecodeFails \/ UNCHANGED vars
    PROVE  StreamInv'
<1>1. PICK off : Layout(off)
  BY DEF StreamInv
<1>2. /\ writing' = writing /\ usable' = usable /\ wire' = wire /\ cut' = cut /\ buf' = buf
      /\ sent' = sent /\ decoded' = decoded
  BY DEF DecodeFails, vars
<1>3. Layout(off)'
  BY <1>1, <1>2 DEF Layout, Unwritten
<1>4. TypeInv' /\ DecodedFirst' /\ Bounds'
  BY <1>2 DEF StreamInv, TypeInv, DecodedFirst, Bounds, HeaderRead, HeaderValid
<1> QED
  BY <1>3, <1>4 DEF StreamInv

LEMMA StreamNext == StreamInv /\ [Next]_vars => StreamInv'
<1> SUFFICES ASSUME StreamInv, [Next]_vars PROVE StreamInv'
  OBVIOUS
<1>1. ASSUME NEW s \in Sender, NEW m \in Messages, Start(s, m) PROVE StreamInv'
  BY <1>1, StartInv
<1>2. ASSUME NEW s \in Sender, WritePart(s) PROVE StreamInv'
  BY <1>2, WritePartInv
<1>3. ASSUME NEW s \in Sender, Done(s) PROVE StreamInv'
  BY <1>3, DoneInv
<1>4. ASSUME NEW s \in Sender, WriteFails(s) PROVE StreamInv'
  BY <1>4, WriteFailsInv
<1>5. CASE Ends
  BY <1>5, EndsInv
<1>6. CASE Arrives
  BY <1>6, ArrivesInv
<1>7. CASE Decode
  BY <1>7, DecodeInv
<1>8. CASE DecodeFails \/ UNCHANGED vars
  BY <1>8, RestInv
<1> QED
  BY <1>1, <1>2, <1>3, <1>4, <1>5, <1>6, <1>7, <1>8 DEF Next

-----------------------------------------------------------------------------
(* What follows from it.                                                   *)

LEMMA DecodedIsSentHolds == StreamInv => DecodedIsSent
<1> SUFFICES ASSUME StreamInv PROVE DecodedIsSent
  OBVIOUS
<1> DEFINE n == Len(decoded)
<1>1. /\ sent \in Seq(Sendable) /\ decoded \in Seq(Sendable)
      /\ Len(sent) \in Nat /\ n \in Nat /\ n <= Len(sent)
      /\ \A i \in 1 .. n : decoded[i] = sent[i]
  BY InvShape DEF StreamInv, DecodedFirst
<1>2. IsPrefix(decoded, sent)
  <2>1. \A i \in 1 .. n : decoded[i] \in Sendable /\ sent[i] \in Sendable
    BY <1>1, ElementOfSeq
  <2> HIDE DEF n
  <2>2. /\ SubSeq(decoded, 1, n) \in Seq(Sendable) /\ Len(SubSeq(decoded, 1, n)) = n
        /\ \A i \in 1 .. n : SubSeq(decoded, 1, n)[i] = decoded[1 + i - 1]
    BY <1>1, <2>1, SubSeqProperties, 1 \in Int, n \in Int
  <2>3. /\ SubSeq(sent, 1, n) \in Seq(Sendable) /\ Len(SubSeq(sent, 1, n)) = n
        /\ \A i \in 1 .. n : SubSeq(sent, 1, n)[i] = sent[1 + i - 1]
    BY <1>1, <2>1, SubSeqProperties, 1 \in Int, n \in Int
  <2>4. ASSUME NEW i \in 1 .. n PROVE SubSeq(decoded, 1, n)[i] = SubSeq(sent, 1, n)[i]
    BY <1>1, <2>2, <2>3
  <2>5. SubSeq(decoded, 1, n) = SubSeq(sent, 1, n)
    BY <1>1, <2>2, <2>3, <2>4, SeqEqual
  <2> QED
    BY <1>1, <2>5 DEF IsPrefix, n
<1>3. ASSUME NEW m \in ToSet(decoded) PROVE m \in Messages
  <2>1. PICK i \in 1 .. n : m = decoded[i]
    BY <1>1, <1>3, LenProperties DEF ToSet
  <2> QED
    BY <1>1, <2>1, ElementOfSeq DEF Sendable
<1>4. \A i \in Id, b \in Bytes :
        NewDataMessageWithConnectionID(i, b) \in ToSet(decoded)
        => handleMessage(NewDataMessageWithConnectionID(i, b)) = <<i, b>>
  BY <1>3, MessageUnderstood
<1>5. \A i \in Id :
        NewCloseConnectionMessage(i) \in ToSet(decoded)
        => handleMessage(NewCloseConnectionMessage(i)) = <<i, <<>>>>
  BY <1>3, MessageUnderstood
<1>6. \A m \in ToSet(decoded) : m.type \in FromServer => handleMessage(m) = <<m.body[1].value>>
  BY <1>3, MessageUnderstood
<1> QED
  BY <1>2, <1>4, <1>5, <1>6 DEF DecodedIsSent

LEMMA CodecsAgreeHolds == StreamInv => CodecsAgree
<1> SUFFICES ASSUME StreamInv PROVE CodecsAgree
  OBVIOUS
<1>1. ASSUME NEW m \in ToSet(sent) PROVE m \in Sendable
  <2>1. sent \in Seq(Sendable)
    BY InvShape
  <2>2. PICK i \in 1 .. Len(sent) : m = sent[i]
    BY <1>1, <2>1, LenProperties DEF ToSet
  <2> QED
    BY <2>1, <2>2, ElementOfSeq
<1>2. ASSUME NEW m \in ToSet(sent)
      PROVE  DecodeFromBytes(EncodeToBytes(m) \o wire) = <<m, Len(EncodeToBytes(m))>>
  BY <1>1, InvShape, SliceDecoded
<1>3. ASSUME NEW m \in ToSet(sent), NEW n \in 0 .. Len(EncodeToBytes(m)) - 1
      PROVE  DecodeFromBytes(SubSeq(EncodeToBytes(m), 1, n)) = <<>>
  BY <1>1, SliceTooShort
<1>4. ASSUME DecodeFromBytes(buf) # <<>> PROVE DecodeFromBytes(buf)[2] = Len(buf)
  <2> DEFINE totalLen == HeaderLength + buf[2].value
             m == Msg(buf[1].value, SubSeq(buf, 1 + HeaderLength, totalLen))
  <2>1. /\ ~(Len(buf) < HeaderLength) /\ HeaderValid(buf) /\ ~(Len(buf) < totalLen)
        /\ DecodeFromBytes(buf) = <<m, totalLen>>
    BY <1>4 DEF DecodeFromBytes
  <2>2. Len(buf) \in Nat /\ buf[2].value \in Int
    BY <2>1, InvShape, FramingAssumption DEF HeaderValid
  <2>3. Len(buf) <= totalLen
    BY <2>1, <2>2 DEF StreamInv, Bounds, HeaderRead, HeaderLength
  <2>4. totalLen = Len(buf)
    BY <2>1, <2>2, <2>3 DEF HeaderLength
  <2> HIDE DEF m, totalLen
  <2> QED
    BY <2>1, <2>4
<1> QED
  BY <1>2, <1>3, <1>4 DEF CodecsAgree

\* A header in hand is that of the next message.
LEMMA HeaderInHand ==
    ASSUME StreamInv, HeaderRead
    PROVE  LET f == sent[Len(decoded) + 1] IN
           /\ Len(decoded) < Len(sent) /\ f \in Sendable
           /\ HeaderValid(buf) /\ buf[2].value = Len(f.body)
<1>1. PICK off : Layout(off)
  BY DEF StreamInv
<1> DEFINE n == Len(decoded)
           f == sent[n + 1]
           st == buf \o wire
<1>2. /\ buf \in Seq(AnyUnit) /\ wire \in Seq(AnyUnit) /\ st \in Seq(AnyUnit)
      /\ Len(buf) \in Nat /\ Len(wire) \in Nat /\ Len(st) = Len(buf) + Len(wire)
      /\ \A k \in 1 .. Len(buf) : st[k] = buf[k]
      /\ sent \in Seq(Sendable) /\ n \in 0 .. Len(sent)
  BY InvShape, Joined
<1>3. Len(buf) >= 2
  BY DEF HeaderRead, HeaderLength
<1>4. /\ off[n + 1] + Len(st) <= off[Len(sent) + 1]
      /\ Placed(off, sent) /\ InFrames(off, sent, n, st)
  BY <1>1 DEF Layout, Unwritten
<1> HIDE DEF n, st
<1>5. /\ n < Len(sent) /\ f \in Sendable
      /\ \A k \in 1 .. FrameLength(f) : k <= Len(st) => st[k] = EncodeToBytes(f)[k]
  <2>1. Len(st) > 0
    BY <1>2, <1>3
  <2> QED
    BY <1>2, <1>4, <2>1, NextFrame
<1> HIDE DEF f
<1>6. FrameLength(f) \in Nat /\ FrameLength(f) >= 2
  BY <1>5, FrameLengthNat DEF FrameLength, HeaderLength
<1>7. buf[1] = EncodeToBytes(f)[1] /\ buf[2] = EncodeToBytes(f)[2]
  <2>1. /\ 1 \in 1 .. FrameLength(f) /\ 1 <= Len(st) /\ 1 \in 1 .. Len(buf)
        /\ 2 \in 1 .. FrameLength(f) /\ 2 <= Len(st) /\ 2 \in 1 .. Len(buf)
    BY <1>2, <1>3, <1>6
  <2>2. st[1] = EncodeToBytes(f)[1] /\ st[2] = EncodeToBytes(f)[2]
    BY <1>5, <2>1
  <2>3. st[1] = buf[1] /\ st[2] = buf[2]
    BY <1>2, <2>1
  <2> QED
    BY <2>2, <2>3
<1>8. /\ EncodeToBytes(f)[1] = [kind |-> "magic", value |-> f.type]
      /\ EncodeToBytes(f)[2] = [kind |-> "length", value |-> Len(f.body)]
      /\ Len(f.body) \in Nat /\ Len(f.body) <= MaxBodyLength
  <2>1. f \in Messages /\ f.length <= MaxBodyLength
    BY <1>5 DEF Sendable
  <2>2. f.length = Len(f.body)
    BY <2>1, MessageShape
  <2> QED
    BY <2>1, <2>2, EncodedShape
<1>9. buf[1].kind = "magic" /\ buf[2].kind = "length" /\ buf[2].value = Len(f.body)
  BY <1>7, <1>8
<1>10. HeaderValid(buf)
  BY <1>8, <1>9, FramingAssumption DEF HeaderValid
<1> QED
  BY <1>5, <1>9, <1>10 DEF f, n

LEMMA ReadToTheEndHolds == StreamInv => ReadToTheEnd
<1> SUFFICES ASSUME StreamInv, cut, wire = <<>>, ~Complete
             PROVE  \/ decoded = sent /\ buf = <<>>
                    \/ /\ Len(sent) = Len(decoded) + 1
                       /\ Len(buf) < Len(EncodeToBytes(sent[Len(sent)]))
  BY DEF ReadToTheEnd
<1>1. PICK off : Layout(off)
  BY DEF StreamInv
<1> DEFINE n == Len(decoded)
           l == Len(sent)
<1>2. /\ sent \in Seq(Sendable) /\ decoded \in Seq(Sendable) /\ buf \in Seq(AnyUnit)
      /\ l \in Nat /\ n \in Nat /\ n <= l /\ Len(buf) \in Nat /\ Len(buf \o wire) = Len(buf)
  BY InvShape, EmptySeq
<1>3. /\ off \in [1 .. l + 1 -> Nat]
      /\ \A i \in 1 .. l : off[i + 1] = off[i] + FrameLength(sent[i])
      /\ \A i, j \in 1 .. l + 1 : i <= j => off[i] <= off[j]
  BY <1>1 DEF Layout, Placed
<1>4. /\ off[n + 1] + Len(buf) <= off[l + 1]
      /\ \/ off[n + 1] + Len(buf) = off[l + 1]
         \/ l > 0 /\ off[l] <= off[n + 1] + Len(buf)
  <2>1. writing = Nobody
    BY DEF StreamInv, Bounds
  <2> QED
    BY <1>1, <1>2, <2>1 DEF Layout, Unwritten
<1>5. CASE n = l
  <2>1. off[l + 1] \in Nat
    BY <1>2, <1>3
  <2>2. Len(buf) = 0
    BY <1>2, <1>4, <1>5, <2>1
  <2>3. buf = <<>>
    BY <1>2, <2>2, EmptySeq
  <2>4. \A i \in 1 .. n : decoded[i] = sent[i]
    BY DEF StreamInv, DecodedFirst
  <2>5. decoded = sent
    BY <1>2, <1>5, <2>4, SeqEqual
  <2> QED
    BY <2>3, <2>5
<1>6. CASE n # l
  <2> DEFINE f == sent[n + 1]
  <2>1. n + 1 \in 1 .. l /\ n + 1 \in 1 .. l + 1 /\ n < l
    BY <1>2, <1>6
  <2>2. f \in Sendable
    BY <1>2, <2>1, ElementOfSeq
  <2>3. FrameLength(f) \in Nat /\ Len(f.body) \in Nat /\ FrameLength(f) = 2 + Len(f.body)
    BY <2>2, FrameLengthNat DEF FrameLength, HeaderLength
  <2>4. Len(EncodeToBytes(f)) = FrameLength(f)
    BY <2>2, EncodedShape DEF Sendable
  <2> HIDE DEF f
  \* Otherwise the frame would be complete.
  <2>5. Len(buf) < FrameLength(f)
    <3>1. ASSUME Len(buf) >= FrameLength(f) PROVE FALSE
      <4>1. HeaderRead
        BY <1>2, <2>3, <3>1 DEF HeaderRead, HeaderLength
      <4>2. HeaderValid(buf) /\ buf[2].value = Len(f.body)
        BY <4>1, HeaderInHand DEF f
      <4>3. Len(buf) <= HeaderLength + buf[2].value
        BY <4>1, <4>2 DEF StreamInv, Bounds
      <4>4. Len(buf) = HeaderLength + buf[2].value
        BY <1>2, <2>3, <3>1, <4>2, <4>3 DEF HeaderLength
      <4> QED
        BY <4>1, <4>2, <4>4 DEF Complete
    <3> QED
      BY <1>2, <2>3, <3>1
  \* Otherwise more than it would have been written.
  <2>6. n + 1 = l
    <3>1. ASSUME n + 1 < l PROVE FALSE
      <4>1. /\ n + 2 \in 1 .. l + 1 /\ l \in 1 .. l + 1 /\ l + 1 \in 1 .. l + 1
            /\ n + 2 <= l /\ n + 2 <= l + 1 /\ n + 1 + 1 = n + 2
        BY <1>2, <3>1
      <4>2. /\ off[n + 2] <= off[l] /\ off[n + 2] <= off[l + 1]
            /\ off[n + 2] = off[n + 1] + FrameLength(f)
        BY <1>3, <2>1, <4>1 DEF f
      <4>3. /\ off[n + 1] \in Nat /\ off[n + 2] \in Nat /\ off[l] \in Nat
            /\ off[l + 1] \in Nat
        BY <1>3, <2>1, <4>1
      <4> HIDE DEF n, l
      <4>4. PICK a \in Nat, b \in Nat, c \in Nat, d \in Nat :
               a = off[n + 1] /\ b = off[n + 2] /\ c = off[l] /\ d = off[l + 1]
        BY <4>3
      <4>5. /\ b <= c /\ b <= d /\ b = a + FrameLength(f)
            /\ a + Len(buf) = d \/ c <= a + Len(buf)
        BY <1>4, <4>2, <4>4
      <4> QED
        BY <1>2, <2>3, <2>5, <4>5
    <3> QED
      BY <1>2, <2>1, <3>1
  <2> QED
    BY <2>4, <2>5, <2>6 DEF f
<1> QED
  BY <1>5, <1>6

\* The invariant on which this rests: all there is of the stream lies where the
\* messages not yet decoded were put.
THEOREM StreamInvariant == Spec => []StreamInv
<1>1. Init => StreamInv
  BY StreamInit
<1>2. StreamInv /\ [Next]_vars => StreamInv'
  BY StreamNext
<1> QED
  BY <1>1, <1>2, PTL DEF Spec

\* Whatever the senders, the ids, the payloads and the limits: the messages
\* decoded are the first of those sent, in the order in which their encoding was
\* begun; packets and objects are understood as they were made; the two codecs
\* agree; no header is refused; and at the end of the stream at most the message
\* that was being written then is missing (encoder.go, decoder.go, sendRawFor,
\* message.go).
THEOREM StreamReadAsWritten == Spec => []StreamIntact
<1>1. StreamInv => StreamIntact
  BY DecodedIsSentHolds, CodecsAgreeHolds, HeaderInHand, ReadToTheEndHolds
     DEF StreamIntact, HeadersRecognized
<1> QED
  BY <1>1, StreamInvariant, PTL

=============================================================================

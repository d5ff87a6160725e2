------------------------------ MODULE Framing ------------------------------
(***************************************************************************)
(* protocol/ of the client and sendRawFor of connection.go: messages are   *)
(* made, encoded on the control connection by several goroutines in turn,  *)
(* and decoded at its other end.                                           *)
(*                                                                         *)
(* A unit of the stream stands for the bytes of one field: the first unit  *)
(* of a header holds magic, version and type, the second the body length,  *)
(* the unit at the head of a DATA body the two-byte length of the id, and  *)
(* a JSON object is one unit.  Other units are bytes.                      *)
(***************************************************************************)
EXTENDS Integers, Sequences, SequencesExt

CONSTANTS
    Sender,          \* goroutines that send
    Id, Bytes,       \* connection ids and payloads: sequences of bytes
    MaxBodyLength,   \* 10 MB in the code
    IdLimit,         \* what the id length wraps around at: 2^16 in the code
    MaxSent          \* bound: messages sent

Unit(kind, value) == [kind |-> kind, value |-> value]

\* One unit of an id or of a payload.
OneByte == [kind : {"byte"}, value : Nat]

ASSUME ContentAssumption == Id \subseteq Seq(OneByte) /\ Bytes \subseteq Seq(OneByte)
ASSUME IdAssumption == \A i \in Id : Len(i) < IdLimit
ASSUME FramingAssumption == MaxBodyLength \in Nat \ {0} /\ IdLimit \in Nat \ {0} /\ MaxSent \in Nat

VARIABLES
    writing,     \* writeMu and the frame its holder still has to write
    usable,      \* the connection is current and has not failed
    wire,        \* units written and not yet read
    cut,         \* the connection has ended: nothing follows what is on the wire
    buf,         \* what the decoder has read of the next frame
    failed,      \* Decode has returned an error
    sent,        \* messages whose encoding was begun, in this order
    decoded      \* messages Decode has returned

vars == <<writing, usable, wire, cut, buf, failed, sent, decoded>>

-----------------------------------------------------------------------------
(* Messages.                                                               *)

HeaderLength == 2

Type == [Register |-> 1, Heartbeat |-> 2, Data |-> 3, Error |-> 4, RegisterAck |-> 5,
         HeartbeatAck |-> 6, CloseConnection |-> 7, WebRTCOffer |-> 8, WebRTCAnswer |-> 9,
         WebRTCICECandidate |-> 10, WebRTCICEComplete |-> 11, WebRTCEstablished |-> 12,
         WebRTCFailed |-> 13, DeviceQuery |-> 14, DeviceQueryAck |-> 15]

\* A message has the length of its body in its header.
Msg(type, body) == [type |-> type, length |-> Len(body), body |-> body]

\* What json.Marshal makes of the fields of one kind of message.
Object(kind) == <<Unit("json", kind)>>

NewRegisterMessage == Msg(Type.Register, Object("registration"))

NewHeartbeatMessage == Msg(Type.Heartbeat, Object("timestamp"))

NewDeviceQueryMessage == Msg(Type.DeviceQuery, Object("device code"))

NewWebRTCOfferMessage == Msg(Type.WebRTCOffer, Object("description"))

NewWebRTCAnswerMessage == Msg(Type.WebRTCAnswer, Object("description"))

NewWebRTCICECandidateMessage == Msg(Type.WebRTCICECandidate, Object("candidate"))

NewWebRTCICECompleteMessage == Msg(Type.WebRTCICEComplete, Object("connection"))

NewWebRTCEstablishedMessage == Msg(Type.WebRTCEstablished, Object("connection"))

NewWebRTCFailedMessage == Msg(Type.WebRTCFailed, Object("connection"))

NewDataMessage(data) == Msg(Type.Data, data)

\* The id is preceded by its length, of which two bytes are kept.
Packet(id, data) == <<Unit("byte", Len(id) % IdLimit)>> \o id \o data

NewDataMessageWithConnectionID(id, data) == Msg(Type.Data, Packet(id, data))

NewCloseConnectionMessage(id) == Msg(Type.CloseConnection, Packet(id, <<>>))

\* A packet is cut where its length says; one that is too short is an error.
ParseDataPacket(body) ==
    IF body = <<>> \/ 1 + body[1].value > Len(body)
    THEN <<>>
    ELSE <<SubSeq(body, 2, 1 + body[1].value), SubSeq(body, 2 + body[1].value, Len(body))>>

\* json.Unmarshal refuses what is no object, and finds the fields of a structure
\* only in an object made from it.
Unmarshal(body, kind) ==
    IF Len(body) # 1 \/ body[1].kind # "json" THEN <<>>
    ELSE IF body[1].value = kind THEN <<kind>> ELSE <<"empty fields">>

\* What the client makes of a message: a packet, the fields of an object, or
\* <<>> for one it reports as an error.
handleData(m) == ParseDataPacket(m.body)

handleError(m) == Unmarshal(m.body, "error")

handleDeviceQueryAck(m) == Unmarshal(m.body, "device")

handleMessage(m) ==
    CASE m.type = Type.RegisterAck -> Unmarshal(m.body, "result")
      [] m.type = Type.HeartbeatAck -> <<"pending heartbeat">>
      [] m.type = Type.CloseConnection -> ParseDataPacket(m.body)
      [] m.type = Type.Data -> handleData(m)
      [] m.type = Type.Error -> handleError(m)
      [] m.type = Type.WebRTCAnswer -> Unmarshal(m.body, "description")
      [] m.type = Type.WebRTCICECandidate -> Unmarshal(m.body, "candidate")
      [] m.type \in {Type.WebRTCICEComplete, Type.WebRTCEstablished, Type.WebRTCFailed} ->
             Unmarshal(m.body, "connection")
      [] m.type = Type.DeviceQueryAck -> handleDeviceQueryAck(m)
      [] OTHER -> <<>>

\* The server answers with objects of its own (its handlers are Java).
ServerAnswers ==
    {Msg(Type.RegisterAck, Object("result")), Msg(Type.Error, Object("error")),
     Msg(Type.DeviceQueryAck, Object("device"))}

Messages ==
    ServerAnswers \cup
    {NewRegisterMessage, NewHeartbeatMessage, NewDeviceQueryMessage, NewWebRTCOfferMessage,
     NewWebRTCAnswerMessage, NewWebRTCICECandidateMessage, NewWebRTCICECompleteMessage,
     NewWebRTCEstablishedMessage, NewWebRTCFailedMessage}
        \cup {NewCloseConnectionMessage(i) : i \in Id}
        \cup {NewDataMessage(b) : b \in Bytes}
        \cup {NewDataMessageWithConnectionID(i, b) : i \in Id, b \in Bytes}

-----------------------------------------------------------------------------
(* Sending.                                                                *)

Nobody == [by |-> "nobody", left |-> <<>>]

Header(m) == <<Unit("magic", m.type), Unit("length", m.length)>>

EncodeToBytes(m) == Header(m) \o m.body

\* sendRawFor takes writeMu and looks at the connection; Encode refuses a body
\* that is too long, and that too fails the connection.
FaultyStart(s, m) ==
    /\ usable /\ Len(sent) < MaxSent
    /\ sent' = Append(sent, m)
    /\ writing' = [by |-> s, left |-> <<Header(m), m.body>>]
    /\ UNCHANGED <<usable, wire, cut, buf, failed, decoded>>
Start(s, m) ==
    /\ usable /\ writing = Nobody /\ Len(sent) < MaxSent
    /\ IF m.length > MaxBodyLength
       THEN usable' = FALSE /\ UNCHANGED <<writing, sent>>
       ELSE /\ sent' = Append(sent, m)
            /\ writing' = [by |-> s, left |-> <<Header(m), m.body>>]
            /\ UNCHANGED usable
    /\ UNCHANGED <<wire, cut, buf, failed, decoded>>

\* Header and body are written one after the other; an empty body is not.
WritePart(s) ==
    /\ writing.by = s /\ writing.left # <<>>
    /\ wire' = wire \o Head(writing.left)
    /\ writing' = [writing EXCEPT !.left = Tail(@)]
    /\ UNCHANGED <<usable, cut, buf, failed, sent, decoded>>

Done(s) ==
    /\ writing.by = s /\ writing.left = <<>>
    /\ writing' = Nobody
    /\ UNCHANGED <<usable, wire, cut, buf, failed, sent, decoded>>

\* A write fails after any part of it: the connection is failed before writeMu
\* is released, and nobody writes on it any more.
WriteFails(s) ==
    /\ writing.by = s /\ writing.left # <<>>
    /\ \E n \in 0 .. Len(Head(writing.left)) - 1 : wire' = wire \o SubSeq(Head(writing.left), 1, n)
    /\ usable' = FALSE /\ cut' = TRUE /\ writing' = Nobody
    /\ UNCHANGED <<buf, failed, sent, decoded>>

\* The connection is closed while nobody writes.
Ends ==
    /\ ~cut /\ writing = Nobody
    /\ cut' = TRUE /\ usable' = FALSE
    /\ UNCHANGED <<writing, wire, buf, failed, sent, decoded>>

-----------------------------------------------------------------------------
(* Decoding.                                                               *)

HeaderValid(data) ==
    /\ data[1].kind = "magic" /\ data[2].kind = "length"
    /\ data[2].value \in 0 .. MaxBodyLength

HeaderRead == Len(buf) >= HeaderLength

\* Decode reads a full header and then a full body, from what the network hands
\* over in pieces of any size.
Arrives ==
    /\ ~failed /\ wire # <<>>
    /\ HeaderRead => HeaderValid(buf) /\ Len(buf) < HeaderLength + buf[2].value
    /\ buf' = Append(buf, Head(wire)) /\ wire' = Tail(wire)
    /\ UNCHANGED <<writing, usable, cut, failed, sent, decoded>>

\* The header passed the checks and the body is complete.
Complete ==
    /\ HeaderRead /\ HeaderValid(buf)
    /\ Len(buf) = HeaderLength + buf[2].value

Decode ==
    /\ ~failed /\ Complete
    /\ decoded' = Append(decoded, Msg(buf[1].value, SubSeq(buf, 1 + HeaderLength, Len(buf))))
    /\ buf' = <<>>
    /\ UNCHANGED <<writing, usable, wire, cut, failed, sent>>

\* The message at the head of a byte slice and the length of its frame.
DecodeFromBytes(data) ==
    IF Len(data) < HeaderLength \/ ~HeaderValid(data) \/ Len(data) < HeaderLength + data[2].value
    THEN <<>>
    ELSE LET totalLen == HeaderLength + data[2].value IN
         <<Msg(data[1].value, SubSeq(data, 1 + HeaderLength, totalLen)), totalLen>>

\* A bad header ends the stream, and so does its end, in whatever part of a
\* frame it falls.
DecodeFails ==
    /\ ~failed /\ ~Complete
    /\ \/ HeaderRead /\ ~HeaderValid(buf)
       \/ cut /\ wire = <<>>
    /\ failed' = TRUE
    /\ UNCHANGED <<writing, usable, wire, cut, buf, sent, decoded>>

-----------------------------------------------------------------------------
Init ==
    /\ writing = Nobody /\ usable = TRUE
    /\ wire = <<>> /\ cut = FALSE /\ buf = <<>> /\ failed = FALSE
    /\ sent = <<>> /\ decoded = <<>>

Next ==
    \/ \E s \in Sender :
        \/ \E m \in Messages : Start(s, m)
        \/ WritePart(s) \/ Done(s) \/ WriteFails(s)
    \/ Ends \/ Arrives \/ Decode \/ DecodeFails

Spec == Init /\ [][Next]_vars

-----------------------------------------------------------------------------
(* Properties.                                                             *)

\* The objects a client is sent.
FromServer ==
    {Type.RegisterAck, Type.Error, Type.WebRTCAnswer, Type.WebRTCICECandidate,
     Type.WebRTCICEComplete, Type.WebRTCEstablished, Type.WebRTCFailed, Type.DeviceQueryAck}

\* What is decoded is what was sent, message by message, in the order in which
\* the senders got writeMu, however their writes, the reads and the end of the
\* connection cut the stream; each packet comes apart where it was put together,
\* and each object is taken for the structure it was made from (encoder.go,
\* decoder.go, sendRawFor, message.go, handleMessage).
DecodedIsSent ==
    /\ IsPrefix(decoded, sent)
    /\ \A i \in Id, b \in Bytes :
        LET m == NewDataMessageWithConnectionID(i, b) IN
        m \in ToSet(decoded) => handleMessage(m) = <<i, b>>
    /\ \A i \in Id :
        LET m == NewCloseConnectionMessage(i) IN
        m \in ToSet(decoded) => handleMessage(m) = <<i, <<>>>>
    /\ \A m \in ToSet(decoded) : m.type \in FromServer => handleMessage(m) = <<m.body[1].value>>

\* The two codecs agree: a byte slice that starts with an encoded message gives
\* that message whatever follows it, one that ends early gives none, and the
\* stream decoder is done with a frame when DecodeFromBytes would be.
CodecsAgree ==
    /\ \A m \in ToSet(sent) :
        LET bytes == EncodeToBytes(m) IN
        /\ DecodeFromBytes(bytes \o wire) = <<m, Len(bytes)>>
        /\ \A n \in 0 .. Len(bytes) - 1 : DecodeFromBytes(SubSeq(bytes, 1, n)) = <<>>
    /\ DecodeFromBytes(buf) # <<>> => DecodeFromBytes(buf)[2] = Len(buf)

\* However the stream is cut up, Decode never takes a part of a body for a
\* header.
HeadersRecognized == HeaderRead => HeaderValid(buf)

\* Nothing that was wholly written stays behind: when the connection has ended
\* and Decode can return no more, at most the message that was being written
\* then is missing, of which the rest never came.
ReadToTheEnd ==
    cut /\ wire = <<>> /\ ~Complete =>
        \/ decoded = sent /\ buf = <<>>
        \/ /\ Len(sent) = Len(decoded) + 1
           /\ Len(buf) < Len(EncodeToBytes(sent[Len(sent)]))

\* The stream is read as it was written, and to its end.
StreamIntact == DecodedIsSent /\ CodecsAgree /\ HeadersRecognized /\ ReadToTheEnd

=============================================================================

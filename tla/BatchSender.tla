---------------------------- MODULE BatchSender ----------------------------
(***************************************************************************)
(* webrtc/pool.go of the client: the pool of buffers and the BatchSender   *)
(* that gathers messages in a buffer of the pool, under its mutex, and     *)
(* hands full buffers to its flush function outside of it.                 *)
(*                                                                         *)
(* Messages are numbered in the order in which they enter the batch.  The  *)
(* flush function is whoever uses this module; Outcome says how it ended.  *)
(***************************************************************************)
EXTENDS Naturals, Sequences, FiniteSets

CONSTANTS
    Caller,          \* goroutines that call Send and Flush
    Buffer,          \* buffers of the pool
    MaxBatchCount,   \* a full batch, in messages (or in bytes)
    MaxMsgs          \* bound: messages sent

ASSUME BufferAssumption == IsFiniteSet(Buffer) /\ Cardinality(Buffer) > Cardinality(Caller)
ASSUME BatchAssumption == MaxBatchCount \in Nat \ {0} /\ MaxMsgs \in Nat

VARIABLES
    content,    \* what each buffer holds
    pool,       \* buffers the pool may hand out, the ones New would make included
    pending,    \* the buffer of the batch in the making
    count,      \* messages in it
    payload,    \* the batches each goroutine is dispatching
    msgsIn,     \* messages accepted
    written, lost   \* batches flushed with and without success

batchVars == <<content, pool, pending, count, payload, msgsIn, written, lost>>

Msg == 1 .. MaxMsgs

\* No buffer: the goroutine is not in dispatch.
NoBatch == {}

BatchTypeOK ==
    /\ content \in [Buffer -> Seq(Msg)]
    /\ pool \subseteq Buffer
    /\ pending \in Buffer
    /\ count \in 0 .. MaxBatchCount
    /\ payload \in [Caller -> SUBSET Buffer]
    /\ msgsIn \in 0 .. MaxMsgs
    /\ written \subseteq Seq(Msg) /\ lost \subseteq Seq(Msg)

\* GetBuffer truncates what it hands out.
GetBuffer(b) == b \in pool

\* The batch bs is taken for dispatch and a buffer b of the pool follows it.
FaultyTake(s, bs) ==
    \E b \in Buffer :
        /\ GetBuffer(b)
        /\ pool' = (pool \ {b}) \cup {pending}
        /\ content' = [content EXCEPT ![pending] = bs, ![b] = <<>>]
        /\ payload' = [payload EXCEPT ![s] = {pending}]
        /\ pending' = b /\ count' = 0
Take(s, bs) ==
    \E b \in Buffer :
        /\ GetBuffer(b)
        /\ pool' = pool \ {b}
        /\ content' = [content EXCEPT ![pending] = bs, ![b] = <<>>]
        /\ payload' = [payload EXCEPT ![s] = {pending}]
        /\ pending' = b /\ count' = 0

\* Send: the batch is flushed when it is full, or when its deadline has passed,
\* which is looked at nowhere else.
Send(s) ==
    LET batch == Append(content[pending], msgsIn + 1) IN
    /\ payload[s] = NoBatch /\ msgsIn < MaxMsgs
    /\ msgsIn' = msgsIn + 1
    /\ \/ Take(s, batch)
       \/ /\ count + 1 < MaxBatchCount
          /\ count' = count + 1
          /\ content' = [content EXCEPT ![pending] = batch]
          /\ UNCHANGED <<pool, pending, payload>>
    /\ UNCHANGED <<written, lost>>

\* Flush, which does nothing while no message is pending.
Flush(s) ==
    /\ payload[s] = NoBatch /\ count > 0
    /\ Take(s, content[pending])
    /\ UNCHANGED <<msgsIn, written, lost>>

\* dispatch: what the buffer holds when flush is called with it is written or
\* lost as a whole, and the buffer goes back to the pool.
Dispatched(s, ok) ==
    \E b \in payload[s] :
        /\ written' = IF ok THEN written \cup {content[b]} ELSE written
        /\ lost' = IF ok THEN lost ELSE lost \cup {content[b]}
        /\ pool' = pool \cup {b}
        /\ payload' = [payload EXCEPT ![s] = NoBatch]
        /\ UNCHANGED <<content, pending, count, msgsIn>>

BatchInit ==
    /\ content = [b \in Buffer |-> <<>>]
    /\ pending \in Buffer /\ pool = Buffer \ {pending}
    /\ count = 0 /\ msgsIn = 0
    /\ payload = [s \in Caller |-> NoBatch]
    /\ written = {} /\ lost = {}

-----------------------------------------------------------------------------
(* Properties.                                                             *)

Members(batch) == {batch[i] : i \in DOMAIN batch}

\* Every message that was accepted is in exactly one place, the batch in the
\* making, one being dispatched, or one that was written or lost, and every
\* batch holds neighbours in the order of their arrival, however sends, flushes
\* and the reuse of buffers overlap (pool.go, Send, Flush, dispatch, PutBuffer).
EachOnce ==
    LET held == {pending} \cup UNION {payload[s] : s \in Caller}
        batches == {content[b] : b \in held} \cup written \cup lost
    IN  /\ UNION {Members(b) : b \in batches} = 1 .. msgsIn
        /\ \A b \in batches : \A i \in DOMAIN b : b[i] = b[1] + i - 1
        /\ \A a, b \in batches : a # b => Members(a) \cap Members(b) = {}
        /\ \A a, b \in held : a # b => content[a] # content[b]
        /\ {content[b] : b \in held} \cap (written \cup lost) = {}
        /\ written \cap lost = {}

=============================================================================

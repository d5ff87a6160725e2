------------------------------ MODULE DataPath ------------------------------
(***************************************************************************)
(* The client's data path to the server: a BatchSender whose flush         *)
(* function is SendData of a manager.  The program makes no BatchSender    *)
(* yet; pool.go names "the DataChannel send path" as the one it is for.    *)
(***************************************************************************)
EXTENDS ManagerState, BatchSender

ASSUME CallersAssumption == Caller = Sender

vars == <<stateVars, batchVars>>

TypeOK == StateTypeOK /\ BatchTypeOK

Init == StateInit /\ BatchInit

\* A goroutine in Send or Flush, and dispatch's call of SendData.
Batch(s) == Send(s) \/ Flush(s)

Begins(s) == payload[s] # NoBatch /\ SendData(s)

Continues(s) == Tests(s) \/ Woken(s) \/ TimesOut(s) \/ Writes(s)

Returns(s) ==
    /\ Dispatched(s, loc[s] = "sent")
    /\ loc[s] \in {"sent", "failed"} /\ loc' = [loc EXCEPT ![s] = "out"]
    /\ UNCHANGED <<buffered, resume>>

Next ==
    \/ StateNext /\ UNCHANGED batchVars
    \/ Drains /\ UNCHANGED batchVars
    \/ \E s \in Sender :
        \/ Batch(s) /\ UNCHANGED stateVars
        \/ (Begins(s) \/ Continues(s)) /\ UNCHANGED <<machine, managerVars, batchVars>>
        \/ Returns(s) /\ UNCHANGED <<machine, managerVars>>

Spec == Init /\ [][Next]_vars

-----------------------------------------------------------------------------
(* Properties.                                                             *)

\* In every state the types hold, a state that speaks of a channel follows its
\* opening, and the buffer stays within a unit per call of the high mark.
ChannelSound == TypeOK /\ ConnectedMeansOpened /\ BufferBounded

=============================================================================

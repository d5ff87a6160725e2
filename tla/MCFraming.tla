----------------------------- MODULE MCFraming -----------------------------
(* Instances of Framing for TLC. *)
EXTENDS Framing

Byte == {Unit("byte", 0), Unit("byte", 1)}

\* Ids up to the longest length that fits, payloads up to one byte too many.
ShortIds == {<<Unit("byte", 1)>>, <<Unit("byte", 0), Unit("byte", 1)>>}
Payloads == {<<>>, <<Unit("byte", 0)>>, <<Unit("byte", 1), Unit("byte", 0)>>}
=============================================================================

------------------------- MODULE MCClientForwarding -------------------------
(* Instances of ClientForwarding for TLC. *)
EXTENDS ClientForwarding, TLC

CONSTANTS a, b

\* Every id is of the first control connection; the second meets what is left.
FirstControl == [id \in Id |-> 1]

\* Ids of the same control connection are alike.
Alike == Permutations({a, b})
=============================================================================

----------------------------- MODULE MCDataPath -----------------------------
(* Instances of DataPath for TLC. *)
EXTENDS DataPath, TLC

CONSTANTS s1, s2

OneManager == {mgr}
\* The goroutines and the buffers are interchangeable.
Symmetry == Permutations(Sender) \cup Permutations(Buffer)
=============================================================================

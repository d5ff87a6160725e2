---------------------------- MODULE MCFixedPorts ----------------------------
(* Instance of FixedPorts for TLC, with the inductive invariant of its proofs. *)
EXTENDS FixedPortsProofs
=============================================================================

---------------------------- MODULE MCSignaling ----------------------------
(* Instances of Signaling for TLC. *)
EXTENDS Signaling

Managers == 1 .. MaxConn
=============================================================================

----------------------------- MODULE MCSidecar -----------------------------
(* Instances of Sidecar for TLC. *)
EXTENDS Sidecar

CONSTANTS c1, c2

Closers == Conn \cup {main}
=============================================================================

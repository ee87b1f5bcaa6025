----------------------------- MODULE MCHandshake -----------------------------
(* Instances of Handshake for TLC: the right key and a wrong one. *)
EXTENDS Handshake

CONSTANTS Right, Wrong

MCPmks == {Right, Wrong}
=============================================================================

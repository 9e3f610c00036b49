----------------------------- MODULE MCPingPong -----------------------------
(* A small instance of PingPong for TLC. *)
EXTENDS PingPong

CONSTANTS c1, c2, v1, v2
=============================================================================

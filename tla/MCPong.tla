------------------------------ MODULE MCPong --------------------------------
(* Pong for TLC: a field of a few positions.                                 *)
EXTENDS Pong
=============================================================================

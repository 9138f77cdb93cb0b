------------------------------- MODULE MCLog -------------------------------
(* Constants of Log for TLC: see the configurations. *)
EXTENDS Log
=============================================================================

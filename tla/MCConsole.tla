----------------------------- MODULE MCConsole ------------------------------
(* Console for TLC.                                                          *)
EXTENDS Console

(* Nothing is stated of what follows a write beyond consoles[]: a state      *)
(* after one is checked, its successors are not.                             *)
UntilOverrun == ~ overrun
=============================================================================

----------------------------- MODULE MCMemList ------------------------------
(* MemList for TLC: regions of a few words instead of 8192, at addresses     *)
(* next to each other, which the region manager may hand out in any order.   *)
EXTENDS MemList

(* Nothing is stated of what follows a flaw: a state with one is checked,    *)
(* its successors are not.                                                   *)
UntilFlawed == Sound
=============================================================================

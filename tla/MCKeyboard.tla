----------------------------- MODULE MCKeyboard -----------------------------
(* Keyboard for TLC.  The nodes are interchangeable: no action or property   *)
(* of the run names one.                                                     *)
EXTENDS Keyboard, TLC

CONSTANTS n1, n2, n3, n4

Nodes == {n1, n2, n3, n4}
NodeSymmetry == Permutations(Nodes)
=============================================================================

-------------------------------- MODULE MCSig -------------------------------
(* Sig for TLC.                                                              *)
EXTENDS Sig
=============================================================================

---------------------------- MODULE MCTabSwitch -----------------------------
(* TabSwitch for TLC.                                                        *)
EXTENDS TabSwitch, TLC
=============================================================================

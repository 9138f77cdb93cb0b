------------------------------ MODULE MCClock -------------------------------
(* Clock for TLC: halves of two bits and seconds of two microseconds.    *)
EXTENDS Clock, TLC

MCClockId == {-1, 0, 1, 2}

MCSymmetry == Permutations(Thread)
=============================================================================

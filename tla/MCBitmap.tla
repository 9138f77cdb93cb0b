------------------------------ MODULE MCBitmap ------------------------------
(* Bitmap for TLC: a few pages, and unsigned numbers of one byte.            *)
EXTENDS Bitmap

=============================================================================

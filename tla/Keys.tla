-------------------------------- MODULE Keys --------------------------------
(* What the keyboard server and its clients share,                           *)
(* rm_keyboard/include/shared.h.                                             *)
EXTENDS Naturals

UP_1   == 0
DOWN_1 == 1
UP_2   == 2
DOWN_2 == 3
TAB    == 4
Key    == {UP_1, DOWN_1, UP_2, DOWN_2, TAB}

Keycode == 0          \* the one protocol label the server understands
Label   == {Keycode, 1}
=============================================================================

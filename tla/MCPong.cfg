\* Two paddles that start in the middle of a short field: two keys run off it,
\* and after three the players let go.
SPECIFICATION FairSpec
CONSTANTS
  P0 = p0  P1 = p1  NoPaddle = none  Unknown = unknown
  Speed = 2  Start = 2  Field = 3
  MaxKeys = 3  MaxReply = 2
INVARIANTS
  TypeOK
  KeysAddUp
PROPERTIES
  PaddleSettles
\* An IPC error ends the task.
CHECK_DEADLOCK FALSE

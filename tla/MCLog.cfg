\* A screen of a line and a half, two messages of up to two words.
SPECIFICATION Spec
CONSTANTS
  Client = {c}
  Char = {a}
  Control = {nl}
  NUL = NUL
  Space = Space
  Width = 4
  Word = 2
  Height = 3
  FontHeight = 2
  MaxWrites = 2
INVARIANTS
  TypeOK
  ShowsAllOfMessage
  ScreenIsHistory

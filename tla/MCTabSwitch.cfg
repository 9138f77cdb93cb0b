\* TAB is the only key the user presses, four scan codes.
SPECIFICATION TabFairSpec
CONSTANTS
  PhysKey = {15}
  Client = {console}
  Console = console
  Node = {n1, n2, n3}
  End = End
  NoKey = NoKey
  FifoSize = 1
  MaxTyped = 4
INVARIANTS
  TogglesMatchTaps
PROPERTIES
  TabNoticed
  Answered
  ReleaseSeen

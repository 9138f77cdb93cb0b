\* TAB and UP_1: a torn reply makes one press switch twice.
SPECIFICATION TabSpec
CONSTANTS
  PhysKey = {15, 31}
  Client = {console}
  Console = console
  Node = {n1, n2, n3}
  End = End
  NoKey = NoKey
  FifoSize = 1
  MaxTyped = 4
INVARIANTS
  HeldTabSwitchesOnce

\* Two clients and one creation too many; the loops may wake up before the
\* second console exists.
SPECIFICATION FairSpec
CONSTANTS
  Client = {log, pong}
  MaxCreations = 3
  EarlyConsoles = 1
  Chunk = {k1, k2}
  MaxToggles = 2
  MaxDraws = 1
CONSTRAINT UntilOverrun
INVARIANTS
  TypeOK
  OwnConsole
  OneActive
  HarmOnlyIfEarly
PROPERTIES
  ActiveIsShown
\* A failed allocation or call ends the task: the system stops.
CHECK_DEADLOCK FALSE

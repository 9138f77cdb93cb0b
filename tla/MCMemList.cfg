\* Two threads; odd and even numbers of words, more than a region, a wrap.
SPECIFICATION FairSpec
CONSTANTS
  Thread = {t, u}
  Base = {2, 18}
  EXT = 12
  Request = {0, 8, 20, 52, 1022}
  UMax = 1024
  MaxLive = 5
CONSTRAINT UntilFlawed
INVARIANTS
  TypeOK
  ListsConsistent
  TilesMemory
  OnlyKnownPointersKill
PROPERTIES
  HeapImplemented
  CallsReturn
\* The task may be killed.
CHECK_DEADLOCK FALSE

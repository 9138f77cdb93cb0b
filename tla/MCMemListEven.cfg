\* One thread; a size of two words.
SPECIFICATION Spec
CONSTANTS
  Thread = {t}
  Base = {2}
  EXT = 22
  Request = {8, 28}
  UMax = 1024
  MaxLive = 4
INVARIANTS
  NoOverlap
\* The task may be killed.
CHECK_DEADLOCK FALSE

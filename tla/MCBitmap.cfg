\* 28 pages; a block of one page, one long enough to come round to bits 0 and 1
\* when it is freed behind a short one, one of a size that wraps to 0.  A killed
\* task stops, hence no check for deadlock.
SPECIFICATION Spec
CHECK_DEADLOCK FALSE
CONSTANTS
  BITS = 28
  UMax = 256
  Request = {0, 93, 253}
  Written = {255}
  MaxLive = 2
INVARIANTS
  TypeOK
  OverlapOnlyAfterWrap

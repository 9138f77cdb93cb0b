\* One client, two tracked keys (UP_1 = 31, TAB = 15), a controller that can
\* overflow, six scan codes.
SPECIFICATION Spec
CONSTANTS
  PhysKey = {15, 31}
  Client = {c1}
  n1 = n1  n2 = n2  n3 = n3  n4 = n4
  Node = {n1, n2, n3, n4}
  End = End
  NoKey = NoKey
  FifoSize = 1
  MaxTyped = 6
SYMMETRY NodeSymmetry
INVARIANTS
  TypeOK
  ListReflectsScans
  FaithfulWhenQuiet
  NoPhantomKey
  NoMissedKey

SPECIFICATION Spec
CONSTANTS
  Cells = {c1, c2, c3, c4}
  NULL = NULL
  LOST = LOST
  Elements = {1}
  MaxData = 2
SYMMETRY AnyCell
INVARIANTS StaysInMemory MemoryAccountedFor
PROPERTY ImplementsList
CHECK_DEADLOCK FALSE

SPECIFICATION Spec
CONSTANTS
  NBuffers = 3
  Procs = {p1, p2}
  NoProc = NoProc
  RingUsers = {}
  RingSize = 1
  Invalidators = {}
  Rereads = FALSE
  MaxPins = 2
  MaxUsage = 1
  p1 = p1
  p2 = p2
INVARIANTS VictimUnpinned NoBufferLost StackIsComplete NoWildAccess
SYMMETRY Backends

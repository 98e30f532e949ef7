SPECIFICATION Spec
CONSTANTS
  NBuffers = 2
  Procs = {p1, p2}
  NoProc = NoProc
  RingUsers = {}
  RingSize = 1
  Invalidators = {}
  Rereads = FALSE
  MaxPins = 1
  MaxUsage = 1
  p1 = p1
  p2 = p2
INVARIANT ErrorOnlyWhenAllPinned

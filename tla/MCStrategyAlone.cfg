SPECIFICATION FairSpec
CONSTANTS
  NBuffers = 3
  Procs = {p1}
  NoProc = NoProc
  RingUsers = {p1}
  RingSize = 1
  Invalidators = {p1}
  Rereads = TRUE
  MaxPins = 3
  MaxUsage = 1
  p1 = p1
INVARIANTS FreelistIsChain ErrorOnlyWhenAllPinned VictimUnpinned LinksFollowRecency
PROPERTIES VictimIsLeastRecentlyUsed ImplementsStack CallsEnd

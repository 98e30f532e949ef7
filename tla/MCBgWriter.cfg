SPECIFICATION BgFairSpec
CONSTANTS
  Callers = {p1, p2, p3}
  MaxAllocs = 4
  p1 = p1
  p2 = p2
  p3 = p3
INVARIANTS WakeupNotLost AllocsConserved
PROPERTY AllocationWakesWriter
CHECK_DEADLOCK FALSE

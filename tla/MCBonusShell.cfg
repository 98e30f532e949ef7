SPECIFICATION Spec
CONSTANTS
  Pids = {p, q}
  NoPid = NoPid
  MaxProcesses = 2
  Codes = {0, 1}
INVARIANTS NoEndIsLost ExitedIsOver QuitReachesAll
CHECK_DEADLOCK FALSE

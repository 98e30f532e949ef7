SPECIFICATION Spec
CONSTANTS
  Pids = {p, q, r}
  NoPid = NoPid
  MaxProcesses = 3
  Codes = {0, 7}
  MayExitAtOnce = {p}  MayComeBack = {p}  MayStop = {q}  MayBeKilled = {q}
  NULL = NULL  JUNK = JUNK
  MaxTokens = 5
INVARIANTS NoEndIsLost ExitedIsOver CodeIsReal QuitReachesAll LinesAreTakenApart
PROPERTY StatusGoesForward
CHECK_DEADLOCK FALSE

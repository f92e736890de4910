\* The upstream never fails; a leader may be cancelled while others wait.
SPECIFICATION Spec
CONSTANTS
  c1 = c1
  c2 = c2
  c3 = c3
  k1 = k1
  k2 = k2
  v1 = v1
  v2 = v2
  down = down
  ctxDone = ctxDone
  None = None
  AbortErr = down
  CtxErr = ctxDone
  Callers <- MCTwoCallers
  Keys <- MCOneKey
  Values <- MCOneValue
  Errors <- MCReliable
  Setters <- MCNoSetters
  TTL = 1
  StaleWindow = 2
  LongTTL = 2
  MaxTime = 2
INVARIANTS LeaderCancelSparesJoiners
\* Each caller calls once and the clock is bounded: a finished model stops.
CHECK_DEADLOCK FALSE

\* Three concurrent calls for one key, an upstream that may fail, no SetWithTTL.
SPECIFICATION Spec
CONSTANTS
  c1 = c1
  c2 = c2
  c3 = c3
  k1 = k1
  k2 = k2
  v1 = v1
  v2 = v2
  down = down
  ctxDone = ctxDone
  None = None
  AbortErr = down
  CtxErr = ctxDone
  Callers <- MCThreeCallers
  Keys <- MCOneKey
  Values <- MCOneValue
  Errors <- MCUnreliable
  Setters <- MCNoSetters
  TTL = 1
  StaleWindow = 2
  LongTTL = 3
  MaxTime = 2
SYMMETRY MCSymmetry
INVARIANTS TypeOK OneFetchPerKey NoOrphanWaiter MonotonicReads
\* Each caller calls once and the clock is bounded: a finished model stops.
CHECK_DEADLOCK FALSE

\* Two callers that may call SetWithTTL, under fair scheduling.
SPECIFICATION FairSpec
CONSTANTS
  c1 = c1
  c2 = c2
  c3 = c3
  k1 = k1
  k2 = k2
  v1 = v1
  v2 = v2
  down = down
  ctxDone = ctxDone
  None = None
  AbortErr = down
  CtxErr = ctxDone
  Callers <- MCTwoCallers
  Keys <- MCOneKey
  Values <- MCOneValue
  Errors <- MCUnreliable
  Setters <- MCTwoCallers
  TTL = 1
  StaleWindow = 2
  LongTTL = 2
  MaxTime = 3
PROPERTIES EveryCallReturns ImplementsReadThrough ImplementsFairReadThrough
\* Each caller calls once and the clock is bounded: a finished model stops.
CHECK_DEADLOCK FALSE

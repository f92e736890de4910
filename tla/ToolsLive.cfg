\* Two calls with unusual inputs under fair scheduling.
SPECIFICATION FairSpec
CONSTANTS
  q1 = q1
  q2 = q2
  None = None
  Requests <- MCRequests
  Stts <- MCStts
  Shared <- MCStts
  Types <- MCTypes
  Inputs <- MCOddInputs
  Impatient <- MCOnlyFirst
  Errors <- MCDeadline
  SearchTTL = 1
  SearchStale = 2
  DetailTTL = 1
  DetailStale = 2
  DayTTL = 9
  MaxTime = 0
PROPERTIES EveryCallAnswered
\* Each request is one call and the clock is bounded: a finished model stops.
CHECK_DEADLOCK FALSE

\* Two calls, an upstream that may fail, answers that expire and are served stale.
SPECIFICATION Spec
CONSTANTS
  q1 = q1
  q2 = q2
  None = None
  Requests <- MCRequests
  Stts <- MCStts
  Shared <- MCStts
  Types <- MCTypes
  Inputs <- MCInputs
  Impatient <- MCRequests
  Errors <- MCForbidden
  SearchTTL = 1
  SearchStale = 2
  DetailTTL = 1
  DetailStale = 2
  DayTTL = 9
  MaxTime = 2
SYMMETRY MCSymmetry
INVARIANTS TypeOK DeliveredIsFinal OldStatusIsFinal LeaderTimesOutAlone KnownNeverDenied
\* Each request is one call and the clock is bounded: a finished model stops.
CHECK_DEADLOCK FALSE

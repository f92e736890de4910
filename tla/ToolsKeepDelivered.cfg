\* Two calls for one shipment, the second of which is cancelled.
SPECIFICATION Spec
CONSTANTS
  q1 = q1
  q2 = q2
  None = None
  Requests <- MCRequests
  Stts <- MCStts
  Shared <- MCNone
  Types <- MCTypes
  Inputs <- MCDetails
  Impatient <- MCRequests
  Errors <- MCDeadline
  SearchTTL = 1
  SearchStale = 2
  DetailTTL = 1
  DetailStale = 2
  DayTTL = 9
  MaxTime = 2
SYMMETRY MCSymmetry
INVARIANTS DeliveredKeptADay
\* Each request is one call and the clock is bounded: a finished model stops.
CHECK_DEADLOCK FALSE

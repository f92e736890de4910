\* Nobody cancels; a fetch may run into its deadline, or be refused with a 4xx.
SPECIFICATION Spec
CONSTANTS
  q1 = q1
  q2 = q2
  None = None
  Requests <- MCRequests
  Stts <- MCStts
  Shared <- MCNone
  Types <- MCTypes
  Inputs <- MCDetails
  Impatient <- MCNone
  Errors <- MCForbidden
  SearchTTL = 1
  SearchStale = 2
  DetailTTL = 1
  DetailStale = 2
  DayTTL = 9
  MaxTime = 0
SYMMETRY MCSymmetry
INVARIANTS CatalogHoldsOnce
\* Each request is one call and the clock is bounded: a finished model stops.
CHECK_DEADLOCK FALSE

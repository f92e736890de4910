\* Two matching requests, the second overtakes the first.
SPECIFICATION Spec
CONSTANTS
  r1 = r1
  r2 = r2
  None = None
  Requests <- MCRequests
  Statuses <- MCTwoStatuses
INVARIANTS FirstMatchAnswers
\* One call of FetchJSON: when it has ended the model stops.
CHECK_DEADLOCK FALSE

\* Two requests that overtake one another, three statuses, fair scheduling.
SPECIFICATION FairSpec
CONSTANTS
  r1 = r1
  r2 = r2
  None = None
  Requests <- MCRequests
  Statuses <- MCStatuses
INVARIANTS TypeOK OwnStatus
PROPERTIES HandedOverKept ImplementsFetcher ImplementsFairFetcher ReadersNeverBlock
\* One call of FetchJSON: when it has ended the model stops.
CHECK_DEADLOCK FALSE

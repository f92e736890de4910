\* The three programs, signals at any moment, fair scheduling.
SPECIFICATION FairSpec
CONSTANTS
  References <- MCReferences
  Refs <- MCRefs
INVARIANTS TypeOK ChromeReaped SignalLeavesNoChrome NothingListensAfterShutdown EveryItemReported
PROPERTIES EndsWhenAsked
\* A process that has ended does nothing any more.
CHECK_DEADLOCK FALSE

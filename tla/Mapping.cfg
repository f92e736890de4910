\* Histories of up to three events in any order, ties included.
SPECIFICATION Spec
CONSTANTS
  None = None
  Bodies <- MCBodies
INVARIANTS TypeOK HistoryInOrder DeliveredAlike CodesAccountedFor
\* One body is mapped once.
CHECK_DEADLOCK FALSE

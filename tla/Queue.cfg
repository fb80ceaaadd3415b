CONSTANTS
  Requests = {r1, r2}
  Capacity = 2
  Limits = {1, 2}
  MaxTime = 2
  ProcessingTimeout = TRUE
  None = none
SPECIFICATION FairSpec
INVARIANTS TypeOK RefusedNeverRan NoOrphanRuns DrainedBeforeReturn
PROPERTIES ImplementsFifo EveryCallEnds ServeEnds
CHECK_DEADLOCK FALSE

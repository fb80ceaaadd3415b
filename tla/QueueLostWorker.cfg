CONSTANTS
  Requests = {r1}
  Capacity = 1
  Limits = {1}
  MaxTime = 1
  ProcessingTimeout = FALSE
  None = none
SPECIFICATION FairSpec
PROPERTY DroppedWorkerIsReported
CHECK_DEADLOCK FALSE

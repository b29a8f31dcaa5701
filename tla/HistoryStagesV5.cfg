SPECIFICATION Spec
CONSTANTS
  Stages <- MCV5
  N = 3
  QueueSize = 1
  BatchSize = 2
  MaxRetries = 2
  MaxFaults = 3
INVARIANT CommittedIsStored
CHECK_DEADLOCK FALSE

SPECIFICATION Spec
CONSTANTS
  Stages <- MCStages
  N = 3
  QueueSize = 1
  BatchSize = 2
  MaxRetries = 2
  MaxFaults = 3
INVARIANTS
  TypeOK
  HistoryIsExplained
CHECK_DEADLOCK FALSE

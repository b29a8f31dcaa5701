SPECIFICATION LiveSpec
CONSTANTS
  w1 = w1
  w2 = w2
  w3 = w3
  Workers <- MCWorkers
  Writer = Writer
  Reader = Reader
  Manager = Manager
  SendBufferSize = 1
  SlowClientDisconnectThreshold = 2
  Modulus = 6
  MaxJobs = 2
INVARIANTS
  TypeOK
  ThresholdIsNotMissed
  PumpsEndTogether
PROPERTIES
  StuckWriteEnds
  ClosedClientIsGone
CHECK_DEADLOCK FALSE

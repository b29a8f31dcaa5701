SPECIFICATION LiveSpec
CONSTANTS
  w1 = w1
  w2 = w2
  w3 = w3
  Callers <- MCCallers
  NoPermit = NoPermit
  FailureThreshold = 2
  OpenTimeout = 2
  MaxGeneration = 3
INVARIANTS
  TypeOK
  ProbeAccounted
PROPERTIES
  ImplementsFailFast
  Recovers

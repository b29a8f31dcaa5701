SPECIFICATION Spec
CONSTANTS
  w1 = w1
  w2 = w2
  e1 = e1
  e2 = e2
  e3 = e3
  e4 = e4
  k1 = k1
  k2 = k2
  Idle = Idle
  Windows <- MCWindows
  Rank <- MCRank
  Events <- MCEvents
  Source <- MCSource
  WindowOf <- MCWindowOf
  Deadline <- MCDeadline
  Workers <- MCWorkers
  MaxEvents = 2
  ClaimLimit = 2
  MaxInFlight = 1
  FailureThreshold = 2
  MaxTime = 2
  MaxFaults = 1
INVARIANTS
  TypeOK
  ClaimsAreHeld
  InsightsMissNothing
  PublishedOnce
PROPERTY RoundsSettle
CHECK_DEADLOCK FALSE

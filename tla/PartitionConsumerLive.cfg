SPECIFICATION LiveSpec
CONSTANTS
  c1 = c1
  c2 = c2
  a = a
  b = b
  Members <- MCMembers
  MessageID <- MCMessageID
  NoMember = NoMember
  N = 2
  BatchSize = 2
  MaxRetries = 2
  MaxFaults = 1
PROPERTIES
  BacklogDrains
  CancelledClaimEnds
CHECK_DEADLOCK FALSE

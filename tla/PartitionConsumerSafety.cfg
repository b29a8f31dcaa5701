SPECIFICATION Spec
CONSTANTS
  c1 = c1
  c2 = c2
  a = a
  b = b
  Members <- MCMembers
  MessageID <- MCMessageID
  NoMember = NoMember
  N = 3
  BatchSize = 2
  MaxRetries = 2
  MaxFaults = 2
SYMMETRY MCSymmetry
INVARIANTS
  TypeOK
  NoLoss
  RowIsFirstRecord
  NothingSkipped
PROPERTIES
  ImplementsDurableLog
CHECK_DEADLOCK FALSE

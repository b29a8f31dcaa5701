SPECIFICATION Spec
CONSTANTS
  s1 = s1
  s2 = s2
  a = a
  b = b
  c = c
  red = red
  m1 = m1
  m2 = m2
  Servers <- MCServers
  Clients <- MCClients
  Home <- MCHome
  RoomOf <- MCRoomOf
  Messages <- MCMessages
  Sender <- MCSender
  WorkerCount <- MCWorkerCount
  RedisWorkerCount <- MCRedisWorkerCount
  BroadcastBufferSize = 1
  RedisPublishBufferSize = 1
  JobBufferSize = 1
  Slow <- MCSlow
  Present <- MCPresent
  MaxFaults = 1
  Idle = Idle
INVARIANTS
  TypeOK
  CopiesAreExplained
  LossIsExplained
  OrderIsKept
CHECK_DEADLOCK FALSE

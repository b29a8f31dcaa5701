SPECIFICATION LimitSpec
CONSTANTS
  g1 = g1
  g2 = g2
  u1 = u1
  u2 = u2
  room = room
  Goroutines <- MCGoroutines
  Keys <- MCKeys
  Shards <- MCShards
  UserKey <- MCUserKey
  RoomKey <- MCRoomKey
  ShardOf <- MCShardOf
  Burst <- MCBurst
  Cost <- MCCost
  IdleTTL = 5
  MaxDelay = 1
  MaxTime = 8
INVARIANTS
  LimitTypeOK
  WithinPerfectBuckets
CHECK_DEADLOCK FALSE

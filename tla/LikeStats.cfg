SPECIFICATION LiveSpec
CONSTANTS
  hall = hall
  attic = attic
  Rooms <- MCRooms
  Steady <- MCSteady
  NoRoom = NoRoom
  Counts <- MCCounts
  MaxLikes = 2
  MaxStrays = 2
INVARIANTS
  TypeOK
  NothingCountedTwice
  SteadyRoomsKeepLikes
  ShownIsEarned
PROPERTIES
  LikesReachRedis

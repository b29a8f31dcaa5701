SPECIFICATION Spec
CONSTANTS
  hall = hall
  attic = attic
  Rooms <- MCRooms
  Steady <- MCSteady
  NoRoom = NoRoom
  Counts <- MCOneCount
  MaxLikes = 2
  MaxStrays = 0
INVARIANTS
  UnflushedLikesAreStored

SPECIFICATION LiveSpec
CONSTANTS
  u = u
  v = v
  w = w
  home = home
  office = office
  red = red
  blue = blue
  s1 = s1
  s2 = s2
  Clients <- MCClients
  NoClient = NoClient
  IPs <- MCIPs
  ipOf <- MCIpOf
  Rooms <- MCRooms
  Subs <- MCSubs
  NoSub = NoSub
  MaxConnections = 2
  MaxConnectionsPerIP = 1
INVARIANTS
  TypeOK
  SlotsAreExact
  MembersAreReaders
  SubscriptionsFollowRooms
PROPERTIES
  BrokenIsReleased
  EmptyRoomUnsubscribes

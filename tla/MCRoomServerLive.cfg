CONSTANTS
  c1 = c1
  c2 = c2
  Conns = {c1, c2}
  NoConn = NoConn
  MaxPeerId = 2
  MaxRoomId = 1
  MaxToken = 1
  MaxRooms = 1
  Capacities = {2}
  VipCount = 2
  LeaseTicks = 2
SPECIFICATION FairSpec
PROPERTIES
  AbandonedLeasesExpire

CONSTANTS
  c1 = c1
  c2 = c2
  Conns = {c1, c2}
  NoConn = NoConn
  MaxPeerId = 3
  MaxRoomId = 1
  MaxToken = 3
  MaxRooms = 1
  Capacities = {2}
  VipCount = 2
  LeaseTicks = 1
SYMMETRY ConnSymmetry
SPECIFICATION Spec
INVARIANT MembershipInv
PROPERTIES
  ProtectedEntry

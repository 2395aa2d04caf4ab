CONSTANTS
  c1 = c1
  c2 = c2
  c3 = c3
  Conns = {c1, c2, c3}
  NoConn = NoConn
  MaxPeerId = 2
  MaxRoomId = 2
  MaxToken = 3
  MaxRooms = 2
  Capacities = {2}
  VipCount = 2
  LeaseTicks = 1
SYMMETRY ConnSymmetry
SPECIFICATION Spec
INVARIANTS RoomsSound MembersHoldLeases ToldTrue
PROPERTIES LeasesSurviveFailures FailedRequestsInvisible

CONSTANTS
  few = few
  NoRoom = NoRoom
  RoomIds = {1, 2, 3}
  Infos = {few}
  MaxRooms = 2
  PageCap = 1
  DeltaBudget = 4
  MaxRevision = 4
  MaxUnderWay = 2
  MaxRefused = 3
SPECIFICATION FairSpec
INVARIANTS ListInv
PROPERTIES ViewSpec ListCatchesUp

SPECIFICATION RoomsSpec
CONSTANTS
  Conns = {c1, c2}
  Tasks = {t1, t2}
  Rooms = {r1}
INVARIANTS RoomsTypeOK JoinedMeansMember NoEmptyRoomLeak CleanupLeavesRooms
CHECK_DEADLOCK FALSE

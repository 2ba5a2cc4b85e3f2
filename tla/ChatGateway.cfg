SPECIFICATION Spec
CONSTANTS
  u1 = u1
  u2 = u2
  room1 = room1
  s1 = s1
  s2 = s2
  s3 = s3
  None = None
  Users <- MCUsers
  Rooms <- MCRooms
  Sockets <- MCSockets
INVARIANTS TypeOK ConnectedIsKnown RoomWasJoined HeardInRoom
SYMMETRY Symmetry
CHECK_DEADLOCK FALSE

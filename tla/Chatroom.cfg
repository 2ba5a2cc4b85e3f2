SPECIFICATION MCSpec
CONSTANTS
  a = a
  b = b
  admin = admin
  ghost = ghost
  room1 = room1
  room2 = room2
  m1 = m1
  m2 = m2
  m3 = m3
  q1 = q1
  q2 = q2
  None = None
  Absent = Absent
  Users <- MCUsers
  Registered <- MCRegistered
  Admins <- MCAdmins
  Rooms <- MCRooms
  Messages <- MCMessages
  Requests <- MCRequests
  PageSize = 2
INVARIANTS TypeOK FoundersStay AnswerHasBoth UploaderTookPart ImageRoomIsListed UntouchedAreRead
PROPERTY AtomicAdditions
SYMMETRY Symmetry
CHECK_DEADLOCK FALSE

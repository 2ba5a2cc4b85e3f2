SPECIFICATION Spec
CONSTANTS
  u1 = u1
  u2 = u2
  room1 = room1
  room2 = room2
  m1 = m1
  m2 = m2
  w1 = w1
  w2 = w2
  None = None
  Users <- MCUsers
  Rooms <- MCRooms
  Participants <- MCParticipants
  Admins = {}
  Messages <- MCMessages
  RoomOf <- MCRoomOf
  Statuses = {"SEEN"}
  Slots <- MCSlots
  Concurrency = 2
  MaxWaiting = 1
  MaxTold = 2
  MaxCrashes = 1
PROPERTIES OnlyOwnEntryChanges
SYMMETRY Symmetry
CHECK_DEADLOCK FALSE

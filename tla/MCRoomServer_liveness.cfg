SPECIFICATION FairSpec
CONSTANTS
  a1 = a1
  a2 = a2
  b1 = b1
  alice = alice
  bob = bob
  Sessions = {a1, b1}
  ClientIds = {alice, bob}
  IdOf <- MCIdOf
  RoomIds = {x, y}
  Rooms = {r1, r2}
  Waits = {w1}
  MaxEntries = 1
  Hooks = {"wait"}
  NoRoom = NoRoom
  NoThread = NoThread
PROPERTIES
  SuspendedThreadResumes
  ClosedConnectionEnds
  EveryRoomEnds
CHECK_DEADLOCK FALSE

SPECIFICATION Spec
CONSTANTS
  a1 = a1
  a2 = a2
  b1 = b1
  alice = alice
  bob = bob
  Sessions = {a1, a2}
  ClientIds = {alice, bob}
  IdOf <- MCIdOf
  RoomIds = {x, y}
  Rooms = {r1, r2}
  Waits = {w1}
  MaxEntries = 2
  Hooks = {"dispose", "kick", "close", "wait"}
  NoRoom = NoRoom
  NoThread = NoThread
SYMMETRY Symmetry
INVARIANTS
  RegistryConsistent
  NoGhostMember
  ClientViewIsRight
CHECK_DEADLOCK FALSE

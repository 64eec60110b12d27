SPECIFICATION Spec
CONSTANTS
  a1 = a1
  a2 = a2
  b1 = b1
  alice = alice
  bob = bob
  Sessions = {a1, a2, b1}
  ClientIds = {alice, bob}
  IdOf <- MCIdOf
  RoomIds = {x, y}
  Rooms = {r1, r2}
  Waits = {w1, w2}
  MaxEntries = 1
  Hooks = {"dispose", "wait"}
  NoRoom = NoRoom
  NoThread = NoThread
SYMMETRY Symmetry
INVARIANTS
  SubscribersAreLive
  UseAfterFreeNeedsExposure
  LifetimeIsBounded
  EmptyRoomIsAwaited
  NoLostWakeup
PROPERTIES
  PromiseSetOnce
  ImplementsRoomService
CHECK_DEADLOCK FALSE

SPECIFICATION Spec
CONSTANTS
  RoomIds = {x, y}
  Metas = {m0, m1}
  EmptyMeta = m0
  Keys = {k1, k2}
  Vals = {v0, v1}
  NoVal = v0
  Callers = {hook1, hook2, thread}
  Locked = {hook1, hook2}
  TTL = 3
  Lifetime = 2
  Lateness = 1
  MaxTime = 4
  MaxWrites = 2
  Missing = Missing
  Never = Never
SYMMETRY Symmetry
INVARIANTS
  SnapshotOutlivesRoom
  NoUpdateIsLost
PROPERTIES
  LiveRoomIsNotReplaced
CHECK_DEADLOCK FALSE

SPECIFICATION FairSpec
CONSTANTS
  Objs = {o1, o2}
  Ids = {x, y}
  MaxConnections = 2
  NoObj = NoObj
  NoId = NoId
INVARIANTS
  ViewIsRight
  EntersOnce
  RejoinsEveryRoom
PROPERTIES
  DisconnectReturns
CHECK_DEADLOCK FALSE

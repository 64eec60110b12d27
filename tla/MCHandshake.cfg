SPECIFICATION FairSpec
CONSTANTS
  Strings = {"id"}
  Numbers <- MCNumbers
  Keys = {"a"}
  HeadUnits = 3
  BodyUnits = 3
  FrameUnits = 2
  MaxHead = 4
INVARIANTS
  NothingIsLost
  FramesKeepTheirMeaning
PROPERTIES
  HandshakeEnds
CHECK_DEADLOCK FALSE

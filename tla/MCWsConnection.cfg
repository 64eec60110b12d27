SPECIFICATION FairSpec
CONSTANTS
  Senders = {s1, s2}
  Receiver = receiver
  NoThread = NoThread
  MaxMessages = 2
  BufferSize = 1
INVARIANTS
  NoUseAfterReturn
  HandledInOrder
PROPERTIES
  EveryUseEnds
  ClosedConnectionReturns
CHECK_DEADLOCK FALSE

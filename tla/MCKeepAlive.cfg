SPECIFICATION KeepAliveSpec
CONSTANTS
  Interval = 25
  Timeout = 5
  Poll = 1
  Delay = 1
  NoPing = NoPing
INVARIANTS
  LiveClientIsKept
  
CHECK_DEADLOCK FALSE

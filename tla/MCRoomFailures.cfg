SPECIFICATION FailuresSpec
CONSTANTS
  Clients = {c1, c2, c3}
INVARIANTS
  FailuresLeaveNoHalfRoom
  ErrorMeansOutside
CHECK_DEADLOCK FALSE

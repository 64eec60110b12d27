SPECIFICATION FairSpec
CONSTANTS
  Timers = {t1, t2, t3}
  Delays <- MCDelays
  Never = Never
  MaxTime = 2
INVARIANTS
  NeverOversleeps
PROPERTIES
  ImplementsTimerService
  EveryTimerFires
  DestructorReturns
CHECK_DEADLOCK FALSE

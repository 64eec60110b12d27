SPECIFICATION InfoSpec
CONSTANTS
  Requests = {q1, q2, q3}
  RoomIds = {r1, r2}
  Channel = Channel
  None = None
  NotFound = NotFound
INVARIANTS
  AnswerIsRight
  NoListenerOutlivesItsRequest
CHECK_DEADLOCK FALSE

SPECIFICATION Spec
CONSTANTS
  Claims = {c1, c2}
  Messages = {}
  NoItem = NoItem
  Concurrency = 1
  QueueSize = 1
INVARIANT FinishedIsRecorded
CHECK_DEADLOCK FALSE

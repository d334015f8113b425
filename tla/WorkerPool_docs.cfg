SPECIFICATION Spec
CONSTANTS
  Claims = {c1, c2}
  Messages = {m1}
  NoItem = NoItem
  Concurrency = 1
  QueueSize = 1
INVARIANTS NoSendOnClosed RejectedGoBack
CHECK_DEADLOCK FALSE

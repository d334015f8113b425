SPECIFICATION InstanceSpec
CONSTANTS
  Claims = {c1, c2, c3}
  Messages = {m1}
  NoItem = NoItem
  Concurrency = 1
  QueueSize = 1
  Jobs = {j1, j2}
  Waiters = {w1, w2}
  BatchSize = 1
  MaxReturns = 1
INVARIANTS NoClaimMislaid DrainIsComplete NobodySleepsThrough
PROPERTIES ShutdownEnds EveryPendingClaimed

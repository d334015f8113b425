SPECIFICATION KafkaSpec
CONSTANTS
  Jobs = {j1}
  Slots = {s1, s2}
  Remotes = {r1}
  Tokens = {t1, t2, t3, t4}
  NoToken = NoToken
  NoJob = NoJob
  MaxRetries <- MCMaxRetries
  MaxDeliveries = 2
SYMMETRY MCSymmetry
INVARIANT ClaimDecides
PROPERTY MessagesDoNotSteal
CHECK_DEADLOCK FALSE

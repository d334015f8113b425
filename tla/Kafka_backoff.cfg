SPECIFICATION KafkaSpec
CONSTANTS
  Jobs = {j1}
  Slots = {s1}
  Remotes = {}
  Tokens = {t1, t2, t3, t4}
  NoToken = NoToken
  NoJob = NoJob
  MaxRetries <- MCMaxRetries
  MaxDeliveries = 2
SYMMETRY MCSymmetry
PROPERTY BackoffHonored
CHECK_DEADLOCK FALSE

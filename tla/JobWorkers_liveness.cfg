\* Liveness: no symmetry.
CONSTANTS
  j1 = j1
  j2 = j2
  NoJob = NoJob
  NoToken = NoToken
  Jobs = {j2}
  Slots = {s1}
  Remotes = {r1}
  Tokens = {t1, t2, t3}
  MaxRetries <- MCMaxRetries
SPECIFICATION FairSpec
PROPERTIES AbandonedClaimsRecovered EveryJobSettles
CHECK_DEADLOCK FALSE

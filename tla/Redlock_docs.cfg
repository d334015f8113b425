SPECIFICATION RedSpec
CONSTANTS
  Callers = {r1, r2}
  N = 3
  CfgQuorum = 0
  TTL = 3
  Drift = 1
  MaxMishaps = 1
  SlowNodes = {1}
  Free = Free
  Orphan = Orphan
INVARIANTS CrashedNodeExcludes HoldersExclude

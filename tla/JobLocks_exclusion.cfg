SPECIFICATION LocksSpec
CONSTANTS
  p1 = p1
  p2 = p2
  a = a
  b = b
  x1 = x1
  x2 = x2
  x3 = x3
  x4 = x4
  Processes = {p1, p2}
  Resources = {a, b}
  Executions = {x1, x2, x3, x4}
  Proc <- MCProc
  Wants <- MCWants
  Sessions = {s1, s2, s3, s4, s5, s6}
  NoSession = NoSession
  MaxFaults = 3
  Callers = {r1, r2}
  N = 3
  CfgQuorum = 0
  TTL = 3
  Drift = 1
  MaxMishaps = 1
  SlowNodes = {1}
  Free = Free
  Orphan = Orphan
SYMMETRY MCSymmetry
INVARIANTS LocksTracked InstancesExclude ExpiryHonest RedlockExcludes
PROPERTY NeighboursKept

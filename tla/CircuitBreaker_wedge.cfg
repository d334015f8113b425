SPECIFICATION FairSpec
CONSTANTS
  Callers = {c1, c2}
  CfgFailures = 5
  CfgSuccesses = 2
  CfgHalfOpen = 1
PROPERTY Recovers

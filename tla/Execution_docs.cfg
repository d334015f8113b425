SPECIFICATION ExecSpec
CONSTANTS
  Callers = {c1, c2}
  CfgFailures = 2
  CfgSuccesses = 2
  CfgHalfOpen = 1
  CfgBase = 100
  CfgMax = 350
  CfgMultiplier = 2
  CfgJitter = 10
  MaxRedirects = 2
  AllowPrivate = FALSE
  MaxRetries = 3
  Unlucky = {c1, c2}
INVARIANTS OutagesAreRetried OneProbe

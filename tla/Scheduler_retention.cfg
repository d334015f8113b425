SPECIFICATION MCRetentionSpec
CONSTANTS
  often = often
  middle = middle
  seldom = seldom
  Schedules = {often, seldom}
  Replicas = {r1, r2}
  Every <- MCEvery
  Lookahead = 6
  CfgBudget = 1
  Horizon = 5
  MaxFaults = 1
  HoursPerDay = 2
  MinutesPerHour = 2
  Starts <- MCLeapStarts
  Expressions <- MCLeapExpressions
INVARIANT ExactlyOneJob

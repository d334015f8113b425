SPECIFICATION SchedulesSpec
CONSTANTS
  often = often
  middle = middle
  seldom = seldom
  Schedules = {often, middle, seldom}
  Replicas = {r1, r2}
  Every <- MCEvery
  Lookahead = 6
  CfgBudget = 2
  Horizon = 4
  MaxFaults = 1
  HoursPerDay = 2
  MinutesPerHour = 2
  Starts <- MCStarts
  Expressions <- MCExpressions
INVARIANTS ExactlyOneJob NoLostFire FieldsInBounds
PROPERTIES AdvancesOnlyForward DueSchedulesFire SkipsOnlyMisses

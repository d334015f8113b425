SPECIFICATION SchedulesSpec
CONSTANTS
  often = often
  middle = middle
  seldom = seldom
  Schedules = {often, seldom}
  Replicas = {r1}
  Every <- MCLeapDay
  Lookahead = 6
  CfgBudget = 1
  Horizon = 7
  MaxFaults = 0
  HoursPerDay = 2
  MinutesPerHour = 2
  Starts <- MCLeapStarts
  Expressions <- MCLeapExpressions
INVARIANT FourYearsSearched
PROPERTY DueSchedulesFire

SPECIFICATION ScheduleFairSpec
CONSTANTS
  Orgs = {o1, o2}
  Ticks = {k1, k2}
  Interval = 2
  Window = 2
  Concurrency = 1
  MaxFaults = 1
INVARIANTS
  ScheduleSafe
PROPERTIES
  IntervalRespected
  ScheduleProgress

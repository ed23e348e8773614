CONSTANTS
  Jobs = {j1}
  Preloaded = {j1}
  Clients = {a}
  Timers = {x1, x2}
  Schedules <- MCSchedules
  MaxClock = 2
  Never = 9
  Stuck = 0
  Poll = 2
  RateMax = 1
  RateWindow = 1
  MaxCrashes = 1
  CronFaults = {}
SPECIFICATION CronSpec
CHECK_DEADLOCK FALSE
INVARIANTS
  SavedJobsSurvive

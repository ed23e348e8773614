CONSTANTS
  Jobs = {j1}
  Preloaded = {}
  Clients = {a, b}
  Timers = {x1, x2}
  Schedules <- MCSchedules
  MaxClock = 1
  Never = 9
  Stuck = 0
  Poll = 2
  RateMax = 1
  RateWindow = 0
  MaxCrashes = 1
  CronFaults = {"store", "refuse"}
  Requests = {r1, r2}
  Keys = {k}
  Capacity = 1
  MaxRestarts = 1
  HookFaults = {"store", "dropped"}
  ToolCalls = {"call1", "call2"}
  Terminals = {t1}
  Lines <- MCLines
  MaxKeys = 1
SPECIFICATION Spec
CHECK_DEADLOCK FALSE
INVARIANTS
  OneRunAtATime
  NeverOversleeps
  RecurringIsScheduled
  FileFollowsList
  OneDeliveryPerKey
  RunOnce
  CompletedHasRun
  LinesInOrder
  IdleIsIdle
  NoLostWakeup
  RunNotStranded
PROPERTIES
  DueIsRun
  StoredIsFinished

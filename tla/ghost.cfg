CONSTANTS
  Sends = {p1}
  Syncs = {y1}
  Stops = {}
  Mutators = {}
  Truncators = {}
  Waiters = {w1}
  Faults = {"dropped"}
  UserOps = {}
  MaxCrashes = 0
  None = None
SPECIFICATION EndingSpec
CHECK_DEADLOCK FALSE
PROPERTIES
  WaitReturns

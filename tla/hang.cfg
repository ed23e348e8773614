CONSTANTS
  Sends = {p1}
  Syncs = {y1}
  Stops = {s1}
  Mutators = {}
  Truncators = {}
  Waiters = {}
  Faults = {}
  UserOps = {}
  MaxCrashes = 0
  None = None
SPECIFICATION FairSpec
PROPERTIES
  OverlappingStopReturns

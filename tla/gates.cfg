CONSTANTS
  Sends = {p1}
  Syncs = {y1}
  Stops = {}
  Mutators = {}
  Truncators = {}
  Waiters = {w1}
  Faults = {"store"}
  UserOps = {"clear"}
  MaxCrashes = 0
  None = None
SPECIFICATION EndingSpec
INVARIANTS
  WaiterNotStranded
PROPERTIES
  CallsReturn

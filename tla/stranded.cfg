CONSTANTS
  Sends = {p1, p2}
  Syncs = {}
  Stops = {}
  Mutators = {}
  Truncators = {}
  Waiters = {}
  Faults = {}
  UserOps = {}
  MaxCrashes = 0
  None = None
SPECIFICATION EndingSpec
PROPERTIES
  QueuedIsSubmitted

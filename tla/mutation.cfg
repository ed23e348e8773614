CONSTANTS
  Sends = {p1}
  Syncs = {}
  Stops = {s1}
  Mutators = {m1}
  Truncators = {m1}
  Waiters = {}
  Faults = {"store"}
  UserOps = {"clear"}
  MaxCrashes = 0
  None = None
SPECIFICATION FairSpec
INVARIANTS
  PermitExclusion
PROPERTIES
  TruncationReturns
  StopReturns

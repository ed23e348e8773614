CONSTANTS
  Sends = {p1, p2, p3}
  Syncs = {}
  Stops = {}
  Mutators = {m1}
  Truncators = {}
  Waiters = {}
  Faults = {"store", "dropped"}
  UserOps = {"remove"}
  MaxCrashes = 1
  None = None
SYMMETRY CallSymmetry
SPECIFICATION Spec
INVARIANTS
  AtMostOnce
  FifoOrder
PROPERTIES
  ImplementsLedger

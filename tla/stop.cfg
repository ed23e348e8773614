CONSTANTS
  Sends = {p1, p2}
  Syncs = {y1}
  Stops = {s1}
  Mutators = {}
  Truncators = {}
  Waiters = {}
  Faults = {"store", "hook", "panic", "dropped"}
  UserOps = {"stopRun"}
  MaxCrashes = 0
  None = None
SYMMETRY CallSymmetry
SPECIFICATION BesideSpec
ACTION_CONSTRAINT FewFailures
INVARIANTS
  TypeOK
  CountersExact
  StopQuiesces
  StopNeverOversleeps
  NoGhostActive
  TurnSeesItsHistory

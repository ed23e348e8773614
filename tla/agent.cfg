CONSTANTS
  Calls = {c1, c2}
  MaxTools = 2
  ServerRetries = 0
  UnknownRetries = 0
  RateRetries = 0
  MaxAutoContinues = 1
  Timeout = 1
  MaxClock = 2
  MaxUpdates = 1
  MaxCompactions = 0
  Faults = {}
SYMMETRY ToolCallSymmetry
SPECIFICATION Spec
CHECK_DEADLOCK FALSE
INVARIANTS
  TypeOK
  LifecyclesClose
  DeclinedNeverRuns
  TimeoutCountsWork
  NoOrphanSlot
PROPERTIES
  TerminalIsLast

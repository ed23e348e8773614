CONSTANTS
  Calls = {c1}
  MaxTools = 1
  ServerRetries = 1
  UnknownRetries = 0
  RateRetries = 0
  MaxAutoContinues = 0
  Timeout = 1
  MaxClock = 0
  MaxUpdates = 0
  MaxCompactions = 1
  Faults = {"store", "provider", "hook", "rival"}
SPECIFICATION Spec
CHECK_DEADLOCK FALSE
INVARIANTS
  CancelledWhenAsked
  FramesFollowEvents
PROPERTIES
  CancelledRunEnds
  RunEnds

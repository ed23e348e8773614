CONSTANTS
  Messages = {"u", "t", "s", "e"}
  Runs = {r1}
  Kind <- MCKind
  RunOf <- MCRunOf
  Last <- MCLast
  Viewers = {v1}
  MaxRecords = 3
  MaxGenerations = 2
  MaxUpdates = 1
  StoreFaults = {"store", "prune", "dropped", "crash"}
SPECIFICATION StorySpec
CHECK_DEADLOCK FALSE
INVARIANTS
  RecordsAreOwned
  SubscriberIsCurrent
  FinishedRunIsStored

SPECIFICATION Spec
CONSTANTS
  Points <- MCPoints
  NoTree = NoTree
  Preds <- MCPreds
  Absent = Absent
  a = a
  b = b
  GarbageTotal = {0}
  InitialIndex <- FullIndex
  Batches <- MixedBatches
  NoCaching = TRUE
  MaxLogs = 4
  MaxSyncs = 3
  MaxCrashes = 1
INVARIANTS LoggedIsDurable NothingLost
CHECK_DEADLOCK FALSE

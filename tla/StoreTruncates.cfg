SPECIFICATION Spec
CONSTANTS
  Points <- MCPoints
  NoTree = NoTree
  Preds <- MCPreds
  Absent = Absent
  a = a
  b = b
  GarbageTotal = {0}
  InitialIndex <- FullIndex
  Batches <- Insertions
  NoCaching = FALSE
  MaxLogs = 2
  MaxSyncs = 2
  MaxCrashes = 0
INVARIANT LoadedHasEveryUpdate
CHECK_DEADLOCK FALSE

SPECIFICATION Spec
CONSTANTS
  Points <- MCPoints
  NoTree = NoTree
  Preds <- MCPreds
  Absent = Absent
  a = a
  b = b
  GarbageTotal = {0, 1}
  InitialIndex <- SecondOnly
  Batches <- MixedBatches
  NoCaching = FALSE
  MaxLogs = 3
  MaxSyncs = 2
  MaxCrashes = 2
INVARIANTS SyncFindsTrees CleanMatchesDisk LoadedCurrent LoggedIsDurable
CHECK_DEADLOCK FALSE

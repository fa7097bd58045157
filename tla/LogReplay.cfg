SPECIFICATION Spec
CONSTANTS
  a = a
  Points <- MCPoints
  NoTree = NoTree
  Preds <- MCPreds
  NoRecord = NoRecord
  MaxRecords = 3
INVARIANTS ReplayMatchesMerge CompactionKeepsMeaning ReplayChangesNothing
CHECK_DEADLOCK FALSE

SPECIFICATION Spec
CONSTANTS
  Nodes <- MCNodes
  Threads = {t1, t2}
  NoNode = NoNode
  IdSpace = 6
  MaxPlain = 2
  MaxStarts = 2
  MaxPairs = 4
SYMMETRY MCWorkers
INVARIANTS IdsTranslateBack AnsweredInFiles
PROPERTIES NodesKeepIds
CHECK_DEADLOCK FALSE

SPECIFICATION Spec
CONSTANTS
  Clients = {c1, c2}
  Predicates = {1, 3}
  Points <- MCPoints
  NoTree = NoTree
  Configs <- MCConfigs
  Initial <- MCInitial
  Requests <- MCRequests
  Patterns <- MCPatterns
  Commits <- MCCommits
  Garbled <- MCGarbled
  RealId <- MCRealId
  NodeAny = 0
  Threshold = 2
  MaxToCache = 10
  MaxPatterns = 1
  MaxWork = 3
  MaxSyncs = 1
INVARIANTS FicCurrent AnswersComplete
PROPERTY StreamEnds
CHECK_DEADLOCK FALSE

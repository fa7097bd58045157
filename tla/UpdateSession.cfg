SPECIFICATION Spec
CONSTANTS
  Sessions = {u1, u2}
  Batches <- MCBatches
  InitialIds <- MCInitialIds
  InitialIndex <- MCInitialIndex
  Garbled <- MCGarbled
  MaxBatches = 3
  MaxCommits = 2
  MaxSyncs = 1
SYMMETRY UpdateIds
INVARIANTS CommittedVisible CommittedDurable
CHECK_DEADLOCK FALSE

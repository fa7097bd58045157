SPECIFICATION Spec
CONSTANTS
  Keys <- MCKeys
  Indexed <- MCIndexed
  Updated <- MCUpdated
  Sizes = {1, 2}
  MaxSize = 2
  Strategy = "LRU"
  Channels = {c1, c2}
  NoChannel = NoChannel
  MaxRequested = 1
  MaxTasks = 1
  MaxClock = 2
SYMMETRY MCStreams
INVARIANTS TypeOK SizeAccounting PrioritySetSorted ResidentsLoaded MarksMatchStreams HeldStaysLoaded
CHECK_DEADLOCK FALSE

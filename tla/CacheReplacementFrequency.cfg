SPECIFICATION Spec
CONSTANTS
  Keys <- MCKeys
  Indexed <- MCIndexed
  Updated <- MCUpdated
  Sizes = {1, 3}
  MaxSize = 2
  Strategy = "FREQUENCY"
  Channels = {c1}
  NoChannel = NoChannel
  MaxRequested = 1
  MaxTasks = 1
  MaxClock = 3
INVARIANT PrioritySetSorted
PROPERTY HitReturnsEventually
CHECK_DEADLOCK FALSE

SPECIFICATION Spec
CONSTANTS
  Workers = {w1, w2}
  Clients = {1, 2, 3}
  None = None
  MaxRequests <- MCMaxRequests
INVARIANTS NobodySleepsOnTasks NumbersAreOwn
PROPERTIES RequestsAnswered ConnectionsServed
CHECK_DEADLOCK FALSE

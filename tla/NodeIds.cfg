CONSTANTS
  n1 = n1
  n2 = n2
  n3 = n3
  NoHost = NoHost
  Nodes = {n1, n2, n3}
  STALE_NODE_TIMEOUT = 2
  DEAD_NODE_TIMEOUT = 3
  MaxId = 3
  MaxNow = 4
  MaxFailures = 1
SPECIFICATION Spec
INVARIANTS NodeIdIsUnique LeaseIsKept
SYMMETRY Symmetry
CHECK_DEADLOCK FALSE

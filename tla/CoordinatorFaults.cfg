SPECIFICATION Spec
CONSTANTS
  Tasks = {t1, t2}
  Nodes = {n1, n2}
  NoNode = NoNode
  BatchSize = 2
  MaxRetries = 1
  NodeCapacity = 1
  SendBuffer = 1
  PushInWindow = FALSE
  MaxFaults = 2
  MaxRestarts = 1
INVARIANTS
  
  AssignmentsBacked
  AtMostOnce
  
  
CHECK_DEADLOCK FALSE
SYMMETRY Symmetry

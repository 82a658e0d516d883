SPECIFICATION FairSpec
CONSTANTS
  Tasks = {t1, t2}
  Nodes = {n1, n2}
  NoNode = NoNode
  BatchSize = 1
  MaxRetries = 1
  NodeCapacity = 2
  SendBuffer = 2
  PushInWindow = FALSE
  MaxFaults = 2
  MaxRestarts = 0
PROPERTY RequeuedIsSentAgain
CHECK_DEADLOCK FALSE

SPECIFICATION Spec
CONSTANTS
  Members = {n1}
  NoRecord = NoRecord
  MaxStalls = 1
  MaxLates = 1
  MaxLives = 2
  Events = {e1, e2}
  StreamSize = 1
  BatchLimit = 2
  MaxBusFaults = 1
  Tasks = {t1, t2, t3}
  Workers = {w1}
  None = None
  QueueSize = 2
  ResultSize = 1
  FetchMax = 1
  MaxRetries = 1
  Pauses = FALSE
  Stops = FALSE
  Jobs = {j1, j2}
  Nodes = {c1, c2}
  NoNode = NoNode
  BatchSize = 2
  NodeCapacity = 2
  SendBuffer = 1
  PushInWindow = FALSE
  MaxFaults = 0
  MaxRestarts = 0
INVARIANTS
  EventFate
PROPERTIES
  ViewSettles
  
  EventuallySettled
  
CHECK_DEADLOCK FALSE

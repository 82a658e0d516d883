SPECIFICATION HubSpec
CONSTANTS
  Tasks = {t1, t2, t3}
  Workers = {w1, w2}
  None = None
  QueueSize = 2
  ResultSize = 1
  FetchMax = 2
  MaxRetries = 1
  Pauses = TRUE
  Stops = TRUE
  MaxStreams = 2
  MaxLinkFaults = 1
  MaxAsks = 1
  StopsNode = TRUE
  Callers = {x1, x2}
  SendCapacity = 1
  Answers = TRUE
  Viewers = {v1, v2}
  News = {a1}
  ViewCapacity = 1
  MaxHubStarts = 1
  BatchTasks = {b1, b2, b3}
  MaxReports = 1
INVARIANTS
  TypesOK
  OnePlace
  
  RequestsOwned
  
  OneCompletion
CHECK_DEADLOCK FALSE
SYMMETRY Symmetry

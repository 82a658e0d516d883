SPECIFICATION Spec
CONSTANTS
  t1 = t1
  t2 = t2
  t3 = t3
  n1 = n1
  n2 = n2
  NoNode = NoNode
  Tasks <- MCTasks
  Nodes <- MCNodes
  Priority <- NamedPriority
  Url <- MCUrl
  Capacity <- MCCapacity
  Seeds = {t2}
  HashBits = 12
  QueueCapacity = 1
  BatchSize = 2
  Strategy = "hash"
  NodesFail = TRUE
  MaxFails = 1
INVARIANTS
  CopiesBounded
  

SPECIFICATION Spec
CONSTANTS
  Period = 2
  Hour = 1
  SweepPeriod = 2
  BatchDates = 2
  MaxUnanswered = 1
  MaxSchedFaults = 1
  Delayable = {d1, d2}
  Processors = {q1, q2}
  Polled = {0}
  Priorities = {0, 1}
  MaxQFaults = 1
  Schedules = {s1}
  Executions = {x1, x2}
  MaxRuns = 2
  EventCapacity = 1
  MaxAdds = 2
  Instances = {i1}
  AllocNodes = {m1}
  ChanSize = 1
  MaxMgrFaults = 1
  Goroutines = {g1, g2}
  Modes = {"standalone", "cluster"}
  RetryLimits = {1, 3}
  MaxCrawlFaults = 3
  MaxStarts = 2
  Loaders = {p1, p2}
  Callers = {u1}
  MaxLoads = 3
  MaxRegFaults = 1
  ExecTasks = {t1, t2}
  ExecWorkers = {w1, w2}
  ExecKinds = {"api", "page", "seed", "lua"}
  ExecRetries = 1
  MaxExecFaults = 2
  Records = {r1, r2}
  PipeWorkers = {w1, w2}
  Invalid = {r1}
  Shapes = {"maps", "map", "list"}
  PipeRetries = 1
  MaxPipeFaults = 2
  Keys = {k1, k2}
  StoreKinds = {"map", "memory", "redis", "mongo", "mysql"}
  TTLs = {0, 1}
  DefaultTTL = 2
  MaxStores = 2
  MaxNow = 3
  MaxStoreFaults = 1
  Runs = {n1, n2}
  Hubs = {h1, h2}
  BestForms = {"gzip", "zstd"}
  MaxResultFaults = 1
  FieldNames = {"task_id", "tid", "status", "st", "url", "note"}
  MaxFields = 3
INVARIANTS
  TypesOK
  DelayedFate
  MaxRunsHolds
  
  TaskKept
  RegistryWorks
  RecordsKept
  ReadBack
PROPERTIES
  KeepsRunning
CHECK_DEADLOCK FALSE

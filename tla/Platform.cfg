SPECIFICATION Spec
CONSTANTS
  LogEntries = {e1, e2}
  BufferSize = 1
  StoreBatch = 2
  StreamMax = 1
  MaxLogs = 2
  MaxLogFaults = 1
  Clients = {c1, c2}
  MaxCalls = 3
  MaxTokenFaults = 1
  Handlers = {h1, h2}
  Limit = 2
  Window = 5
  MaxDelay = 1
  MaxClock = 6
  MaxRequests = 4
  MaxLimitFaults = 1
  Docs = {1, 2}
  Refreshes = {r1}
  MaxKeys = 5
  MaxScreenFaults = 1
  Fetches = {f1, f2}
  Proxies = {p1}
  MaxConnsPerHost = 2
  MaxConcurrent = 1
  Retries = 1
  FailureThreshold = 2
  SuccessThreshold = 1
  MaxCancels = 1
  Bodies = {m1}
  MaxDials = 2
  MaxMqFaults = 2
  Nobody = nobody
  LockModes = {"plain", "refresh"}
  Second = 2
  Expiration = 5
  RefreshInterval = 2
  Slack = 1
  WorkBound = 7
  LockRetries = 1
  ProxyURLs = {p1, p2}
  Requesters = {r1, r2}
  Strategies = {"round_robin", "weighted"}
  FailureLimit = 1
  MaxReportsOf = 2
  MaxIndex = 1
  MaxEditions = 1
  Agents = {a1, a2, a3}
  Configured = {a1}
  Mobile = {a1}
  Weights = {0, 1, 2}
  AgentStrategies = {"round_robin", "weighted"}
  MaxAgents = 3
  MaxAgentIndex = 1
  Audited = {e1, e2}
  Anonymous = {e1}
  RetentionDays = 2
  MaxTaking = 1
  MaxDay = 4
  MaxAuditFaults = 1
  WebRequests = {r1, r2, r3}
  SentIDs = {i1}
  Lines = {l1, l2}
  MaxAge = 1
  MaxHalf = 6
  MaxFileFaults = 1
  DbCallers = {c1, c2}
  DbKinds = {"mysql", "redis", "mongodb"}
  DbCalls = {"Connect", "Disconnect", "HealthCheck", "Stats", "GetClient", "IncrementQueryCount"}
  MaxDbCalls = 3
  MaxDbFaults = 1
  NumServers = 2
  HttpRequests = {r1, r2}
  ShutdownTime = 2
  TableRows = {r1, r2, r3}
  Asked = {1, 9}
  DefaultPerPage = 2
  MaxPerPage = 2
  MaxTableChanges = 2
INVARIANTS
  TypesOK
  
  GivenTokenWorks
  WindowHolds
  ActsOnChosen
  NothingForgotten
  PoolsKept
PROPERTIES
  WaitersServed
  NotRobbed
CHECK_DEADLOCK FALSE

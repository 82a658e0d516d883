SPECIFICATION Spec
CONSTANTS
  Clients = {c1, c2, c3}
  Nobody = nobody
  Modes = {"plain", "refresh"}
  Second = 2
  Expiration = 5
  RefreshInterval = 2
  Slack = 1
  WorkBound = 4
  MaxRetries = 1
  RedisFails = FALSE
INVARIANTS
  HeldWhileWorking
PROPERTY Exclusive

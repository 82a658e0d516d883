SPECIFICATION Spec
CONSTANTS
  DbCallers = {c1, c2}
  DbKinds = {"mysql"}
  DbCalls = {"Connect", "HealthCheck", "Stats"}
  MaxDbCalls = 3
  MaxDbFaults = 1
INVARIANTS
  CountingReturns
CHECK_DEADLOCK FALSE

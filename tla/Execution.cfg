SPECIFICATION Spec
CONSTANTS
  ExecTasks = {t1, t2}
  ExecWorkers = {w1, w2}
  ExecKinds = {"api", "page"}
  ExecRetries = 1
  MaxExecFaults = 0
INVARIANT OwnExtractor
CHECK_DEADLOCK FALSE

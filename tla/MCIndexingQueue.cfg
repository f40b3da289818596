SPECIFICATION Spec
CONSTANTS
  MaxTasks = 2
  Files = {f1}
  Workers = {w1, w2}
  Requests = {r1, r2}
  MaxRetries = 2
  Backends = {"redis", "database"}
  MaxRequests = 2
  MaxFaults = 1
  NoFile = NoFile
SYMMETRY Symmetry
INVARIANTS TypeOK RetryBudget SingleExecution QueuedIsCarried
PROPERTIES LifecycleSpec
CHECK_DEADLOCK FALSE

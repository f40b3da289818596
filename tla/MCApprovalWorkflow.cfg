SPECIFICATION Spec
CONSTANTS
  Tools = {t1, t2}
  Requests = {r1, r2}
  Workers = {w1}
  Modes = {"graph", "loop"}
  Backends = {"redis", "database"}
  Kept = {TRUE}
  Attempts = 2
  CallTries = 1
  MaxRequests = 2
  MaxFaults = 1
  NoTool = NoTool
SYMMETRY Symmetry
INVARIANTS TypeOK DecidedOnce ExecutedWasApproved RefusedNotExecuted ExecutionBudget QueuedIsInFlight
CHECK_DEADLOCK FALSE

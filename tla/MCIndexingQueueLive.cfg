SPECIFICATION FairSpec
CONSTANTS
  MaxTasks = 2
  Files = {f1}
  Workers = {w1, w2}
  Requests = {r1}
  MaxRetries = 2
  Backends = {"redis", "database"}
  MaxRequests = 2
  MaxFaults = 1
  NoFile = NoFile
PROPERTIES EveryTaskSettles
CHECK_DEADLOCK FALSE

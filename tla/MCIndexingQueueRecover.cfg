SPECIFICATION FairSpec
CONSTANTS
  MaxTasks = 1
  Files = {f1}
  Workers = {w1}
  Requests = {r1}
  MaxRetries = 2
  Backends = {"redis", "database"}
  MaxRequests = 1
  MaxFaults = 1
  NoFile = NoFile
PROPERTIES StartRecoversUnfinished
CHECK_DEADLOCK FALSE

SPECIFICATION FairSpec
CONSTANTS
  Tools = {t1}
  Requests = {r1, r2}
  Workers = {w1}
  Modes = {"graph"}
  Backends = {"redis"}
  Kept = {TRUE}
  Attempts = 1
  CallTries = 2
  MaxRequests = 2
  MaxFaults = 1
  NoTool = NoTool
PROPERTIES LifecycleSpec ApprovedIsAnswered
CHECK_DEADLOCK FALSE

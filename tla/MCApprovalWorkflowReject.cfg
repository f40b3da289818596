SPECIFICATION Spec
CONSTANTS
  Tools = {t1}
  Requests = {r1}
  Workers = {w1}
  Modes = {"graph"}
  Backends = {"redis", "database"}
  Kept = {TRUE, FALSE}
  Attempts = 1
  CallTries = 1
  MaxRequests = 1
  MaxFaults = 0
  NoTool = NoTool
INVARIANTS RejectionHandsOff
CHECK_DEADLOCK FALSE

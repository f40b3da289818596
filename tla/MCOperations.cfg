SPECIFICATION OperationsSpec
CONSTANTS
  e1 = e1
  e2 = e2
  GovTools = {"scale"}
  Changing = {"scale"}
  Asking = {}
  Guarded = {"scale"}
  Remote = {"scale"}
  Calls = {"k1"}
  Operators = {"o1", "o2"}
  CallRetries = 1
  MCPTries = 2
  NoRow = NoRow
  NoCall = NoCall
  MaxUpdates = 2
  ConfiguredServers <- MCServers
  Endpoint <- MCEndpoint
  NoEndpoint = NoEndpoint
  LocalTools = {"time"}
  Offers <- MCOffers
  Loaders = {"l1", "l2", "l3"}
  MaxOutages = 2
  Exchanges = {e1, e2}
  Clearers = {"k1"}
  NoVersion = NoVersion
  Diagnoses = {"d1", "d2"}
  MaxNative = 2
  Monitors = {"m1", "m2"}
  AlertKeys = {"cpu"}
  Interval = 2
  TTL = 3
  Skews <- MCSkews
  NoAlert = NoAlert
  MaxTime = 5
  Runs = {"r1"}
  Progress = {"tool_call", "repeated_call", "tool_result"}
  MaxProgress = 2
  MaxDecisions = 1
  MaxEvaluated = 1
  NoColumns = NoColumns
  NoView = NoView
  Senders <- MCSenders
  LimitSettings <- MCLimits
  LastSecond = 6
  MaxRequests = 4
  NoBucket = NoBucket
  GraphRuns = {"g1", "g2"}
  LoopRuns = {"p1"}
  SceneTools = {"log"}
  NoTool = NoTool
  StepLimit = 2
  MaxSaverFailures = 1
  NoConsultant = NoConsultant
  ReportedRuns = {"t1", "t2"}
  MaxLinks = 3
  MaxResumes = 1
SYMMETRY Symmetry
INVARIANTS OperationsTypeOK EffectsAreAllowed PoliciesAgree GapsAreFailures ConversationAgrees DiagnosisOutcome ReleaseGateStaysShut RateIsExact DecisionIsRecorded ReportsAreFaithful
PROPERTIES AlertsAreSpaced
CHECK_DEADLOCK FALSE

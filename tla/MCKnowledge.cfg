SPECIFICATION KnowledgeSpec
CONSTANTS
  f1 = f1
  w1 = w1
  w2 = w2
  r1 = r1
  r2 = r2
  c1 = c1
  c2 = c2
  c3 = c3
  DocFiles = {f1}
  Namesakes = {f1}
  Contents = {c1, c2, c3}
  NoContent = NoContent
  NoDoc = NoDoc
  DocTasks = {1, 2}
  Indexers = {w1, w2}
  Clients = {r1, r2}
  DocRetries = 2
  Storages = {"local", "minio"}
  Indexes = {"milvus", "pgvector", "degraded"}
  MaxArrivals = 2
  MaxFailures = 1
  Feedback = {1, 2, 3}
  BadcaseFile <- MCBadcaseFile
  BadcaseContent <- MCBadcaseContent
  Likeness <- MCLikeness
  DefaultThreshold = 50
  Thresholds = {30, 50, 60}
  MinClusterSize = 2
  MaxItems = 2
  Hashes = {h1}
  NoHash = NoHash
  Editors = {e1, e2}
  MaxEdits = 4
  MaxDeaths = 1
  WorkspaceIds = {"wa", "wb"}
  SceneIds = {"s1", "s2"}
  SceneRuns = {"x1", "x2", "x3"}
  SceneOf <- MCSceneOf
  Goal <- MCGoal
  Conclusions = {{"disk", "full"}, {"net"}}
  RecallWindow = 2
  RecallLimit = 1
  MaxCorrections = 1
  MaxMemoryErrors = 1
  NoScene = NoScene
  NoRecall = NoRecall
  near = near
  far = far
  Askers = {"wa"}
  Goals = {"goal"}
  AliasQuery <- MCAliasQuery
  SceneQuery <- MCSceneQuery
  TokenQuery <- MCAliasQuery
  NoQuery = NoQuery
  Chunks = {near, far}
  Distance <- MCDistance
  TopK = 2
  TimeToLive = 2
  GateAt = 60
  StoreAt = 80
  SimilarAt = 95
  NoResult = NoResult
  MaxClock = 3
  MaxFailedSearches = 1
SYMMETRY Symmetry
INVARIANTS KnowledgeTypeOK ContentSurvives OneGeneration GoneStaysGone BadcasesHold ItemsHold RecallHolds
CHECK_DEADLOCK FALSE

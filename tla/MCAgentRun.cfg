SPECIFICATION FairSpec
CONSTANTS
  Tools = {t1, t2}
  Modes = {"graph", "linear", "loop"}
  Providers = {"deterministic", "qwen"}
  StepLimits = {1, 2}
  Qualities = {"strong", "weak", "empty", "error", "approval"}
  MaxInterventions = 2
  MaxFaults = 1
  NoTool = NoTool
INVARIANTS TypeOK CompletedIsGrounded OutsideOnlyByOperator InterventionsOnceInOrder
PROPERTIES LifecycleSpec NoCallOnBadEvidence ToolsOnlyWhileRunning RunSettles
CHECK_DEADLOCK FALSE

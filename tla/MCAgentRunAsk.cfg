SPECIFICATION Spec
CONSTANTS
  Tools = {t1}
  Modes = {"loop"}
  Providers = {"deterministic", "qwen"}
  StepLimits = {1, 2}
  Qualities = {"strong", "empty", "error", "approval"}
  MaxInterventions = 0
  MaxFaults = 0
  NoTool = NoTool
INVARIANTS AskApprovalPauses
CHECK_DEADLOCK FALSE

SPECIFICATION Spec
CONSTANTS
  Tools = {t1}
  Modes = {"graph"}
  Providers = {"deterministic"}
  StepLimits = {1, 2}
  Qualities = {"strong", "empty", "error", "approval"}
  MaxInterventions = 1
  MaxFaults = 0
  NoTool = NoTool
INVARIANTS InterventionsAreApplied
CHECK_DEADLOCK FALSE

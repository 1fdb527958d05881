SPECIFICATION Spec
CONSTANTS
  Places <- Strip
  TwinAt = 3
  StepReach = 1
  AnchorReach = 2
  Thin = FALSE
  Rungs = 3
  InsertRungs = 4
  TwinHigher = TRUE
  Transient = FALSE
  Layout = "stacked"
  MaxCalls = 3
INVARIANTS
  PreflightUntouched
  NeverHijacked
  ReleaseTruthful
  OneHandle
VIEW View
CHECK_DEADLOCK FALSE

SPECIFICATION Spec
CONSTANTS
  Places <- Strip
  TwinAt = 3
  StepReach = 1
  AnchorReach = 2
  Thin = FALSE
  Rungs = 3
  InsertRungs = 4
  TwinHigher = TRUE
  Transient = FALSE
  Layout = "stacked"
  MaxCalls = 1
INVARIANTS
  FitProved
VIEW View
CHECK_DEADLOCK FALSE

SPECIFICATION Spec
CONSTANTS
  Rounds = 1
  ResetBudget = 1
  MaxMishaps = 0
  MaxFaults = 1
  Jobs = {1, 2}
  Workers = 2
  MaxEdits = 0
VIEW Seen
INVARIANTS
  QuotaNeverScored
CHECK_DEADLOCK FALSE

SPECIFICATION FairSpec
CONSTANTS
  Episodes = {1, 2}
  Callers = {1, 2}
  Slots = 1
  Attempts = 2
  Calls = 2
  MaxFaults = 3
INVARIANTS
  ScoredClean
PROPERTIES
  EvaluationEnds
CHECK_DEADLOCK FALSE

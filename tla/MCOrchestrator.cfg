SPECIFICATION Spec
CONSTANTS
  s0 = s0
  s1 = s1
  None = None
  Stages <- TwoStages
  Parents <- ChainParents
  StartStage = s0
  Pins <- AutoOrPinned
  Repairs = 0
  SmokeEpisodes = 1
  RuntimeBudget = 2
  IterationBudget = 2
  MaxNative = 1
  MaxCost = 1
  MaxIteration = 2
  MaxFaults = 2
INVARIANTS
  BaselinesMeasured
  StaleBaselinesMarked
  PairedComparison
PROPERTIES
  ChampionEvolves

SPECIFICATION FairSpec
CONSTANTS
  s0 = s0
  s1 = s1
  None = None
  Stages <- TwoStages
  Parents <- ChainParents
  StartStage = s0
  Pins <- AutoOnly
  Repairs = 1
  SmokeEpisodes = 1
  RuntimeBudget = None
  IterationBudget = 2
  MaxNative = 1
  MaxCost = 0
  MaxIteration = 2
  MaxFaults = 2
INVARIANTS
  AcceptedOnly
  OnlyPendingRunsAhead
  PendingIntact
  RepairsCumulative
PROPERTIES
  SessionEnds
  UnstartedPendingResumes

SPECIFICATION Spec
CONSTANTS
  None = None
  s0 = s0
  s1 = s1
  s2 = s2
  Stages <- ThreeStages
  Parents <- JoinParents
  StartStage = s0
  Expected = 1
  MinVisits = 1
  Patience = 2
  MaxIteration = 5
  MaxFaults = 1
  MaxPins = 1
INVARIANTS
  StaleRequested
  BoundedStay
PROPERTIES
  ParentsFirst

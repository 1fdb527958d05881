SPECIFICATION FairSpec
CONSTANTS
  None = None
  Episodes = {e1, e2}
  WorkerCount = 2
  WorkerRetries = 1
  SupervisorDiesAlone = FALSE
  MaxFaults = 2
PROPERTIES
  PauseLeavesWork
  EventuallyPublished
INVARIANTS
  OneReset

SPECIFICATION Spec
CONSTANTS
  None = None
  Episodes = {e1, e2}
  WorkerCount = 2
  WorkerRetries = 1
  SupervisorDiesAlone = TRUE
  MaxFaults = 2
SYMMETRY Interchangeable
INVARIANTS
  SummaryComplete
PROPERTIES
  RecordedKept
  PublicationFinal

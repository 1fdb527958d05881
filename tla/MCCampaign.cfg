SPECIFICATION FairSpec
CONSTANTS
  Rounds = 2
  ResetBudget = 3
  MaxMishaps = 2
  MaxFaults = 1
  Jobs = {1, 2}
  Workers = 2
  MaxEdits = 1
VIEW Seen
INVARIANTS
  SealedIsWhole
  OneAttended
  MeasuredAsRegistered
  ReportMeasured
PROPERTIES
  CampaignEnds
CHECK_DEADLOCK FALSE

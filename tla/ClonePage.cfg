SPECIFICATION FairSpec
CONSTANTS
  JobIds = {j1, j2}
  Pollers = {p1, p2}
  NoJob = NoJob
INVARIANTS
  TypeOK
  NoIntervalLeaks
  TellsTheTruth
PROPERTIES
  PollingSettles

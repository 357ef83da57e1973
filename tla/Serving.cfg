SPECIFICATION FairSpec
CONSTANTS
  Requests = {r1, r2}
  Workspaces = {w1, w2}
  WriteTimeout = 3
  FetchTimeout = 3
  ShutdownTimeout = 1
INVARIANTS
  TypeOK
  DeliveredMeansFetched
PROPERTIES
  HandlerReturns
  NothingIsLeft
  EndsAfterSignal

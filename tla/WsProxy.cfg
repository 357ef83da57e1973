SPECIFICATION FairSpec
CONSTANTS
  PongWait = 6
  PingInterval = 3
  DialTimeout = 1
  RoundTrip = 1
INVARIANTS
  TypeOK
  WellClientStays
PROPERTIES
  LostClientEnds
  TargetCloseEnds
  NothingIsLeft
  SessionAsPromised

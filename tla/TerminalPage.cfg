SPECIFICATION FairSpec
CONSTANTS
  MaxConns = 2
  MaxSockets = 3
  MaxAttempts = 2
INVARIANTS
  TypeOK
  OneThingAwaited
  DisposedStaysClosed
  GivesUpOnRefusalsOnly
  StatusOfCurrent
PROPERTIES
  GivesUp
  ComesBack

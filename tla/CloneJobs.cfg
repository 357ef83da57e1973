SPECIFICATION FairSpec
CONSTANTS
  JobIds = {j1, j2}
  Creators = {c1}
  Pollers = {p1}
  outer = outer
  inner = inner
  Dirs = {outer, inner}
  Under <- MCUnder
  Nobody = Nobody
  TTL = 1
INVARIANTS
  TypeOK
  CompletedCloneStays
  CleanUpHitsItsOwn
PROPERTIES
  JobsAsPromised
  JobEnds

SPECIFICATION Spec
CONSTANTS
  JobIds = {j1}
  Creators = {c1}
  Pollers = {p1}
  outer = outer
  inner = inner
  Dirs = {outer}
  Under <- MCUnder
  Nobody = Nobody
  TTL = 1
INVARIANTS
  FailureCarriesError

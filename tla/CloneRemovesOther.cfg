SPECIFICATION Spec
CONSTANTS
  JobIds = {j1, j2}
  Creators = {}
  Pollers = {}
  outer = outer
  inner = inner
  Dirs = {outer}
  Under <- MCUnder
  Nobody = Nobody
  TTL = 1
PROPERTIES
  OnlyPartialDirsRemoved

SPECIFICATION EnvoySpec
CONSTANTS
  quell = quell
  stamp = stamp
  Threads = {t1}
  Pool <- MCPool
  FallbackNames = {}
  ExplicitNames = {}
  outer = outer
  inner = inner
  Workspaces = {outer, inner}
  Under <- MCUnder
  BasePort = 7681
  MaxPorts = 1
  MaxCreates = 1
  NoName = NoName
  NoWorkspace = NoWorkspace
  JobIds = {j1, j2}
  Creators = {}
  Nobody = Nobody
  TTL = 0
  Ops = {}
  Heads = {main}
  DefaultHead = main
SYMMETRY Symmetry
INVARIANTS
  MountedStays

SPECIFICATION EnvoySpec
CONSTANTS
  quell = quell
  stamp = stamp
  Threads = {t1, t2}
  Pool <- MCPool
  FallbackNames = {}
  ExplicitNames = {}
  outer = outer
  inner = inner
  Workspaces = {outer}
  Under <- MCUnder
  BasePort = 7681
  MaxPorts = 2
  MaxCreates = 2
  NoName = NoName
  NoWorkspace = NoWorkspace
  JobIds = {}
  Creators = {c1}
  Nobody = Nobody
  TTL = 1
  Ops = {o1}
  Heads = {main}
  DefaultHead = main
SYMMETRY Symmetry
INVARIANTS
  EnvoyTypeOK
  InUseBlindSpots

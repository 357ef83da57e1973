SPECIFICATION Spec
CONSTANTS
  quell = quell
  stamp = stamp
  Threads = {t1, t2}
  Pool <- MCPool
  FallbackNames = {stamp}
  ExplicitNames = {}
  Workspaces = {w1}
  BasePort = 7681
  MaxPorts = 2
  MaxCreates = 2
  NoName = NoName
  NoWorkspace = NoWorkspace
INVARIANTS
  OneSleevePerWorkspace

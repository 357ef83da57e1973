SPECIFICATION EnvoySpec
CONSTANTS
  quell = quell
  stamp = stamp
  Threads = {t1}
  Pool <- MCPool
  FallbackNames = {stamp}
  ExplicitNames = {}
  outer = outer
  inner = inner
  Workspaces = {outer}
  Under <- MCUnder
  BasePort = 7681
  MaxPorts = 1
  MaxCreates = 1
  NoName = NoName
  NoWorkspace = NoWorkspace
  JobIds = {}
  Creators = {}
  Nobody = Nobody
  TTL = 1
  Ops = {o1}
  Heads = {main, topic}
  DefaultHead = main
PROPERTIES
  GitLeavesMounted

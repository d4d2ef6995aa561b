SPECIFICATION Spec
CONSTANTS
  p1 = p1
  p2 = p2
  c1 = c1
  f1 = f1
  Paths <- MCPaths
  Clients <- MCClients
  Flushers <- MCFlushers
  MaxStamps = 2
  MaxWindows = 1
  MaxFails = 0
SYMMETRY PathsAreInterchangeable
PROPERTY ObservingChangesNoPage
CHECK_DEADLOCK FALSE

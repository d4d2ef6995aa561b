SPECIFICATION Spec
CONSTANTS
  p1 = p1
  p2 = p2
  c1 = c1
  f1 = f1
  Paths <- MCPaths
  Clients <- MCClients
  Flushers <- MCFlushers
  MaxStamps = 3
  MaxWindows = 1
  MaxFails = 1
SYMMETRY PathsAreInterchangeable
INVARIANTS
  TypeOK
  IndexAgrees
  CommittedOrOwed
PROPERTY NoLostUpdate
CHECK_DEADLOCK FALSE

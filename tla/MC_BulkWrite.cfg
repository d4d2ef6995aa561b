SPECIFICATION Spec
CONSTANTS
  Paths = {p1, p2}
  Workers = {w1, w2}
  QueueCap = 2
  MaxFails = 1
  AsyncModes = {TRUE, FALSE}
  MaxStamps = 2
INVARIANTS TypeOK SearchSettles VectorsSettle CloseRunsAll
PROPERTIES BulkIsAtomic QueueDrains
CHECK_DEADLOCK FALSE

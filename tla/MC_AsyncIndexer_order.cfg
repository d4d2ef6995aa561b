SPECIFICATION Spec
CONSTANTS
  Paths = {p1, p2}
  Waiters = {w1}
  PendingCap = 1
  BatchMax = 2
  MaxWrites = 3
  MaxFails = 0
  ResyncAtStart = FALSE
INVARIANT IndexCatchesUp
CHECK_DEADLOCK FALSE

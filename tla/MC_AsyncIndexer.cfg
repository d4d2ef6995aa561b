SPECIFICATION Spec
CONSTANTS
  Paths = {p1}
  Waiters = {w1}
  PendingCap = 1
  BatchMax = 2
  MaxWrites = 2
  MaxFails = 1
  ResyncAtStart = TRUE
INVARIANTS TypeOK FlushCoversEarlierWrites CloseProcessesAll NeverStale ResyncReconciles
PROPERTIES ChangesAreProcessed FlushIsAnswered
CHECK_DEADLOCK FALSE

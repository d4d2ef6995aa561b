SPECIFICATION Spec
CONSTANTS
  Paths = {p1, p2}
  Actors = {kiwi, alice}
  DefaultActor = kiwi
  QueueCap = 1
  BatchMax = 2
  MaxWrites = 2
  MaxFails = 1
  MaxEnds = 1
INVARIANTS TypeOK AckedIsCarried NeverMixesAuthors SyncLandsAfterQueued
PROPERTIES AckedIsCommitted CloseReturns CallReturns
CHECK_DEADLOCK FALSE

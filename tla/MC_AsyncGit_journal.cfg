SPECIFICATION Spec
CONSTANTS
  Paths = {p1, p2}
  Actors = {kiwi, alice}
  DefaultActor = kiwi
  QueueCap = 1
  BatchMax = 2
  MaxWrites = 2
  MaxFails = 0
  MaxEnds = 0
INVARIANT JournalCoversQueue
CHECK_DEADLOCK FALSE

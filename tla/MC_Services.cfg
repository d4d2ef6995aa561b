SPECIFICATION MCSpec
CONSTANTS
  Agents = {a1, a2}
  Pages = {g1, g2}
  Paths = {p1, p2, p3}
  NoOne = NoOne
  Nowhere = Nowhere
  Durations = {1}
  MaxTime = 2
  MaxMoves = 1
  Managers = {m1, m2}
  Drafts = {d1}
  Writes = {w1, w2}
  MaxActive = 1
  MaxTrouble = 1
  Hooks = {h1, h2}
  Events = {e1}
  Posters = {v1, v2}
  JobsCap = 1
  MaxRetries = 2
  Callers = {c1, c2, c3}
  MaxOwn = 2
  MaxRestarts = 1
  k1 = k1
  k2 = k2
  Cards = {k1, k2}
  Movers = {v1, v2}
  Workflows = {"tasks"}
  CardStates <- MCStates
  Boards <- MCBoards
  Contents <- MCContents
  MaxChanges = 2
INVARIANTS TypesOK ExclusiveLease OpenDraftsKeepWork AttemptsFollowOneAnother NumbersOnce
PROPERTIES ClaimsMoveAtOnce MergeKeepsAcked DeliveriesSettle MovesFollowBoard StartedIsUnblocked
CHECK_DEADLOCK FALSE

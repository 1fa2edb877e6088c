\* Several clients, failing statements, equal timestamps, kills.
SPECIFICATION ViewSpec
CONSTANTS
  a = a
  b = b
  c = c
  Edit = {a, b, c}
  OPERATION_QUEUE_SIZE = 2
  Views <- EmptyView
  ClockSteps = {0, 1}
  DbMayFail = TRUE
  MayCrash = TRUE
  MaxTime = 1
  NoCache = NoCache
SYMMETRY Symmetry
INVARIANTS BoardInv CacheCoherent NoDuplicates
PROPERTIES LossBounded NothingLost

\* One editor at a time: the room implements the plain board.
SPECIFICATION EffectiveSpec
CONSTANTS
  a = a
  b = b
  c = c
  Edit = {a, b, c}
  OPERATION_QUEUE_SIZE = 3
  Views <- TwoViews
  ClockSteps = {1}
  DbMayFail = FALSE
  MayCrash = FALSE
  MaxTime = 6
  NoCache = NoCache
PROPERTY ImplementsSharedBoard

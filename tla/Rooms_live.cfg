SPECIFICATION FairSpec
CONSTANTS
  Board = {b1}
  Conn = {c1}
  Task = {t1, t2}
  Edit = {}
  Deleter = {d1, d2}
  RightKey = {d1}
  MayPanic = TRUE
  MayStop = FALSE
  MayFail = TRUE
  CONNECTION_POOL_SIZE = 2
  None = None
  cleaner = cleaner
PROPERTIES CleanupEnds RequestsEnd

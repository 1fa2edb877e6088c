SPECIFICATION Spec
CONSTANTS
  Board = {b1}
  Conn = {c1}
  Task = {t1, t2}
  Edit = {e1}
  Deleter = {}
  RightKey = {}
  MayPanic = FALSE
  MayStop = TRUE
  MayFail = FALSE
  CONNECTION_POOL_SIZE = 2
  None = None
  cleaner = cleaner
PROPERTY ShutdownSaves

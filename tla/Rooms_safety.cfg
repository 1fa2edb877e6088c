SPECIFICATION Spec
CONSTANTS
  Board = {b1}
  Conn = {c1, c2}
  Task = {t1, t2}
  Edit = {e1, e2}
  Deleter = {d1, d2}
  RightKey = {d1}
  MayPanic = TRUE
  MayStop = TRUE
  MayFail = TRUE
  CONNECTION_POOL_SIZE = 2
  None = None
  cleaner = cleaner
SYMMETRY Symmetry
INVARIANTS RoomsInv RegistryLive
PROPERTIES CleanupKeepsUsed LossExplained

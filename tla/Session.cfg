SPECIFICATION Spec
CONSTANTS
  p1 = p1
  p2 = p2
  Page = {p1, p2}
  Tabs = {TRUE, FALSE}
  MaxToken = 2
  MaxAsks = 1
  MaxOdd = 0
SYMMETRY Alike
INVARIANTS ViewerCannotDraw EditorAuthed LinkCurrent
PROPERTIES LocalBoardSafe OwnerKeySafe
CHECK_DEADLOCK FALSE

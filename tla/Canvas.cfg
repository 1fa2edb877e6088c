SPECIFICATION Spec
CONSTANTS
  pen = pen
  rub = rub
  Shape = {pen, rub}
  Eraser = {rub}
  None = None
  MaxEdits = 3
  MaxJobs = 1
  MaxOdd = 1
INVARIANTS CanvasShowsHistory RedoApplies SelectionShown NoStrayEraser RoomFollows
CHECK_DEADLOCK FALSE

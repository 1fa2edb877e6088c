\* One editor, one viewer who comes and goes.
SPECIFICATION Spec
CONSTANTS
  a = a
  b = b
  r = r
  Edit = {a, b, r}
  Adds = {a, b}
  Removes = {r}
  Target <- EraseA
  Client = {c1, c2}
  Editor = {c1}
  Lossy = {c2}
  MaxInFlight = 2
  MaxCommands = 3
  None = None
INVARIANTS TypeOK NothingMissing Converged CanvasShowsHistory

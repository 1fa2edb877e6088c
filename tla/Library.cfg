SPECIFICATION Spec
CONSTANTS
  b1 = b1
  b2 = b2
  b3 = b3
  f1 = f1
  f2 = f2
  Board = {b1, b2, b3}
  Folder = {f1, f2}
  NoFolder = NoFolder
  Size = 1
  MaxPage = 2
  MaxAsks = 2
  MaxVisits = 2
  Starts <- Cases
  MaxOdd = 0
INVARIANTS FoldersAsSaved ListShown PagesCover
CHECK_DEADLOCK FALSE

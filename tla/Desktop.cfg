SPECIFICATION FairSpec
CONSTANTS
  s1 = s1
  lesson = lesson
  pack = pack
  scan = scan
  Stroke = {s1}
  File = {lesson, pack, scan}
  Kind <- MCKind
  Null = Null
  Undefined = Undefined
  Garbage = Garbage
  MaxSaves = 1
  MaxOdd = 0
PROPERTIES AskedFirst PagesKept CloseUnblocked ProgressEnds
CHECK_DEADLOCK FALSE

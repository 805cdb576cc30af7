SPECIFICATION Spec
CONSTANTS
  MaxStarts = 1
  Pids = {p1, p2}
  Mortal = {p1}
  MayReuse = TRUE
  MaySignal = FALSE
  MayCrash = FALSE
  MayRecreate = FALSE
  QCap = 2
  Ops <- OpsFew
  Catalogs = {c1, c2}
  Empty = Empty
  Titles = {t1}
  TrackNos = {n1}
  Texts = {x1}
  Patterns <- MCPatterns
  Occurs <- MCOccurs
  TooLong = {}
  Absent = Absent
  None = None
  c1 = c1  c2 = c2  t1 = t1  n1 = n1  x1 = x1
  any = any  p1 = p1  p2 = p2
CHECK_DEADLOCK FALSE
PROPERTIES OwnAnswers

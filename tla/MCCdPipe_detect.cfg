SPECIFICATION Spec
CONSTANTS
  MaxStarts = 1
  Pids = {p1, p2, p3}
  Mortal = {}
  MaySignal = FALSE
  MayRecreate = FALSE
  CliCap = 1
  Ops <- OpsFew
  Catalogs = {c1}
  Titles = {t1}
  TrackNos = {n1}
  Texts = {x1}
  Patterns <- MCPatterns
  Occurs <- MCOccurs
  TooLong = {long}
  Empty = Empty
  Absent = Absent
  None = None
  c1 = c1  c2 = c2  t1 = t1  n1 = n1  x1 = x1
  any = any  long = long  p1 = p1  p2 = p2  p3 = p3
CHECK_DEADLOCK FALSE
INVARIANTS ClientsDetectTheEnd

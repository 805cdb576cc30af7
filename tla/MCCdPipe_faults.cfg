SPECIFICATION Spec
CONSTANTS
  MaxStarts = 2
  Pids = {p1, p2}
  Mortal = {p1}
  MaySignal = TRUE
  MayRecreate = TRUE
  CliCap = 1
  Ops <- OpsSearch
  Catalogs = {c1, c2}
  Titles = {t1}
  TrackNos = {n1}
  Texts = {x1}
  Patterns <- MCPatterns
  Occurs <- MCOccurs
  TooLong = {long}
  Empty = Empty
  Absent = Absent
  None = None
  c1 = c1  c2 = c2  t1 = t1  n1 = n1  x1 = x1
  any = any  long = long  p1 = p1  p2 = p2  p3 = p3
CHECK_DEADLOCK FALSE
INVARIANTS IInv KilledByDeadCall
PROPERTIES ServiceSpec

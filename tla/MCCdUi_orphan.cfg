SPECIFICATION UiSpec
CONSTANTS
  Users = {u1}
  Catalogs = {c1}
  MaxTrack = 2
  MaxMatching = 3
  MayDie = FALSE
  TrackNos <- MCTrackNos
  Titles = {t1}
  Texts = {x1}
  Patterns <- MCPatterns
  Occurs <- MCOccurs
  TooLong = {}
  AnyText = any
  Empty = Empty
  Absent = Absent
  c1 = c1  c2 = c2  some = some  u1 = u1  u2 = u2
CHECK_DEADLOCK FALSE
INVARIANTS NoOrphanTracks

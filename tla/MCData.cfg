SPECIFICATION DataSpec
CONSTANTS
  r1 = r1
  r2 = r2
  Buffers = {r1, r2}
  Bytes = {a, b}
  Junk = Junk
  MaxCount = 3
  Capacity <- MCCapacity
  RINGBUF_SIZE = 37
  Cells <- MCCells
  Lists = {l1, l2}
  ListData = {1, 2}
  Positions <- MCPositions
  NULL = NULL
  Things = {a, b}
  capacity = 3
  RING_SLOTS = 3
  BlockLen = 2
  MaxDigit = 2
  MaxNumber = 4
  MaxDepth = 2
  CatalogNos = {"1", "12"}
  IsPrefixOfCat <- MCPrefixes
  CdTitles = {"a"}
  Searches <- MCSearches
  MaxTitles = 2
  MaxTracks = 2
  BOXED_LINES = 0
  SqlUsers = {su}
  Artists = {"Mahler"}
  AppTestArtist = "Mahler"
  NumTracks = 2
  MAX_CD_RESULT = 1
  MaxIds = 2
  MayFail = TRUE
  Pids = {"p1", "p2", "p3"}
  Listing <- MCListing
  PageCounts = {3, 9}
  PageSize = 4096
  IntSize = 65536
  FirstSize = 2
  Names = {"a1", "a2"}
  TextsSought <- MCTexts
  LastTrack = 2
  Users = {u1, u2}
  Catalogs = {c1, c2}
  MaxTrack = 2
  MaxMatching = 5
  MayDie = TRUE
  TrackNos <- MCTrackNos
  Titles = {t1}
  Texts = {x1}
  Patterns <- MCPatterns
  Occurs <- MCOccurs
  TooLong = {}
  AnyText = any
  Empty = Empty
  Absent = Absent
  c1 = c1  c2 = c2  some = some  u1 = u1  u2 = u2
  SigThreads = {"t1", "t2"}
  Signals = {"s1", "s2"}
  Receivers = {"o1", "o2"}
  Slots = {"f1", "f2"}
  MaxConnections = 2
CHECK_DEADLOCK FALSE
INVARIANTS
  RingsInv TestsPass EveryCellInOneList CalculatorInv CursesInv SqlInv PagesInv LocalInv
  UiInv SigInv
PROPERTIES
  FifoSpec ListIsSequence Ring3IsQueue DeleteIsComplete

SPECIFICATION ConcurrentSpec
CONSTANTS
  Workers = {w1, w2}
  Enqueuers = {e1, e2}
  Jobs = {j1, j2, j3}
  Drainers = {d1, d2, d3}
  Chain <- MCChain
  Setters = {s1, s2}
  MaxSets = 3
  Texts = {x, y}
  MaxTexts = 4
  QueueLen = 2
  Procs = {p1, p2, p3}
  FirstProc = p1
  Rounds = 2
  Accounts = {"a1", "a2", "a3"}
  Opening <- MCOpening
  Amounts = {0, 1, 2, 3}
  Ticks = 3
  Lines = {"x", "y"}
  MaxLines = 3
  NumThreads = 3
  PrintCount = 4
  CharCount = 2
  WhichPrime = {1, 2, 3, 4, 5, 6, 7, 8}
  conn1 = conn1
  conn2 = conn2
  Connections = {conn1, conn2}
  Kinds <- MCKinds
  Cuts = {1, 3}
  BufLen = 4
  Clients = {k1, k2}
  NoClient = NoClient
  Lockers = {l1, l2, l3}
  Tries = 2
  FileBytes = {0, 10, 15, 16, 40}
CHECK_DEADLOCK FALSE
INVARIANTS
  JobInv QueueNotEmptyAfterWait EachJobOnce ShownInOrder SectionIsFreeOrOneInside
  NothingHalfDone EachLineCountedOnce ExamplesInv ServersInv NoLostWakeup LockFileIsOfOne
PROPERTIES
  WorkerFollowsFlag EverybodyEnds ClientsAreServed

SPECIFICATION PagesSpec
CONSTANTS
  Pids = {"p1", "p2", "p3"}
  Listing <- MCListing
  PageCounts = {3}
  PageSize = 4096
  IntSize = 65536
  FirstSize = 2
CHECK_DEADLOCK FALSE
INVARIANTS FreesWhatItAllocated

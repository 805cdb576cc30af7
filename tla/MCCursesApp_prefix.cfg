SPECIFICATION CursesSpec
CONSTANTS
  CatalogNos = {"1", "12"}
  IsPrefixOfCat <- MCPrefixes
  CdTitles = {"a"}
  Searches <- MCSearches
  MaxTitles = 2
  MaxTracks = 2
  BOXED_LINES = 0
CHECK_DEADLOCK FALSE
INVARIANTS RemovesOnlyCurrent

CONSTANTS
  f1 = f1
  f2 = f2
  Files = {f1, f2}
  MaxTick = 3
  MaxFaults = 2
  Faults = {"look", "open", "copy", "chtimes", "rebuild", "crash"}
  Paths <- MCPaths
  Slugs = {"a", "b"}
  Layouts <- MCLayouts
  SourceTree <- MCSourceTree
SPECIFICATION FairSpec
INVARIANTS TypeOK DoneMeansStoreCurrent NothingForgotten CurrentMeansArchived AnalysisTrue
PROPERTIES DeletedSourcesKeepTheirCopy StaleFilesRecover CatchesUp

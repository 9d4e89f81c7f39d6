SPECIFICATION ScanningSpec
CONSTANTS
  p1 = p1
  Proc = {p1}
  Addr = {1, 2}
  Val = {0, 1}
  Writable = {1, 2}
  SnapMax = 1
  Comparison <- SomeComparisons
  Unmapped = Unmapped
  NoProc = NoProc
  NoTask = NoTask
  NoSnapshot = NoSnapshot
  PAGE = 2
  CHUNK = 4
  PAGES = 5
  ItemSizes = {1, 2, 3, 4}
  Hits <- FewHits
  Holes <- AnyHole
INVARIANTS
  ScanningTypeOK
  OneScanAtATime
  NothingOverwritten
  ScanExact
  SnapshotExact
  SoundReport
  CompleteWithoutHoles
  CompleteAroundHoles
PROPERTIES
  EverythingCollected
  Search
  ScanEnds
\* A region is walked once.
CHECK_DEADLOCK FALSE

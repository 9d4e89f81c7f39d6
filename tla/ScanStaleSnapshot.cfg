SPECIFICATION HistorySpec
CONSTANTS
  p1 = p1
  Proc = {p1}
  Addr = {1, 2}
  Val = {0, 1}
  Writable = {1, 2}
  SnapMax = 2
  Comparison <- SomeComparisons
  Unmapped = Unmapped
  NoProc = NoProc
  NoTask = NoTask
  NoSnapshot = NoSnapshot
INVARIANTS
  NormalSearchHasNoSnapshot

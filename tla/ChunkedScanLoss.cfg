SPECIFICATION CkSpec
CONSTANTS
  PAGE = 4
  CHUNK = 8
  PAGES = 4
  ItemSizes = {4}
  Hits <- Everything
  Holes <- AnyHole
INVARIANTS
  NoLossAtHoles
CHECK_DEADLOCK FALSE

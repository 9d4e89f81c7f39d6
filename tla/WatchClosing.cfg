SPECIFICATION WtSpec
CONSTANTS
  Thread = {t1, t2}
  MaxWatches = 1
  MaxAccesses = 2
  NoWatch = NoWatch
INVARIANTS
  ClosingSparesGame
CHECK_DEADLOCK FALSE

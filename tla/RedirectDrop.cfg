SPECIFICATION BackgroundSpec
CONSTANTS
  p1 = p1
  p2 = p2
  fixed = fixed
  pointer = pointer
  Proc <- Procs
  Entry = {pointer}
  Pointer = {pointer}
  WithModule = {p1}
  Val = {0, 1}
  FreezerId = {1, 2}
  MaxHotkeys = 2
  Gone = Gone
  NoProc = NoProc
  NoText = NoText
  Req = {r1, r2}
  MaxStarts = 2
  Cap = 1
  None = None
  c1 = c1
  c2 = c2
  A = A
  B = B
  Conn = {c1, c2}
  Port = {1, 2}
  Target = {c1}
  Server <- ServerOf
  MaxWire = 2
  Nobody = Nobody
  Thread = {t1, t2}
  MaxWatches = 2
  MaxAccesses = 3
  NoWatch = NoWatch
  MaxRequests = 3
  MaxFeeds = 2
  MaxEvents = 2
  MaxFrames = 3
PROPERTIES
  DropEndsConnections
CHECK_DEADLOCK FALSE

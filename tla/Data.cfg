SPECIFICATION DataSpec
CONSTANTS
  p1 = p1
  p2 = p2
  NoProc = NoProc
  Blocked = {p2}
  Proc <- Procs
  Site <- Sites
  MODULE_SIZE = 6
  Cave = {10, 20, 30}
  CAVE_SIZE = 4
  Far = {30}
  Name = {"", "inject", "newmem", "return"}
  Script <- ModuleScripts
  WIDTH = 4
  MANTISSA = 2
  Req = {r1, r2}
  MaxStarts = 2
  Cap = 1
  None = None
  Torn = Torn
  MaxKeys = 3
  Key = {k1, k2}
  MaxConvs = 1
  MaxPkts = 2
  MaxPackets = 3
  MaxCaptures = 2
  NoKey = NoKey
  Region <- Regions
  Static = {0, 1, 2, 3}
  Values = {0, 6, 8}
  MaxAddress = 9
  MaxOffset = 3
  MaxDepth = 3
  MaxResults = 3
  Targets = {2, 9}
  MaxPokes = 2
  Dir = {d1, d2}
  NoDir = NoDir
  MaxRuns = 3
INVARIANTS
  DataTypeOK
  GameSurvives
  EnableApplies
  DisableUndoes
  EditorHoldsItem
  CaStable
  SessionsConsistent
  ChainsAreExact
  InstallIsSound
  ExactWhenRepresentable
  ErrorIsSmall
  MeansWhatIsWritten
  ImportKeepsTable
PROPERTIES
  GameBlocksUntouched
  Interception
\* A match that was dropped is not scanned again, a conversion is over when it has
\* begun, and each of the others may stop.
CHECK_DEADLOCK FALSE

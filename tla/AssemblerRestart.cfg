SPECIFICATION AaSpec
CONSTANTS
  p1 = p1
  p2 = p2
  NoProc = NoProc
  Blocked = {}
  Proc <- Procs
  Site <- Sites
  MODULE_SIZE = 6
  Cave = {10}
  CAVE_SIZE = 4
  Far = {}
  Name = {"", "inject", "newmem", "return"}
  Script <- ReadmeOnly
INVARIANTS
  GameSurvives

SPECIFICATION FzSpec
CONSTANTS
  p1 = p1
  p2 = p2
  fixed = fixed
  pointer = pointer
  Proc <- Procs
  Entry <- Entries
  Pointer = {pointer}
  WithModule = {p1, p2}
  Val = {0}
  FreezerId = {1, 2}
  MaxHotkeys = 1
  Gone = Gone
  NoProc = NoProc
  NoText = NoText
INVARIANTS
  FreezeSurvivesRestart

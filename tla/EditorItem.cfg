SPECIFICATION Spec
CONSTANTS
  Req = {r1, r2}
  MaxStarts = 2
  Cap = 1
  None = None
INVARIANTS
  EditorLoadsNewItem
CHECK_DEADLOCK FALSE

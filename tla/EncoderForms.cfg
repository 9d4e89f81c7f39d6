SPECIFICATION InputsSpec
INVARIANTS
  ListedFormsAreRight
CHECK_DEADLOCK FALSE

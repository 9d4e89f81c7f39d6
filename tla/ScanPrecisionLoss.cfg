SPECIFICATION PrSpec
CONSTANTS
  WIDTH = 5
  MANTISSA = 3
INVARIANTS
  FullPrecision
CHECK_DEADLOCK FALSE

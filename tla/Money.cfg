SPECIFICATION Spec
CONSTANTS
  MaxPennies = 10000
  MaxParts = 3
INVARIANTS
  SplitKeepsTotal
CHECK_DEADLOCK FALSE

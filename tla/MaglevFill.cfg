SPECIFICATION Spec
CONSTANTS
  N = 3
  TableSize = 5
  Weight <- WeightsRounded
INVARIANTS
  TypeOK
  Balanced
CHECK_DEADLOCK FALSE

SPECIFICATION Spec
CONSTANTS
  f1 = f1
  f2 = f2
  w1 = w1
  w2 = w2
  Flows = {f1, f2}
  Workers = {w1, w2}
  Timeout = 4
  Lag = 2
  Horizon = 13
  None = None
SYMMETRY Symmetry
INVARIANTS
  TypeOK
  KeptWhileAwaited
  ReclaimedInTime

SPECIFICATION FairSpec
CONSTANTS
  N = 2
  Checked = {0, 1}
  Workers = {w1}
  k1 = k1
  k2 = k2
  Keys = {k1, k2}
  None = None
  Owner <- MCOwner
PROPERTY Recovers

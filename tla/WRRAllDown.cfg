SPECIFICATION FairSpec
CONSTANTS
  N = 3
  Checked = {0, 1, 2}
  Workers = {w1}
  Keys = {k1}
  None = None
  Weight <- WeightsHeavy
  Epsilon = 1
  One = 1
  Vectors <- MCVectors
  Epsilons = {1, 2, 3, 4}
  UsizeMod = 16
PROPERTY NoneWhenAllDown

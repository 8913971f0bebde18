SPECIFICATION FairSpec
CONSTANTS
  N = 2
  Checked = {0, 1}
  Workers = {w1, w2}
  Keys = {k1}
  None = None
  Weight <- WeightsEven
  Epsilon = 1
  One = 1
  Vectors <- MCVectors
  Epsilons = {1, 2, 3, 4}
  UsizeMod = 8
INVARIANTS
  TypeOK
  NeverOverserved
  StepReachesAll
PROPERTIES
  WeightedShare
  KeepsPromise
  EventualReturn

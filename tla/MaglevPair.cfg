SPECIFICATION FairSpec
CONSTANTS
  N = 2
  Checked = {0, 1}
  Workers = {w1, w2}
  k1 = k1
  k2 = k2
  Keys = {k1, k2}
  None = None
  Owner <- MCOwner
INVARIANT TypeOK
PROPERTIES
  KeepsPromise
  EmptiedOnlyByOutage
  OwnRebuildAnswers
  Settles

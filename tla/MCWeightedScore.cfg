SPECIFICATION Spec
CONSTANTS
  N = 4
  Checked = {}
  Workers = {w1}
  Keys <- HashVectors
  Score <- Scores
  Weight <- MCWeight
  Levels = 8
  NegLn <- MCNegLn
  Unit = 100
  None = None
INVARIANT HeavierGetsMore

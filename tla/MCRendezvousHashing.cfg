SPECIFICATION Spec
CONSTANTS
  N = 3
  Checked = {0, 1, 2}
  Workers = {w1, w2}
  Keys <- MCKeys
  None = None
  Score <- MCScore
  FieldLists <- MCFieldLists
  Sources <- MCSources
  SourcePorts <- MCSourcePorts
  Messages <- MCMessages
  Bounds <- MCBounds
  Addresses <- MCAddresses
INVARIANTS
  TypeOK
  OwnerWhenSteady
  FlowAffinity
  KeyIdentifiesFlow
PROPERTY KeepsPromise

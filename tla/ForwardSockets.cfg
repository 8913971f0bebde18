SPECIFICATION FairSpec
CONSTANTS
  c1 = c1
  c2 = c2
  Clients = {c1, c2}
  Backends = {b1, b2}
  Raw = {b2}
  Workers = {w1, w2}
  Ports = {1, 2}
  Requests = {1, 2, 3, 4}
  Empty = {4}
  ClientOf <- MCClientOf
  None = None
INVARIANTS
  TypeOK
  OneSocketPerFlow
  SocketsNotShared
  NoCrossClient
  PassedOnce
PROPERTY EveryPacketMirrored
CHECK_DEADLOCK FALSE

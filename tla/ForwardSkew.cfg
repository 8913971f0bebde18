SPECIFICATION Spec
CONSTANTS
  c1 = c1
  c2 = c2
  Clients = {c1, c2}
  Backends = {b1}
  Raw = {}
  Workers = {w1}
  Ports = {1, 2}
  Requests = {1, 2}
  Empty = {}
  ClientOf <- MCClientOf
  None = None
INVARIANT AnswersItsRequest
CHECK_DEADLOCK FALSE

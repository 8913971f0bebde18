SPECIFICATION Spec
CONSTANTS
  Clients <- MCClients
  Configured <- MCConfigured
  None = None
  Payloads <- MCPayloads
  Ports <- MCPorts
  TargetHost <- MCTarget
INVARIANTS
  TypeOK
  NeverMismatched
  AsDocumented
  ChecksumsVerify
CHECK_DEADLOCK FALSE

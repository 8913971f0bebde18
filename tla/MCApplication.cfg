SPECIFICATION AppFairSpec
CONSTANTS
  Configurations <- MCConfigurations
  Cpus = 2
  Backends = {b1}
  Answers = {success, timeout}
  Healthy = {success}
  None = None
INVARIANTS
  AppTypeOK
  GaugeAgrees
  NobodyOrphaned
  ReadyBeforeTraffic
PROPERTIES
  FlagFollows
  TasksStop
  ExitCompletes
CHECK_DEADLOCK FALSE

SPECIFICATION RunFairSpec
CONSTANTS
  Server = Server
  Client = Client
  Nodes <- MCNodes
  BackendConfigs <- MCConfigs
  MaxFaults = 1
  Iters = 2
  MaxGids = 4
  MaxNics = 2
  MaxBus = 2
  PageBytes = 4096
  SizesChecked <- MCSizes
  SgesChecked = {0, 1, 2, 5}
  InlineChecked = {0, 1, 16, 17, 32, 96}
INVARIANTS
  QpBacked
  HeldLive
  SyncsOrder
  NoLateWrite
  ShutdownReleases
PROPERTY BothEnd
CHECK_DEADLOCK FALSE

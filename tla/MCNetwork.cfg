SPECIFICATION Spec
CONSTANTS
  Node <- MCNode
  Routes <- MCRoutes
  Consumers <- MCConsumers
  Times = {1}
  LastChunk = 2
  Ports = {0, 1}
  InitialWindow = 1
  Limit = 4
  CacheSize = 1
  MaxDownloads = 2
  MaxMishaps = 2
INVARIANTS FlowBalance  DownloadsAccounted
 
CHECK_DEADLOCK FALSE

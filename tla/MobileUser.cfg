SPECIFICATION FairSpec
CONSTANTS
  NoServer = NoServer
  s1 = s1
  s2 = s2
  Servers <- TwoServers
  Placements = {s1}
  max_fail = 20
  CountsFailures = FALSE
  DeployFails = TRUE
  MaxDiscoveries = 2
  MaxMoves = 1
  MaxHandovers = 2
INVARIANTS
  TypeOK
PROPERTIES
  Served
  Reconnects
CHECK_DEADLOCK FALSE

SPECIFICATION Spec
CONSTANTS
  NoServer = NoServer
  s1 = s1
  s2 = s2
  Servers <- TwoServers
  Placements = {s1}
  max_fail = 20
  CountsFailures = FALSE
  DeployFails = FALSE
  MaxDiscoveries = 1
  MaxMoves = 1
  MaxHandovers = 0
INVARIANTS
  StreamSurvives
CHECK_DEADLOCK FALSE

SPECIFICATION FairSpec
CONSTANTS
  u1 = u1
  u2 = u2
  a1 = a1
  a2 = a2
  s1 = s1
  s2 = s2
  b1 = b1
  b2 = b2
  Users <- TwoUsers
  Apps <- TwoApps
  Servers <- TwoServers
  Stations <- TwoStations
  NoServer = NoServer
  NoStation = NoStation
  NoApp = NoApp
  Setups <- EverySetup
INVARIANTS
  TypeOK
  OneMigration
  StateAgrees
  HostKnown
  MovesFromHost
  Alive
PROPERTIES
  MigrationEnds
CHECK_DEADLOCK FALSE

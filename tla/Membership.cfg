SPECIFICATION FairSpec
CONSTANTS
  NoServer = NoServer
  s1 = s1
  s2 = s2
  u1 = u1
  Servers <- TwoServers
  Users <- OneUser
  Home <- HomeFirst
  MaxStarts = 3
  MaxFaults = 2
  MaxRestarts = 1
  MaxDiscoveries = 1
  MaxEvents = 4
INVARIANTS
  TypeOK
  LiveRegistered
  NoDeadRow
  HostRuns
PROPERTIES
  RegistersAgain
CHECK_DEADLOCK FALSE

SPECIFICATION Spec
CONSTANTS
  NoServer = NoServer
  s1 = s1
  s2 = s2
  u1 = u1
  Servers <- TwoServers
  Users <- OneUser
  Home <- HomeNone
  MaxStarts = 2
  MaxFaults = 1
  MaxRestarts = 0
  MaxDiscoveries = 1
  MaxEvents = 6
INVARIANTS
  SubscriptionsRenewed
CHECK_DEADLOCK FALSE

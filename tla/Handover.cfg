SPECIFICATION FairSpec
CONSTANTS
  u1 = u1
  u2 = u2
  left = left
  mid = mid
  right = right
  e1 = e1
  e2 = e2
  Places <- Street
  NoPlace = NoPlace
  NextTo <- Neighbours
  Stations <- Three
  Heard = 0
  Limit = 2
  Threshold = 3
  Aligned <- NotOnLine
  Servers <- TwoServers
  NoServer = NoServer
  ServerOf <- OwnServers
  Start <- AtMiddle
  Users <- OneUser
  Level <- Wide
  Planners <- BothPlanners
  Registered <- OnlyLeft
  Deploying = TRUE
  MaxMoves = 2
  MaxOnTheWay = 2
INVARIANTS
  TypeOK
  StationAgrees
PROPERTIES
  LeavesWeak
  Settles
CHECK_DEADLOCK FALSE

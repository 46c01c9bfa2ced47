SPECIFICATION Spec
CONSTANTS
  u1 = u1
  u2 = u2
  left = left
  mid = mid
  right = right
  e1 = e1
  e2 = e2
  Places <- Street
  NoPlace = NoPlace
  NextTo <- Neighbours
  Stations <- Two
  Heard = 0
  Limit = 2
  Threshold = 3
  Aligned <- NotOnLine
  Servers <- TwoServers
  NoServer = NoServer
  ServerOf <- TwoOwnServers
  Start <- GoodAndBad
  Users <- TwoUsers
  Level <- BothGood
  Planners <- NearestPlanner
  Registered <- Two
  Deploying = FALSE
  MaxMoves = 1
  MaxOnTheWay = 2
PROPERTIES
  LeavesWeak
CHECK_DEADLOCK FALSE

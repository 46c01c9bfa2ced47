SPECIFICATION FairSpec
CONSTANTS
  u1 = u1
  u2 = u2
  left = left
  mid = mid
  right = right
  e1 = e1
  e2 = e2
  Places <- Street
  NoPlace = NoPlace
  NextTo <- Neighbours
  Stations <- Two
  Heard = 0
  Limit = 2
  Threshold = 3
  Aligned <- NotOnLine
  Servers <- TwoServers
  NoServer = NoServer
  ServerOf <- TwoOwnServers
  Start <- AtStart
  Users <- OneUser
  Level <- Pair
  Planners <- NearestPlanner
  Registered <- Two
  Deploying = TRUE
  MaxMoves = 3
  MaxOnTheWay = 2
PROPERTIES
  Follows
CHECK_DEADLOCK FALSE

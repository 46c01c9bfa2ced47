SPECIFICATION FairSpec
CONSTANTS
  a = a
  b = b
  c = c
  Services <- ThreeServices
  MaxChanges = 3
  MaxUpdates = 2
  MaxQueue = 2
PROPERTIES
  RoundComplete
  Reported
  Latest
CHECK_DEADLOCK FALSE

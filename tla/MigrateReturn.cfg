SPECIFICATION FairSpec
CONSTANTS
  e1 = e1
  e2 = e2
  e3 = e3
  s1 = s1
  s2 = s2
  Edges <- ThreeEdges
  Services <- OneService
  NoEdge = NoEdge
  NoService = NoService
  Optimized = TRUE
  Faults <- NoFaults
  FirstMeasure = 1
  MaxOrders = 3
INVARIANTS
  FirstMoveKeepsState
PROPERTIES
  OrdersComplete
CHECK_DEADLOCK FALSE

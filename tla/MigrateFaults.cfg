SPECIFICATION Spec
CONSTANTS
  e1 = e1
  e2 = e2
  e3 = e3
  s1 = s1
  s2 = s2
  Edges <- TwoEdges
  Services <- OneService
  NoEdge = NoEdge
  NoService = NoService
  Optimized = TRUE
  Faults <- AllFaults
  FirstMeasure = 1
  MaxOrders = 3
SYMMETRY EdgeSymmetry
INVARIANTS
  TypeOK
  AtMostOneRunning
  HostRuns
  HostLists
PROPERTIES
  PlacementSpec
CHECK_DEADLOCK FALSE

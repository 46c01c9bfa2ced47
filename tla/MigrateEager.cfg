SPECIFICATION Spec
CONSTANTS
  e1 = e1
  e2 = e2
  e3 = e3
  s1 = s1
  s2 = s2
  Edges <- TwoEdges
  Services <- TwoServices
  NoEdge = NoEdge
  NoService = NoService
  Optimized = FALSE
  Faults <- NoFaults
  FirstMeasure = 1
  MaxOrders = 3
SYMMETRY Symmetries
VIEW EagerView
INVARIANTS
  DestReady
  SendsOnOpenSocket
  NeverForgotten
CHECK_DEADLOCK FALSE

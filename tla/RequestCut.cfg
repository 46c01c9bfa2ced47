SPECIFICATION Spec
CONSTANTS
  HeaderSize = 3
  RequestSize = 2
  AnswerSize = 2
  RecvSize = 4
  Window = 1
  Cut = TRUE
  MaxRequests = 4
  MaxConnections = 1
INVARIANTS
  InStep
CHECK_DEADLOCK FALSE

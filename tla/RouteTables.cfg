SPECIFICATION Spec
CONSTANTS
  u1 = u1
  u2 = u2
  d1 = d1
  d2 = d2
  slow = slow
  fast = fast
  None = None
  Dests <- TwoDests
  TableIds <- Numbers
  Speeds <- TwoSpeeds
  Users <- TwoUsers
  Marks <- Numbers
  Interrupts = 1
  MaxCrashes = 1
  MaxFilters = 2
INVARIANTS
  TypeOK
  Routed
  Shaped
  Clean
CHECK_DEADLOCK FALSE

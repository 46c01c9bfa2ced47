SPECIFICATION Spec
CONSTANTS
  u1 = u1
  u2 = u2
  d1 = d1
  d2 = d2
  slow = slow
  fast = fast
  None = None
  Dests <- TwoDests
  TableIds <- Numbers
  Speeds <- TwoSpeeds
  Users <- TwoUsers
  Marks <- Numbers
  Interrupts = 0
  MaxCrashes = 0
  MaxFilters = 1
INVARIANTS
  MarksUnique
CHECK_DEADLOCK FALSE

SPECIFICATION Spec
CONSTANTS
  u1 = u1
  u2 = u2
  d1 = d1
  d2 = d2
  slow = slow
  fast = fast
  None = None
  Dests <- TwoDests
  TableIds <- Numbers
  Speeds <- TwoSpeeds
  Users <- OneUser
  Marks <- Numbers
  Interrupts = 0
  MaxCrashes = 1
  MaxFilters = 1
INVARIANTS
  StartsAgain
CHECK_DEADLOCK FALSE

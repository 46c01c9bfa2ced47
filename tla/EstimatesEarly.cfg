SPECIFICATION Spec
CONSTANTS
  s1 = s1
  s2 = s2
  s3 = s3
  Servers <- ThreeServers
  Setups <- Early
  MaxMigrations = 1
  MaxReturns = 0
  MaxConnects = 3
SYMMETRY Symmetry
INVARIANTS
  TooSoonWaits
CHECK_DEADLOCK FALSE

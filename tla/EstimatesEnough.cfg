SPECIFICATION Spec
CONSTANTS
  s1 = s1
  s2 = s2
  s3 = s3
  Servers <- ThreeServers
  Setups <- Calm
  MaxMigrations = 2
  MaxReturns = 0
  MaxConnects = 3
SYMMETRY Symmetry
INVARIANTS
  EnoughIsEnough
CHECK_DEADLOCK FALSE

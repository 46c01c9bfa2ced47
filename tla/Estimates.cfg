SPECIFICATION Spec
CONSTANTS
  s1 = s1
  s2 = s2
  s3 = s3
  Servers <- ThreeServers
  Setups <- EverySetup
  MaxMigrations = 2
  MaxReturns = 2
  MaxConnects = 3
SYMMETRY Symmetry
INVARIANTS
  TypeOK
  Alive
  RightRestore
PROPERTIES
  RestoreKept
CHECK_DEADLOCK FALSE

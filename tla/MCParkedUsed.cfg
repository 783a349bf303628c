SPECIFICATION Spec
CONSTANTS
  MaxId = 2
  PoolSize = 1
  MaxFaults = 0
  MaxCrashes = 0
INVARIANTS
  ParkedIsFresh

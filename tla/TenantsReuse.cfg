SPECIFICATION Spec
CONSTANTS
  Tenants = {t1}
  NoTenant = NoTenant
  Instances = {i1, i2}
  DeletionDelay = 1
  Cleaners = 1
  MongoCleaner = 1
  MaxRetries = 0
  Recreate = TRUE
  MaxEvents = 3
  MaxFaults = 0
  MaxCrashes = 0
CHECK_DEADLOCK FALSE
SYMMETRY Symmetry
INVARIANTS
  ActiveIsOperational

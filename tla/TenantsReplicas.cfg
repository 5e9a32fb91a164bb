SPECIFICATION FairSpec
CONSTANTS
  Tenants = {t1}
  NoTenant = NoTenant
  Instances = {i1, i2}
  DeletionDelay = 1
  Cleaners = 2
  MongoCleaner = 1
  MaxRetries = 1
  Recreate = FALSE
  MaxEvents = 2
  MaxFaults = 2
  MaxCrashes = 1
CHECK_DEADLOCK FALSE
INVARIANTS
  TypeOK
  LiveTenantServed
PROPERTIES
  KeepsRegistry
  CreatedEventuallyServed
  StartsRepair

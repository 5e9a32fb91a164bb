SPECIFICATION FairSpec
CONSTANTS
  t1 = t1
  t2 = t2
  Tenants <- MCTenants
  NoTenant = NoTenant
  Systems <- MCSystems
  ConsumerName <- MCName
  Callers <- MCCallers
  Members = {c1, c2}
  MaxWrites = 2
  MaxFaults = 2
  MaxUpsets = 1
CHECK_DEADLOCK FALSE
INVARIANTS
  TypeOK
  RightTenant
  NeverAhead
  DeadLettersExplained
  SchemaWhereWritten
PROPERTIES
  RightView
  ViewAdvances
  Converges

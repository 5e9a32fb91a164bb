SPECIFICATION FairSpec
CONSTANTS
  Calls = {r1, r2}
  Unset = Unset
  ClientConfigs <- MCClientConfigs
  ServerConfigs <- MCServerConfigs
  DefaultIdle = 2
  DefaultLifetime = 1
  DefaultConcurrent = 1
  RetriesCap = 1
  TransportIdle = 2
  ConcurrentLimit = 2
  TimeoutLimit = 1
  MaxCrashes = 1
  MaxAgings = 1
CHECK_DEADLOCK FALSE
INVARIANTS
  TypeOK
  SlotsConserved
  FailureHasCause
PROPERTIES
  TruthfulResults
  EventuallyEnds

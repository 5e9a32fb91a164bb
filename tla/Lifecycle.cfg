SPECIFICATION FairSpec
CONSTANTS
  Hooks = 7
  Components <- MCComponents
  Server = 5
  AwaitReady = {3}
  AwaitTraffic = {4, 6}
  ShutdownOnError = {4}
  Environments <- MCEnvironments
  Requests = {r1, r2}
  MaxFaults = 2
CHECK_DEADLOCK FALSE
INVARIANTS
  TypeOK
  GatesHold
PROPERTIES
  KeepsPromise
  GatedWorkersRun
  StopCompletes
  FatalErrorStops

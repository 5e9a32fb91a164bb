SPECIFICATION Spec
CONSTANTS
  Hooks = 7
  Components <- MCComponents
  Server = 5
  AwaitReady = {3}
  AwaitTraffic = {4, 6}
  ShutdownOnError = {4}
  Environments <- MCPod
  Requests = {r1}
  MaxFaults = 0
CHECK_DEADLOCK FALSE
INVARIANTS
  PodAwaitsProbe

SPECIFICATION Spec
CONSTANTS
  Members = {c1, c2}
  NoMember = NoMember
  MaxRetries = 0
  ChannelBufferSize = 1
  MaxPollRecords = 2
  EnableDLQ = TRUE
  ResetPolicies = {"earliest", "latest"}
  MaxRecords = 2
  RevokeBound = 3
  MaxStops = 0
CHECK_DEADLOCK FALSE
SYMMETRY Symmetry
INVARIANTS
  TypeOK
PROPERTIES
  DeliveryPromise

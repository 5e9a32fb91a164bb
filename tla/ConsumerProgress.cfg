SPECIFICATION FairSpec
CONSTANTS
  Members = {c1}
  NoMember = NoMember
  MaxRetries = 1
  ChannelBufferSize = 1
  MaxPollRecords = 2
  EnableDLQ = TRUE
  ResetPolicies = {"earliest"}
  MaxRecords = 2
  RevokeBound = 2
  MaxStops = 2
CHECK_DEADLOCK FALSE
PROPERTIES
  DeliveryPromise
  EventuallySettled
  EventuallyCommitted

SPECIFICATION FairSpec
CONSTANTS
  Messages = {m1}
  Instances = {p1}
  NoMessage = NoMessage
  CreateDelay = 1
  LockLease = 2
  BaseBackoff = 1
  MaxBackoff = 2
  AttemptCap = 1
  EntitiesCap = 1
  ConfirmCap = 1
  BatchSize = 2
  MaxBuffered = 2
  TTLTicks = 0
  MaxCopies = 2
  MaxStops = 2
PROPERTIES
  EventuallySent
  ClientDrains

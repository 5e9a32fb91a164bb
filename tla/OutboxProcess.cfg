SPECIFICATION Spec
CONSTANTS
  Messages = {m1, m2}
  Instances = {p1}
  NoMessage = NoMessage
  CreateDelay = 1
  LockLease = 2
  BaseBackoff = 1
  MaxBackoff = 2
  AttemptCap = 1
  EntitiesCap = 1
  ConfirmCap = 1
  BatchSize = 2
  MaxBuffered = 1
  TTLTicks = 0
  MaxCopies = 1
  MaxStops = 1
SYMMETRY Symmetry
INVARIANTS
  TypeOK
  SentIsPublished
PROPERTIES
  AtLeastOnceSpec

SPECIFICATION Spec
CONSTANTS
  Messages = {m1}
  Instances = {p1, p2}
  NoMessage = NoMessage
  CreateDelay = 1
  LockLease = 3
  BaseBackoff = 2
  MaxBackoff = 4
  AttemptCap = 1
  EntitiesCap = 1
  ConfirmCap = 1
  BatchSize = 1
  MaxBuffered = 1
  TTLTicks = 5
  MaxCopies = 2
  MaxStops = 1
SYMMETRY Symmetry
INVARIANTS
  DuplicateHasCause
  ReliableDelivery

SPECIFICATION Spec
CONSTANTS
  Clients = {c1, c2}
  Entities = {a, b}
  Views = {v}
  MaxVersion = 2
  MaxEdits = 4
  MaxFaults = 1
CHECK_DEADLOCK FALSE
SYMMETRY Symmetry
INVARIANTS
  TypeOK
  NoLostUpdate
  AllOrNothing
PROPERTIES
  ActsAtomically

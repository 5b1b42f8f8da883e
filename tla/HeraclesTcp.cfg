SPECIFICATION Spec
CONSTANTS
  FifoRoom = 1
  MaxRetry = 2
  MaxRead = 2
  MaxConns = 3
  MaxBytes = 2
  Faults = {}
INVARIANTS
  TypeOK
  NothingIsLost
  OwnEntry
PROPERTIES
  OnlyOwnLink

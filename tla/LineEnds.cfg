SPECIFICATION FairSpec
CONSTANTS
  FifoRoom = 1
  MaxRetry = 1
  MaxRead = 1
  MaxConns = 2
  MaxBytes = 1
  Faults = {}
PROPERTIES
  LineEnds

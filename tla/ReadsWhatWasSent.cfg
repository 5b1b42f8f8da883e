SPECIFICATION Spec
CONSTANTS
  FifoRoom = 1
  MaxRetry = 2
  MaxRead = 2
  MaxConns = 2
  MaxBytes = 2
  Faults = {"notice"}
INVARIANTS
  ReadsWhatWasSent

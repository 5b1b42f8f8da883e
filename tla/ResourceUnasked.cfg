SPECIFICATION Spec
CONSTANTS
  r1 = r1
  NoRsc = NoRsc
  Rsc = {r1}
  Sizes = {0, 2}
  MaxRequests = 2
  MaxExtra = 1
  MaxReads = 2
  HasNtfy = FALSE
  HasDataCb = TRUE
INVARIANTS
  ConnectionHasOwner
PROPERTIES
  TransferIsExclusive

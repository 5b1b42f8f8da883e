SPECIFICATION Spec
CONSTANTS
  BufSize = 16
  PayloadRoom = 12
  MaxItems = 2
  MaxDim = 2
  MaxWidth = 3
INVARIANTS
  TypeOK
  SentIsWhole
  RefusedIsTooLong

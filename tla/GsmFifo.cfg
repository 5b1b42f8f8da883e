SPECIFICATION Spec
CONSTANTS
  Byte = {0, 1}
  FIFO_SIZE = 4
  GetSizes <- MCGetSizes
INVARIANTS
  TypeOK
  FreeSizeIsRoomLeft
PROPERTIES
  ImplementsQueue
  GetTerminates

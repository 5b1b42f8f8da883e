SPECIFICATION FairSpec
CONSTANTS
  CharSigned = TRUE
  Numbers = {0, 7}
  Binaries <- MCBinaries
  ArgumentCids = {0, 1, 2}
  ParamRoom = 2
  MaxParsed = 3
  Blocks = 1
  Slots = 2
  MaxEntries = 3
  MaxMessages = 2
INVARIANTS
  TypeOK
  AcksTell
  AnswersAreTrue
  LostToBroken
  HandlesHold
PROPERTIES
  UpdateSettles

SPECIFICATION Spec
CONSTANTS
  BufferSize = 260
  CharSigned = FALSE
  Requests <- MCRequests
  Replies <- MCReplies
  Filters <- MCFilters
  MaxPacketId = 3
  MaxReplies = 2
  MaxLate = 1
INVARIANTS
  TypeOK
  RequestIsRead
  OpenIsFramed
  PacketsAsSent
  RefusedIsTooLong
  HandlersMatch

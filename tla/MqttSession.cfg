SPECIFICATION Spec
CONSTANTS
  Topics <- MCTopics
  KeepAlive = 3
  AckTimeout = 2
  PingTimeout = 1
  YieldTimeout = 1
  CharSigned = FALSE
  MaxLost = 1
  InboxSize = 2
INVARIANTS
  TypeOK
  SessionAgreed
  PingsInStep
  ErrorDisconnects
  ConnectedIsOpen

SPECIFICATION FairSpec
CONSTANTS
  Topics <- MCOneTopic
  KeepAlive = 3
  AckTimeout = 2
  PingTimeout = 1
  YieldTimeout = 1
  CharSigned = FALSE
  MaxLost = 1
  InboxSize = 1
PROPERTIES
  SilenceIsDetected
  CallsReturn

SPECIFICATION FairSpec
CONSTANTS
  Adapters <- Venues
  Configs <- OnlyBinance
  MaxMsgs = 1
  MaxAttempts = 1
  QueueSize = 1
PROPERTIES
  RotationReconnects

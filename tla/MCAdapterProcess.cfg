SPECIFICATION FairSpec
CONSTANTS
  Adapters <- Venues
  Configs <- OneAdapter
  MaxMsgs = 2
  MaxAttempts = 1
  QueueSize = 1
INVARIANTS
  TypeOK
  CountedBeforeSeen
  ConnectedHasConn
PROPERTIES
  Recovers
  AdapterStops

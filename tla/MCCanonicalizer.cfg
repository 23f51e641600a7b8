SPECIFICATION CanonFairSpec
CONSTANTS
  MaxMsgs = 3
  Submitters = {s1, s2}
  Workers = {w1, w2}
  MinWorkers = 1
  QueueSize = 1
  HighWater = 1
  ScaleStep = 1
  Inputs <- Mixed
INVARIANTS
  TypeOK
  DepthIsQueue
  NoSendOnClosed
  WireIsOwn
PROPERTIES
  IsStage
  PoolStopTerminates
  ShutdownTerminates

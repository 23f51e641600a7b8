SPECIFICATION CanonSpec
CONSTANTS
  MaxMsgs = 2
  Submitters = {s1}
  Workers = {w1, w2}
  MinWorkers = 1
  QueueSize = 1
  HighWater = 1
  ScaleStep = 1
  Inputs <- AllKinds
INVARIANTS
  FallbackIsUnknown

SPECIFICATION StorageSpec
SYMMETRY Symmetry
CONSTANTS
  Modes = {"sync", "batched"}
  MaxMessages = 2
  BufCap = 1
  MaxFaults = 2
  MaxEvents = 3
  Handlers = {h1, h2}
  Async = {a1}
  BatchSize = 2
  MaxStarts = 1
INVARIANTS
  TypeOK
  SyncIsDurable
  StopDrains
  SyncAccountedFor
PROPERTIES
  LosesOnlyToFaults
  IsDurableLog

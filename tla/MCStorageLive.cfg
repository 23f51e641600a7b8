SPECIFICATION StorageFairSpec
CONSTANTS
  Modes = {"sync", "batched"}
  MaxMessages = 3
  BufCap = 2
  MaxFaults = 1
  MaxEvents = 2
  Handlers = {h1}
  Async = {a1}
  BatchSize = 2
  MaxStarts = 1
PROPERTIES
  EventuallyDurable
  StorageStopTerminates

SPECIFICATION StorageFairSpec
CONSTANTS
  Modes = {"sync"}
  MaxMessages = 2
  BufCap = 1
  MaxFaults = 1
  MaxEvents = 1
  Handlers = {h1}
  Async = {a1}
  BatchSize = 2
  MaxStarts = 0
PROPERTIES
  DatabaseCatchesUp

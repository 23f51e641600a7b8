SPECIFICATION PartsSpec
CONSTANTS
  Bodies <- MCBodies
  MaxFrame = 2
  MaxBytes = 10
  MaxRecords = 4
  MaxTears = 2
  Writers = {w1, w2}
  Readers = {r1}
  MaxWrites = 5
  Callers = {c1, c2}
  RateNum = 1
  RateDen = 3
  MaxValidated = 6
  NumProcs = 2
  MaxRetries = 1
  GracefulTimeout = 1
  FlushTimeout = 2
  Handlers = {h1}
  MaxFrames = 1
  MaxCrashes = 2
  Unstable = {1}
  Alone = {1}
  w1 = w1
  w2 = w2
  r1 = r1
  c1 = c1
  c2 = c2
  h1 = h1
INVARIANTS
  RateSparesMessages

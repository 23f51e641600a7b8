SPECIFICATION LinkSpec
CONSTANTS
  MaxConns = 2
  SockBuf = 1
  Producers = {p1}
  MaxMsgs = 3
  QueueSize = 1
  MaxSpool = 2
  MaxCrashes = 0
  MaxDowns = 1
INVARIANTS
  ConnectedMeansConn

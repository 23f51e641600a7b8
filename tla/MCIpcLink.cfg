SPECIFICATION BoxedLinkSpec
CONSTANTS
  MaxConns = 2
  SockBuf = 1
  Producers = {p1}
  MaxMsgs = 4
  QueueSize = 1
  MaxSpool = 2
  MaxCrashes = 1
  MaxDowns = 1
INVARIANTS
  SpoolKeepsUnsent
  ConnInOrder
  OneConnection
  WakeUpPending
  QueueBeforeSpool
  ServerDownIsQuiet
PROPERTIES
  IsOutbox
  SendTerminates
  StopTerminates
  ServerStopTerminates

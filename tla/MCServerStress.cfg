CONSTANTS
  MaxConns = 1
  IdSpace = 3
  Peers = 2
  MaxFd = 1
  SQDepth = 2
  ProxyProtocol = FALSE
  Tls = TRUE
  TimedPhases = {"header", "body", "keepalive"}
  Responses <- AllHandlers
  Faults = {FALSE, TRUE}
  MaxData = 1
  Endless = FALSE
  MaxPieces = 1
  AcceptEnds = TRUE
  LateTimeout = TRUE
  DrainPolls = 1
  Quit = TRUE
SPECIFICATION Spec
INVARIANTS
  TypeOK
  OneTransfer
  SendFlagExact
  NoDescriptorLeak
  PoolConsistent
CHECK_DEADLOCK FALSE

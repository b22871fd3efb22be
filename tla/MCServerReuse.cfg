CONSTANTS
  MaxConns = 1
  IdSpace = 6
  Peers = 3
  MaxFd = 3
  SQDepth = 8
  ProxyProtocol = FALSE
  Tls = FALSE
  TimedPhases = {"header", "body", "keepalive"}
  Responses <- HandlersThatFit
  Faults = {FALSE}
  MaxData = 1
  Endless = TRUE
  MaxPieces = 1
  AcceptEnds = FALSE
  LateTimeout = FALSE
  DrainPolls = 2
  Quit = FALSE
SPECIFICATION FairSpec
INVARIANTS
  DescriptorOwned
  TransfersReachPeer
PROPERTIES
  ConnectionsEnd
  DrainCompletes
CHECK_DEADLOCK FALSE

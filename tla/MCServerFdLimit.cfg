CONSTANTS
  MaxConns = 2
  IdSpace = 6
  Peers = 2
  MaxFd = 1
  SQDepth = 8
  ProxyProtocol = FALSE
  Tls = FALSE
  TimedPhases = {"header", "body", "keepalive"}
  Responses <- HandlersThatFit
  Faults = {FALSE}
  MaxData = 1
  Endless = FALSE
  MaxPieces = 1
  AcceptEnds = TRUE
  LateTimeout = FALSE
  DrainPolls = 2
  Quit = FALSE
SPECIFICATION Spec
INVARIANT DescriptorOwned
CHECK_DEADLOCK FALSE

CONSTANTS
  MaxConns = 1
  IdSpace = 6
  Peers = 1
  MaxFd = 2
  SQDepth = 8
  ProxyProtocol = FALSE
  Tls = FALSE
  TimedPhases = {"header", "body", "keepalive"}
  Responses <- LargeHandlers
  Faults = {FALSE}
  MaxData = 2
  Endless = FALSE
  MaxPieces = 1
  AcceptEnds = TRUE
  LateTimeout = FALSE
  DrainPolls = 2
  Quit = FALSE
SPECIFICATION Spec
INVARIANT NeverStranded
CHECK_DEADLOCK FALSE

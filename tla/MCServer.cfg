CONSTANTS
  MaxConns = 2
  IdSpace = 6
  Peers = 2
  MaxFd = 2
  SQDepth = 8
  ProxyProtocol = TRUE
  Tls = FALSE
  TimedPhases = {"header", "body", "keepalive"}
  Responses <- HandlersThatFit
  Faults = {FALSE}
  MaxData = 2
  Endless = FALSE
  MaxPieces = 2
  AcceptEnds = TRUE
  LateTimeout = FALSE
  DrainPolls = 2
  Quit = FALSE
SPECIFICATION Spec
INVARIANTS
  NeverStranded
  EveryRecvTimed
  BuffersOutliveRequests
  AcceptArmed
  ShutdownLeavesNothing
PROPERTIES
  ResponsesComplete
  NoAcceptAfterShutdown
CHECK_DEADLOCK FALSE

CONSTANTS
  MaxConns = 1
  IdSpace = 6
  Peers = 1
  MaxFd = 2
  SQDepth = 8
  ProxyProtocol = FALSE
  Tls = TRUE
  TimedPhases = {"header", "body", "keepalive"}
  Responses <- HandlersThatFit
  Faults = {FALSE}
  MaxData = 2
  Endless = FALSE
  MaxPieces = 1
  AcceptEnds = TRUE
  LateTimeout = FALSE
  DrainPolls = 2
  Quit = FALSE
SPECIFICATION Spec
PROPERTY HandshakeSendKept
CHECK_DEADLOCK FALSE

SPECIFICATION Spec
CONSTANTS
  HttpRequests = {h1, h2}
  TcpRequests = {p1, p2}
  Conns = {c1, c2}
  MaxQueue = 1
  NumWorkers = 2
  NoConn = NoConn
SYMMETRY Symmetry
CHECK_DEADLOCK FALSE
INVARIANT NoUseOfDestroyedLoop

SPECIFICATION FairSpec
CONSTANTS
  HttpRequests = {h1}
  TcpRequests = {p1, p2}
  Conns = {c1, c2}
  MaxQueue = 1
  NumWorkers = 2
  NoConn = NoConn
CHECK_DEADLOCK FALSE
INVARIANTS
  CountersAddUp
  OneResponsePerConnection
  DropsAreExplained
  BuffersAreLive
  AnswersMatchExecution
PROPERTIES
  HttpIsAnswered
  TcpIsAnswered

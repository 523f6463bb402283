SPECIFICATION FairSpec
CONSTANTS
  Submitters = {s1, s2}
  Workers = {w1, w2}
  Tasks = {t1, t2, t3, t4}
  MaxQueue = 2
  None = None
CHECK_DEADLOCK FALSE
INVARIANTS
  NoLostWakeup
  ExactlyOnce
  Quiescence
PROPERTIES
  ImplementsTaskPool
  AcceptedIsExecuted
  StopAllReturns

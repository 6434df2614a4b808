SPECIFICATION Spec
CONSTANTS
  Conn = {c1, c2, c3}
  NoConn = NoConn
  Worker = {w1, w2}
  NoWorker = NoWorker
  Prober = {p1}
  MaxQueued = 2
  ShedAbove = 1
INVARIANTS
  TypeOK
PROPERTIES
  AcceptedIsAnswered
  MonitorAlwaysAnswers
CHECK_DEADLOCK FALSE

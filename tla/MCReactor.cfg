SPECIFICATION MCSpec
CONSTANTS
  Workers = {w1, w2}
  Main = Main
  Acceptor = Acceptor
  Clients = {c1, c2}
  Fds = {4, 5}
  Listen = Listen
  None = None
  MaxSends = 3
  MayStop = TRUE
PROPERTY EveryClientServed
INVARIANTS
  EdgesInv
  NoLostWakeup
CHECK_DEADLOCK FALSE

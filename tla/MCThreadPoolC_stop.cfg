\* Does stopAll always come back?
CONSTANTS
  NoThread = NoThread
  Main = Main
  Workers = {w1, w2}
  NTasks = 2
  SpuriousWakeups = FALSE
SPECIFICATION FairSpec
PROPERTY StopAllReturns
CHECK_DEADLOCK FALSE

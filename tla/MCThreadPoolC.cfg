\* Three workers, four tasks, waits that may return without a signal.
CONSTANTS
  NoThread = NoThread
  Main = Main
  Workers = {w1, w2, w3}
  NTasks = 4
  SpuriousWakeups = TRUE
SPECIFICATION FairSpec
INVARIANT PoolInv
PROPERTIES ImplementsPool EveryTaskRuns
\* The pool stops after main() has returned, or before (see the other run).
CHECK_DEADLOCK FALSE

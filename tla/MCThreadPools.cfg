CONSTANTS
  Owner = Owner
  Workers = {w1, w2, w3}
  MaxTasks = 4
  SpuriousWakeups = TRUE
  Servers = {s1, s2, s3}
  MaxRequests = 2
  MaxCalls = 6
SPECIFICATION MCSpec
INVARIANTS PoolInv TicketsInv
PROPERTIES ImplementsPool EveryTaskFinishes DestructorReturns HttpImplementsPool EveryRequestProcessed
\* A program ends with its pool, and workers wait when there are no more requests.
CHECK_DEADLOCK FALSE

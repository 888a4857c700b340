CONSTANTS
  N = 2
  MaxConns = 2
  MaxCrashes = 2
  Pids = {c1}
  NoPid = NoPid
  USER_LIMIT = 1
  MaxChatConns = 0
  MaxSends = 0
  MaxTerms = 0
SPECIFICATION PoolSpec
INVARIANTS ParentInv RoundRobin
PROPERTY CtrlCEndsPool
CHECK_DEADLOCK FALSE

CONSTANTS
  N = 1
  MaxConns = 0
  MaxCrashes = 0
  Pids = {c1, c2}
  NoPid = NoPid
  USER_LIMIT = 2
  MaxChatConns = 3
  MaxSends = 1
  MaxTerms = 1
SPECIFICATION ChatSpec
INVARIANT TableInv
PROPERTY ZombiesReaped
CHECK_DEADLOCK FALSE

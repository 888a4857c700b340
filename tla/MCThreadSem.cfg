CONSTANTS
  LEN = 4
  Values = {0, 1, 2}
  NoValue = NoValue
  Sleeper = Sleeper
  MaxMsgs = 10
  Items = 5
  SpuriousWakeups = TRUE
SPECIFICATION MCSpec
INVARIANTS BufferInv CondInv
PROPERTIES ImplementsChannel NobodySleepsForEver
\* The two programs with a condition variable end, or stop at an empty list.
CHECK_DEADLOCK FALSE

SPECIFICATION MCSpec
CONSTANTS
  window_num = 2
  total_service_time = 3
  INTERVAL = 3
  RANDOM_PARAMETER = 1
  SERVICE_TIME_MAX = 3
  simulate_num = 2
  MaxCustomers = 4
  Null = Null
  Nodes = {n1, n2, n3, n4, n5}
  front = front
  Elements <- MCElements
SYMMETRY Symmetry
INVARIANTS BankInv NoneWaitsInVain ServedInOrder ListInv
PROPERTIES ClockNeverGoesBack ImplementsQueue
CHECK_DEADLOCK FALSE

CONSTANTS
  USER_LIMIT = 2
  MaxFd = 2
  MaxConns = 2
  MaxTexts = 2
SPECIFICATION Spec
PROPERTY TextsKeptUntilSent
CHECK_DEADLOCK FALSE

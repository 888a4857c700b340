CONSTANTS
  Blocks = {b1, b2, b3}
  Sizes = {1, 2}
  Units = 2
  root = root
  Null = Null
SPECIFICATION Spec
INVARIANT LeaksAreFound
\* The program ends with the report.
CHECK_DEADLOCK FALSE

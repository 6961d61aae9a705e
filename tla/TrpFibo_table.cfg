SPECIFICATION Spec
CONSTANTS
  h1 = h1
  h2 = h2
  Heap = {h1}
  MaxNodes = 9
  Program <- Deletions
  Null = Null
INVARIANTS MinIsMinimum
CHECK_DEADLOCK FALSE

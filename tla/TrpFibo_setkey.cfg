SPECIFICATION Spec
CONSTANTS
  h1 = h1
  h2 = h2
  Heap = {h1}
  MaxNodes = 3
  Program <- Trusting
  Null = Null
INVARIANTS MinIsMinimum
CHECK_DEADLOCK FALSE

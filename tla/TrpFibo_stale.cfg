SPECIFICATION Spec
CONSTANTS
  h1 = h1
  h2 = h2
  Heap = {h1}
  MaxNodes = 6
  Program <- Dijkstra
  Null = Null
INVARIANTS Accounted
CHECK_DEADLOCK FALSE

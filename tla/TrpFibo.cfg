SPECIFICATION Spec
CONSTANTS
  h1 = h1
  h2 = h2
  Heap = {h1, h2}
  MaxNodes = 9
  Program <- Careful
  Null = Null
SYMMETRY Heaps
INVARIANTS WellFormed DegreesBounded
PROPERTIES ImplementsQueue
CHECK_DEADLOCK FALSE

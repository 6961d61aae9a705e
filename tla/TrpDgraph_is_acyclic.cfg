SPECIFICATION Spec
CONSTANTS
  Graph = {g1}
  Node = {1, 2, 3}
  Name = {}
  Null = Null
INVARIANTS AcyclicRecognised
CHECK_DEADLOCK FALSE

SPECIFICATION Spec
CONSTANTS
  Element = {1, 2, 3}
  Rank <- SameSize
  Program <- OneSet
  MaxNumber = 1
  MaxOperands = 1
  Set = {"sa"}
  Assoc = {}
  Null = Null
INVARIANT ElementsFound
CHECK_DEADLOCK FALSE

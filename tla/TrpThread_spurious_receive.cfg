CONSTANTS
  tm = tm
  ta = ta
  tb = tb
  Null = Null
  Thread = {tm, ta, tb}
  Main = tm
  External = {}
  Bsize = {0}
  Cases <- NoCases
  MaxCalls = 1
  CreateFails = FALSE
  Spurious = TRUE
SPECIFICATION Spec
SYMMETRY Created
INVARIANTS
  ReceiveResultTrue
CHECK_DEADLOCK FALSE

CONSTANTS
  tm = tm
  ta = ta
  tb = tb
  Null = Null
  Thread = {tm, ta, tb}
  Main = tm
  External = {tb}
  Bsize = {0}
  Cases <- DefaultCases
  MaxCalls = 2
  CreateFails = TRUE
  Spurious = TRUE
SPECIFICATION Spec
INVARIANTS
  LockDiscipline
  RegistryExact
  NothingLost
CHECK_DEADLOCK FALSE

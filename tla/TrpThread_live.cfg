CONSTANTS
  tm = tm
  ta = ta
  tb = tb
  Null = Null
  Thread = {tm, ta, tb}
  Main = tm
  External = {}
  Bsize = {0}
  Cases <- NoCases
  MaxCalls = 2
  CreateFails = FALSE
  Spurious = FALSE
SPECIFICATION FairSpec
PROPERTIES
  ExitCompletes
  CallsReturn
  ImplementsMailbox
CHECK_DEADLOCK FALSE

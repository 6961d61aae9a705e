CONSTANTS
  tm = tm
  ta = ta
  tb = tb
  Null = Null
  Thread = {tm, ta, tb}
  Main = tm
  External = {}
  Bsize = {0, 1}
  Cases <- WaitingCases
  MaxCalls = 3
  CreateFails = FALSE
  Spurious = FALSE
SPECIFICATION Spec
SYMMETRY Created
INVARIANTS
  TypeOK
  MailboxClosed
  StoppedForGood
  NoMissedMessage
  OneSignalPerWait
  NobodyForgotten
  SendResultTrue
  ReceiveResultTrue
  ProtocolInv
CHECK_DEADLOCK FALSE

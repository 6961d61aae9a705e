SPECIFICATION MCSpec
CONSTANTS
  Graph = {g1, g2}
  Node = {1, 2, 3}
  Name = {a, b}
  Null = Null
  TreeNode = {1, 2, 3, 4}
  Value = {1}
  Undef = Undef
  MaxChildren = 2
  Net <- Nets
  Main = "main"
  Globals <- GlobalNames
  Params <- NetParams
  Locals <- NetLocals
  ByRef = {"@r"}
  Datum = {1}
  Unset = Unset
  MaxDepth = 2
  MaxOpen = 2
  MaxSets = 2
  Number <- Bounds
  Char = {0, 3, 7}
  Byte = 8
  Item = {x, y}
  MaxItems = 3
  MaxChanges = 2
  None = None
  Cell = {1, 2, 3, 4}
  Held = {1, 2}
  Queue = {"qa", "qb"}
  Stack = {"sa"}
  List = {"la", "lb"}
  Program <- CellPrograms
  NoCell = NoCell
  Years = {0, 1582, 1700, 2000}
  Hours = 3
  Minutes = 2
  Seconds = 2
  Zones = {0, 5}
  Spans = {31}
  MaxCalls = 2
  NoDate = NoDate
  Elem = {1, 2, 3}
  Increments = {1, 3}
  Word = 8
  MaxLen = 5
  MaxArgs = 2
  Array = {"a"}
  Blank = Blank
  Nil = Nil
  Atom = Atom
INVARIANTS
  GraphConsistent
  SearchesExact
  TreeShape
  WalksExact
  Balanced
  AlgebraExact
  SortsExact
  ChainsApart
  StackBalanced
  LoopExact
  DateExact
  MovesExact
  FieldsAgree
  AnswersExact
  MateExact
PROPERTIES
  NoNewCycle
  OrderKept
  ImplementsMap
  CallsExact
  ImplementsSequences
  FailureRestores
  ImplementsChess
CHECK_DEADLOCK FALSE

SPECIFICATION CmdSpec
CONSTANTS
  cli = cli
  n1 = n1
  h1 = h1
  h2 = h2
  v1 = v1
  v2 = v2
  NoTarget = NoTarget
  NoHost = NoHost
  NoOp = NoOp
  Actors <- OneProcess
  Names <- OneName
  Hosts <- TwoHosts
  MaxSaves = 1
  Targets0 <- OneTarget
  Values <- TwoValues
  MaxOps <- TwoOps
  Budgets <- AllBudgets
  Faults <- AllFaults
CHECK_DEADLOCK FALSE
INVARIANTS
  CommandTypeOK
  UndoRestores
  OkMeansInPlace
  ExitTellsTheRow
  AnswerTellsTheToken
PROPERTY
  UndoLogSpec

SPECIFICATION CmdSpec
CONSTANTS
  cli = cli
  n1 = n1
  h1 = h1
  h2 = h2
  v1 = v1
  v2 = v2
  NoTarget = NoTarget
  NoHost = NoHost
  NoOp = NoOp
  Actors <- OneProcess
  Names <- OneName
  Hosts <- OneHost
  MaxSaves = 0
  Targets0 <- OneTarget
  Values <- TwoValues
  MaxOps <- TwoOps
  Budgets <- AllBudgets
  Faults <- NoFaults
CHECK_DEADLOCK FALSE
INVARIANTS
  AppliedExitIsAnUndo
  EveryExitTellsTheRow

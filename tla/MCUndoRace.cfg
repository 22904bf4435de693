SPECIFICATION Spec
CONSTANTS
  cli = cli
  server = server
  n1 = n1
  n2 = n2
  h1 = h1
  h2 = h2
  v1 = v1
  v2 = v2
  v3 = v3
  NoTarget = NoTarget
  NoHost = NoHost
  NoOp = NoOp
  Actors <- TwoProcesses
  Names <- OneName
  Hosts <- OneHost
  MaxSaves = 0
  Targets0 <- OneTarget
  Values <- ThreeValues
  MaxOps <- TwoAndOne
  Faults <- Losses
CHECK_DEADLOCK FALSE
INVARIANTS
  UndoRestores
  ErrorMeansNoEffect

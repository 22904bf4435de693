SPECIFICATION Spec
CONSTANTS
  cli = cli
  server = server
  n1 = n1
  n2 = n2
  h1 = h1
  h2 = h2
  v1 = v1
  v2 = v2
  v3 = v3
  NoTarget = NoTarget
  NoHost = NoHost
  NoOp = NoOp
  Actors <- TwoProcesses
  Names <- TwoNames
  Hosts <- TwoHosts
  MaxSaves = 2
  Targets0 <- TwoTargets
  Values <- OneValue
  MaxOps <- OneAndOne
  Faults <- Moves
CHECK_DEADLOCK FALSE
INVARIANT
  NamedOriginIsKept

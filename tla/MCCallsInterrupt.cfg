SPECIFICATION Spec
CONSTANTS
  t1 = t1
  t2 = t2
  t3 = t3
  server = server
  cli = cli
  NoActor = NoActor
  Actors <- OneActor
  Procs <- OneProcess
  ProcOf <- SameProcess
  MaxCalls <- OneCallEach
  RotateAt = 1
  MaxArchives = 1
INVARIANT
  OkMeansEffect
CHECK_DEADLOCK FALSE

SPECIFICATION FairSpec
CONSTANTS
  t1 = t1
  t2 = t2
  t3 = t3
  server = server
  cli = cli
  NoActor = NoActor
  Actors <- TwoActors
  Procs <- TwoProcesses
  ProcOf <- OwnProcess
  MaxCalls <- OneCallEach
  RotateAt = 1
  MaxArchives = 1
PROPERTIES
  CallsEnd
  LedgerSpec
CHECK_DEADLOCK FALSE

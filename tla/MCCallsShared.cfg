SPECIFICATION Spec
CONSTANTS
  t1 = t1
  t2 = t2
  t3 = t3
  server = server
  cli = cli
  NoActor = NoActor
  Actors <- ThreeActors
  Procs <- TwoProcesses
  ProcOf <- ServerAndCommand
  MaxCalls <- OneCallEach
  RotateAt = 1
  MaxArchives = 1
INVARIANTS
  TypeOK
  OpenIntent
  PendingStaysVisible
  EffectIsAudited
  LateWritesNeverRun
  TokenMatchesRow
PROPERTY
  ResolvedByOwner
SYMMETRY Threads
CHECK_DEADLOCK FALSE

SPECIFICATION Spec
CONSTANTS
  t1 = t1
  t2 = t2
  web = web
  NoFile = NoFile
  Threads <- TwoThreads
  Targets <- OneTarget
  Patterns <- TwoDisables
  First <- Long
  Hour = 1
  Day = 3
  MaxTime = 2
  MaxEdits = 2
  MaxArms = 3
INVARIANT
  ServesTheFile
PROPERTY
  EveryTripHolds
SYMMETRY Interchangeable
CHECK_DEADLOCK FALSE

SPECIFICATION Spec
CONSTANTS
  t1 = t1
  t2 = t2
  poll = poll
  undo = undo
  NoLimit = NoLimit
  Threads <- TwoThreads
  Calls <- TwoCalls
  Replays <- OnlyUndo
  MaxCalls = 5
  MaxSeconds = 1
  RunawayMax = 2
  Window = 2
  MaxDuration = 2
  MaxTime = 4
INVARIANTS
  TypeOK
  CallCeiling
  BoundedOverrun
  RunawayBound
  NoSpuriousTrip
SYMMETRY Interchangeable
CHECK_DEADLOCK FALSE

SPECIFICATION Spec
CONSTANTS
  t1 = t1
  t2 = t2
  Nobody = Nobody
  Threads <- TwoThreads
  Generation = "v2"
  Outages <- AnyOutage
  MaxOutages = 2
INVARIANTS
  TypeOK
  ProbedServerIsReached
SYMMETRY Interchangeable

SPECIFICATION Spec
CONSTANTS
  cli = cli
  server = server
  here = here
  there = there
  r1 = r1
  r2 = r2
  big = big
  Absent = Absent
  Nothing = Nothing
  Actors <- OneProcess
  MaxOps <- TwoOps
  Items <- ThreeItems
  Addrs <- TwoAddrs
  DefaultAddr = here
  BaseUrl = here
  Initial <- Named
  Incoming <- WholeConfigs
  MaxIndex = 3
  Size <- BigIsThree
  MaxSize = 2
CHECK_DEADLOCK FALSE
INVARIANT
  TransportKept

SPECIFICATION FairSpec
CONSTANTS
  u1 = u1
  up = up
  down = down
  User <- OneUser
  Counter <- TwoCounters
  Owner <- OneOwner
  MaxTraffic <- MoreUp
  MaxTime = 4
  Window = 2
  Faults = {"query", "rpc", "ack", "save", "restart", "crash"}
  MaxFaults = 2
INVARIANTS
  TypeOK
  NeverOverbilled
  NothingLost
  OnlineMeansActive
  ActiveMeansOnline
PROPERTIES
  RefinesBilling
  EventuallyReported

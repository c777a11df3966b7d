SPECIFICATION FairSpec
CONSTANTS
  Conns = {c1, c2}
  NoConn = NoConn
  MaxRestarts = 1
  Faults = {"client", "thread", "accept", "kill"}
INVARIANTS
  WaitingIsOwned
PROPERTIES
  ShutdownCompletes
  EveryMessageResolved
CHECK_DEADLOCK FALSE

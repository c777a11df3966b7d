SPECIFICATION Spec
CONSTANTS
  Conns = {c1, c2, c3}
  NoConn = NoConn
  MaxRestarts = 1
  Faults = {"client", "load", "setup", "kill"}
INVARIANTS
  TypeOK
  CountExact
  StoppedLeavesNoSocket
PROPERTIES
  ImplementsFilterService
CHECK_DEADLOCK FALSE

SPECIFICATION Spec
CONSTANTS
  Messages = {m1, m2}
  Purger = Purger
  Releaser = Releaser
  Nobody = Nobody
  Empty = Empty
  Inodes = {i1, i2}
  Days = 1
  MaxClock = 1
  MaxCrashes = 0
  WritesOnClose = TRUE
  Faults = {}
SYMMETRY QuarantineSymmetry
INVARIANTS
  HeldUntilExpiry
CHECK_DEADLOCK FALSE

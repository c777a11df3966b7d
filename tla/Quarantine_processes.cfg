SPECIFICATION Spec
CONSTANTS
  Messages = {m1, m2, m3}
  Purger = Purger
  Releaser = Releaser
  Nobody = Nobody
  Empty = Empty
  Inodes = {i1, i2}
  Days = 1
  MaxClock = 2
  MaxCrashes = 1
  WritesOnClose = TRUE
  Faults = {"reuse"}
SYMMETRY QuarantineSymmetry
INVARIANTS
  TypeOK
  HeldUnlessRaced
  FilesAreRecorded
PROPERTIES
  NotRefused
CHECK_DEADLOCK FALSE

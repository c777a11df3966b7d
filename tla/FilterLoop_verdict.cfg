SPECIFICATION LoopSpec
CONSTANTS
  Modules = {a, b}
  MaxLines = 3
SYMMETRY NameSymmetry
INVARIANTS
  LoopTypeOK
  SkippedForAReason
  VerdictSent
CHECK_DEADLOCK FALSE

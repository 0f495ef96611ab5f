SPECIFICATION Spec
CONSTANTS
  Clients = {c1}
  FileIds = {f1, f2}
  Size = 5
  PerSize = 2
  MaxFaults = 3
  Late = TRUE
  Short = TRUE
  Collide = FALSE
  NoFile = NoFile
SYMMETRY MCSymmetry
INVARIANT NeverShort
CHECK_DEADLOCK FALSE

SPECIFICATION Spec
CONSTANTS
  Clients = {c1}
  FileIds = {f1}
  Size = 3
  PerSize = 2
  MaxFaults = 1
  Late = FALSE
  Short = TRUE
  Collide = FALSE
  NoFile = NoFile
INVARIANT OnlyWholeImages
CHECK_DEADLOCK FALSE

SPECIFICATION FairSpec
CONSTANTS
  Clients = {c1, c2}
  FileIds = {f1, f2, f3}
  Size = 5
  PerSize = 2
  MaxFaults = 2
  Late = FALSE
  Short = FALSE
  Collide = FALSE
  NoFile = NoFile
INVARIANTS TypeOK CreatedMeansWhole
PROPERTIES KeepsPromise UploadEnds
CHECK_DEADLOCK FALSE

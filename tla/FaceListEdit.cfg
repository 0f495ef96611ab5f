SPECIFICATION Spec
CONSTANTS
  Requests = {r1, r2}
  Labels = {white}
  Persons = {ann}
  MaxId = 1
  MaxUser = 1
  MaxQueue = 1
  MaxCache = 1
  Ops = {"add", "delete", "upload", "check", "reboot"}
  Overlap = TRUE
  NoRow = NoRow
  NoPicture = NoPicture
  NoPerson = NoPerson
SYMMETRY MCSymmetry
CONSTRAINT CurrentOrOneRow
INVARIANTS NoOrphanFace NoSharedFace RegisteredIsLoaded NoTwinFaces

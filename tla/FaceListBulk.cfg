SPECIFICATION Spec
CONSTANTS
  Requests = {r1, r2}
  Labels = {white, black}
  Persons = {ann}
  MaxId = 0
  MaxUser = 1
  MaxQueue = 1
  MaxCache = 1
  Ops = {"add", "modify", "delete", "upload", "copy", "check", "reset", "reboot"}
  Overlap = TRUE
  NoRow = NoRow
  NoPicture = NoPicture
  NoPerson = NoPerson
SYMMETRY MCSymmetry
CONSTRAINT Current
INVARIANTS NoOrphanFace NoOrphanPicture NoDanglingFace

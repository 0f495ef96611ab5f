SPECIFICATION FairSpec
CONSTANTS
  Requests = {r1}
  Labels = {white, black}
  Persons = {ann, bob}
  MaxId = 1
  MaxUser = 1
  MaxQueue = 1
  MaxCache = 1
  Ops <- SerialOps
  Overlap = FALSE
  NoRow = NoRow
  NoPicture = NoPicture
  NoPerson = NoPerson
INVARIANTS TypeOK NeverStale NoOrphanFace NoDanglingFace
PROPERTIES RegistrationSettles KeepsPromise

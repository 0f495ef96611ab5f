SPECIFICATION Spec
CONSTANTS
  Requests = {r1, r2}
  RegionNum = 2
  Boxes = {small, large}
  FirstBox = small
  Blank = Blank
  Overlap = TRUE
SYMMETRY MCSymmetry
INVARIANTS TypeOK EncoderFollowsTable
PROPERTY LoneRequestRepairs

SPECIFICATION Spec
CONSTANTS
  Requests = {p1, p2}
  Rows = {0, 2}
  Values = {v1, v2}
  FirstValue = v1
  v1 = v1
  v2 = v2
  Mentions <- MCMentions
SYMMETRY MCSymmetry
INVARIANTS TypeOK
PROPERTY LoneRequestWins

\* Two users, with each other and with themselves; three requests at a time.
CONSTANTS
  User = {u1, u2}
  Request = {q1, q2, q3}
SPECIFICATION Spec
SYMMETRY Symmetry
INVARIANTS
  DuplicatesUpToOverlap
  BlockIsRespected

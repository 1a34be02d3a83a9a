\* Two users, one of them with two tabs; two chat keys, three key pairs.
CONSTANTS
  User = {u1, u2}
  Tab = {c1, c2, c3}
  owner <- OneHasMore
  MaxKeys = 2
  MaxPairs = 3
  MaxCalls = 6
SPECIFICATION Spec
SYMMETRY Symmetry
INVARIANTS
  OneKey
  CopyStaysReadable
PROPERTIES
  RekeyHeals
CHECK_DEADLOCK FALSE

\* A tab that asks for a chat both users have opened meanwhile.
CONSTANTS
  User = {u1, u2}
  Tab = {c1, c2, c3}
  owner <- OneHasMore
  MaxKeys = 2
  MaxPairs = 3
  MaxCalls = 6
SPECIFICATION Spec
SYMMETRY Symmetry
INVARIANTS
  CacheIsDerived
CHECK_DEADLOCK FALSE

\* Two requests at a time, four in all, three rows of the address.
CONSTANTS
  Req = {r1, r2}
  MaxAccounts = 3
  MaxSends = 2
  MaxLinks = 1
  MaxCalls = 4
SPECIFICATION Spec
SYMMETRY Symmetry
INVARIANTS
  LimiterRecovers
PROPERTIES
  OwnCode
  UsedOnce
  VerifiedStays
  GitHubVerified
CHECK_DEADLOCK FALSE

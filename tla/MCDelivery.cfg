\* Two messages or one that changes, two gateways, one broken connection, one
\* failure. A page of one message, so that a second one pushes the first out.
CONSTANTS
  Message = {m1, m2}
  Gateway = {g1, g2}
  NoGateway = NoGateway
  PageSize = 1
  MaxChanges = 2
  MaxBreaks = 1
  MaxLosses = 1
  MaxAsks = 1
SPECIFICATION Spec
CHECK_DEADLOCK FALSE
SYMMETRY Symmetry
INVARIANTS
  CaughtUp
  UpToDate
  FewCopies
PROPERTIES
  ShownStays

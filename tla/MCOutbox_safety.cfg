\* Two processes with a relay each, kills and failures: what may and may not
\* reach the broker.
CONSTANTS
  Request = {q1, q2}
  Process = {p1, p2}
  None = None
  MaxId = 2
  MaxFaults = 2
  MaxCrashes = 1
  BatchSize = 1
SPECIFICATION Safe
SYMMETRY Symmetry
INVARIANTS
  AnnouncedIsCommitted
  NothingLost
  OncePerWindow

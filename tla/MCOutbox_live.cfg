\* One process, with failures, a kill and a restart: order and wake-ups until it
\* is killed, liveness and the refinement in any case.
CONSTANTS
  Request = {q1, q2}
  Process = {p1}
  None = None
  MaxId = 3
  MaxFaults = 1
  MaxCrashes = 1
  BatchSize = 2
SPECIFICATION Spec
INVARIANTS
  CommitOrderKept
  NoLostWakeup
PROPERTIES
  OutboxDrains
  KeepsPromise

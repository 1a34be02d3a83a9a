\* Two messages that a user, who joins and leaves, sends and marks as read, with
\* two requests at a time: a MarkRead that found no row can be announced after one
\* that was stored when the user had joined again.
CONSTANTS
  User = {u1}
  Message = {m1, m2}
  Request = {q1, q2}
  Asked = {"created", "read"}
  None = None
  MaxTime = 4
SPECIFICATION Spec
SYMMETRY Symmetry
INVARIANTS
  MarkersAnnounced
CHECK_DEADLOCK FALSE

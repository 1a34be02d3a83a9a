\* One message, an author and another user who may be an admin, two requests at
\* a time that send, edit, delete or hide it: an edit can overtake another edit or a
\* deletion.
CONSTANTS
  User = {u1, u2}
  Message = {m1}
  Request = {q1, q2}
  Asked = {"created", "edited", "deleted_for_all", "hide"}
  None = None
  MaxTime = 3
SPECIFICATION Spec
SYMMETRY Symmetry
INVARIANTS
  LaterRequestLaterTime
  ReplayAgrees
  NoChangeAfterDeletion
PROPERTIES
  ChangesAllowed
CHECK_DEADLOCK FALSE

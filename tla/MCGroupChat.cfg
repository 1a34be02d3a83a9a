\* Five users, two requests at a time, and a group that is full from the start:
\* members come when others have left or were removed.
CONSTANTS
  User = {u1, u2, u3, u4, u5}
  Request = {q1, q2}
  MaxMembers = 3
  NoOne = NoOne
  Asked = {"add", "remove", "promote", "demote", "leave", "delete", "avatar"}
SPECIFICATION Spec
\* A deleted chat stays deleted: the system really stops.
CHECK_DEADLOCK FALSE
SYMMETRY Symmetry
INVARIANTS
  CreatorStaysAdmin
  NothingOutlivesChat
  LimitUpToOverlap
PROPERTIES
  OnlyAdminsManage
  AdminsManagedByCreator

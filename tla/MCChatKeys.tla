----------------------------- MODULE MCChatKeys -----------------------------
(* A TLC instance of ChatKeys: one user has a tab more than the others. *)
EXTENDS ChatKeys, TLC

\* One tab for each user, and the others belong to the first one.
OneHasMore ==
  CHOOSE f \in [Tab -> User] : \A u \in User : \E c \in Tab : f[c] = u

\* Tabs of one user are interchangeable.
Symmetry ==
  {p \in Permutations(Tab) : \A c \in Tab : OneHasMore[p[c]] = OneHasMore[c]}
=============================================================================

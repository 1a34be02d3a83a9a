----------------------------- MODULE MCGroupChat -----------------------------
(* TLC instances of GroupChat. *)
EXTENDS GroupChat, TLC

\* Users differ only by what they do, requests not at all.
Symmetry == Permutations(User) \union Permutations(Request)
=============================================================================

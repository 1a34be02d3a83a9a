------------------------------ MODULE MCMessages ------------------------------
(* TLC instances of Messages. *)
EXTENDS Messages, TLC

\* Users, messages and requests are interchangeable.
Symmetry ==
  Permutations(User) \union Permutations(Message) \union Permutations(Request)
=============================================================================

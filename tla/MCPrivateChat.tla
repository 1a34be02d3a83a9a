---------------------------- MODULE MCPrivateChat ----------------------------
(* TLC instances of PrivateChat. *)
EXTENDS PrivateChat, TLC

\* Users and requests are interchangeable.
Symmetry == Permutations(User) \union Permutations(Request)
=============================================================================

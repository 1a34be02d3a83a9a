------------------------------ MODULE MCOutbox ------------------------------
(* TLC instances of Outbox. *)
EXTENDS Outbox, TLC

\* Handlers and processes are interchangeable (safety runs only).
Symmetry == Permutations(Request) \union Permutations(Process)
=============================================================================

------------------------------ MODULE MCDelivery ------------------------------
(* TLC instances of Delivery. *)
EXTENDS Delivery, TLC

\* Messages and gateways are interchangeable.
Symmetry == Permutations(Message) \union Permutations(Gateway)
=============================================================================

------------------------------ MODULE MCPresence ------------------------------
(* TLC instances of Presence. A liveness property: no symmetry. *)
EXTENDS Presence
=============================================================================

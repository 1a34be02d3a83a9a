--------------------------- MODULE MCRegistration ---------------------------
(* A TLC instance of Registration: requests are interchangeable. *)
EXTENDS Registration, TLC

Symmetry == Permutations(Req)
=============================================================================

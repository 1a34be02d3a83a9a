----------------------------- MODULE MCSessions -----------------------------
(* A TLC instance of Sessions: every tab belongs to the one browser. *)
EXTENDS Sessions, TLC

OneBrowser == [c \in Tab |-> CHOOSE b \in Browser : TRUE]

\* Tabs of one browser are interchangeable.
Symmetry == Permutations(Tab)
=============================================================================

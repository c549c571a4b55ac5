----------------------------- MODULE MCRadmClient -----------------------------
(* Model checking instance of RadmClient. *)
EXTENDS RadmClient, TLC

\* Connections are interchangeable.
Symmetry == Permutations(Links)
=============================================================================

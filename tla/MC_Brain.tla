------------------------------ MODULE MC_Brain ------------------------------
(* Instances of Brain for TLC. *)
EXTENDS Brain, TLC

Symmetry == Permutations(Values) \cup Permutations(Claims) \cup Permutations(BeliefIds)

=============================================================================

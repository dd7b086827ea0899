-------------------------- MODULE MCActionEngine --------------------------
(* Model-checking instance of ActionEngine. *)
EXTENDS ActionEngine, TLC

Symmetry == Permutations(Executors)

=============================================================================

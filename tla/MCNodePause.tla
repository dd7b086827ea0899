---------------------------- MODULE MCNodePause ----------------------------
(* Instances of NodePause for TLC. *)
EXTENDS NodePause, TLC

NodeSymmetry == Permutations(Nodes)

=============================================================================

-------------------------- MODULE MCConsistentHash --------------------------
(* ConsistentHash for TLC: the constants are given in the .cfg. *)
EXTENDS ConsistentHash, TLC

\* Nodes are interchangeable.
Symmetry == Permutations(Nodes)
=============================================================================

--------------------------- MODULE MCNodeRegistry --------------------------
(* Instances of NodeRegistry for TLC. *)
EXTENDS NodeRegistry, TLC

Symmetry == Permutations(Channels) \cup Permutations(Nodes) \cup Permutations(Users)
=============================================================================

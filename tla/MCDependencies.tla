--------------------------- MODULE MCDependencies ---------------------------
(* Dependencies between a few tasks, and the order of execution they give. *)
EXTENDS TaskOrdering, TLC

MCSymmetry == Permutations(Tasks) \cup Permutations(Links) \cup Permutations(LinkSlots)
=============================================================================

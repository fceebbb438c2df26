------------------------------- MODULE MCWork -------------------------------
(* Field work on a few tasks. *)
EXTENDS TaskWork, TLC

MCSymmetry == Permutations(Tasks) \cup Permutations(Links) \cup Permutations(LinkSlots)
              \cup Permutations(Items) \cup Permutations(WorkSlots) \cup Permutations(Users)
              \cup Permutations(Photos)
=============================================================================

------------------------------ MODULE MCSales ------------------------------
(* Orders and payments together, and orders alone, on small tables. *)
EXTENDS Sales, TLC

MCTotals  == {2}
MCAmounts == {1, 2}

\* Ids, slots and users are interchangeable.
MCSymmetry == Permutations(Orders) \cup Permutations(Payments)
                \cup Permutations(PaySlots) \cup Permutations(OrderSlots)
=============================================================================

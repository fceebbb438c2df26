---------------------------- MODULE MCPayments ----------------------------
(* PaymentsService on small tables. *)
EXTENDS OrderPayments, TLC

MCTotals  == {0, 2, 3}
MCAmounts == {1, 2}

\* Payment ids are interchangeable: no property and no action orders them.
MCSymmetry == Permutations(Payments) \cup Permutations(PaySlots)
=============================================================================

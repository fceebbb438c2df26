------------------------------ MODULE MCOrders ------------------------------
(* OrdersService alone, on small tables. *)
EXTENDS OrderDesk, TLC

\* Nothing in this service depends on what an order costs.
MCTotals == {1}

MCSymmetry == Permutations(Orders) \cup Permutations(OrderSlots)
=============================================================================

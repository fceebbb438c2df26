------------------------------ MODULE SalesDb ------------------------------
(***************************************************************************)
(* The rows of one tenant database that OrdersService and PaymentsService  *)
(* share: the order table, the payment table, and the payment rows an open *)
(* transaction holds locked. A row id is used once (the database draws     *)
(* UUIDs): "fresh" is an id nobody has used, "deleted" a row that is gone. *)
(*                                                                         *)
(* PostgreSQL runs the transactions at READ COMMITTED, the default that    *)
(* nothing in the repository changes: a statement sees what is committed   *)
(* when it starts, plus its own transaction's writes.                      *)
(***************************************************************************)
EXTENDS Integers, FiniteSets, FiniteSetsExt

CONSTANTS Orders,    \* order ids
          Payments,  \* payment ids
          Totals,    \* order totals a request may compute
          Amounts,   \* amounts a payment or refund request may carry
          Techs      \* users an order may be assigned to

ASSUME SalesAssumption ==
    /\ Totals \subseteq Int
    /\ Amounts \subseteq Nat \ {0}
    /\ {"nobody", "keep"} \cap Techs = {}
    /\ "none" \notin Orders
    /\ IsFiniteSet(Orders) /\ IsFiniteSet(Payments)

VARIABLES orders, payments, locked

OrderStatus   == {"pending", "confirmed", "in_progress", "completed", "cancelled"}
PaymentStatus == {"completed", "refunded"}
PaidStatuses  == {"pending", "partial", "paid"}

OrderRow == [status: OrderStatus \cup {"fresh", "deleted"}, total: Int, paid: Int,
             payStatus: PaidStatuses, number: Nat, assignee: Techs \cup {"nobody"}]

PaymentRow == [status: PaymentStatus \cup {"fresh", "deleted"}, order: Orders \cup {"none"},
               amount: Nat, refunded: Nat, number: Nat]

LiveOrders   == {o \in Orders : orders[o].status \in OrderStatus}
LivePayments == {p \in Payments : payments[p].status \in PaymentStatus}
PaymentsOf(o) == {p \in LivePayments : payments[p].order = o}

\* What create counts as already paid: completed payments at their full amount.
GrossPaid(o) ==
    MapThenSumSet(LAMBDA p : payments[p].amount,
                  {p \in PaymentsOf(o) : payments[p].status = "completed"})

\* What refund and the payment summary count: every payment less its refunds.
NetPaid(o) == MapThenSumSet(LAMBDA p : payments[p].amount - payments[p].refunded,
                            PaymentsOf(o))

\* Mutant: an exactly paid order is not paid.
PaidStatusStrict(paid, total) ==
    IF paid > total THEN "paid" ELSE IF paid > 0 THEN "partial" ELSE "pending"

\* The payment status written beside a paid amount.
PaidStatus(paid, total) ==
    IF paid >= total THEN "paid" ELSE IF paid > 0 THEN "partial" ELSE "pending"

NoOrder == [status |-> "fresh", total |-> 0, paid |-> 0, payStatus |-> "pending",
            number |-> 0, assignee |-> "nobody"]

NoPayment == [status |-> "fresh", order |-> "none", amount |-> 0, refunded |-> 0,
              number |-> 0]

DbTypeOK ==
    /\ orders \in [Orders -> OrderRow]
    /\ payments \in [Payments -> PaymentRow]
    /\ locked \subseteq Payments

NoPaymentsYet ==
    /\ payments = [p \in Payments |-> NoPayment]
    /\ locked = {}
=============================================================================

------------------------------- MODULE Sales -------------------------------
(***************************************************************************)
(* OrdersService and PaymentsService over the same tables: orders are made *)
(* and removed while payments are taken and refunded.                      *)
(***************************************************************************)
EXTENDS OrderPayments, OrderDesk

vars == <<orders, payments, locked, preq, refundSum, oreq, history, tasked>>

Init == OrderInit /\ NoPaymentsYet /\ PayInit

PaymentsMove == /\ \E r \in PaySlots : PayStep(r)
                /\ UNCHANGED <<oreq, history, tasked>>

OrdersMove == /\ OrderNext
              /\ UNCHANGED <<preq, refundSum>>

Next == PaymentsMove \/ OrdersMove

Spec == Init /\ [][Next]_vars

TypeOK == PayTypeOK /\ OrderTypeOK

-----------------------------------------------------------------------------
\* A payment belongs to an order that exists, although orders are removed between the
\* moment a payment request reads the order and the moment it writes.
PaymentHasOrder == \A p \in LivePayments : payments[p].order \in LiveOrders

\* While a refund's transaction is open, neither its payment nor its order disappears
\* under it: the row lock holds the removal's cascade back.
OpenRefundKeepsItsRows ==
    \A r \in PaySlots : preq[r].pc \in {"sum", "write"} =>
        preq[r].payment \in LivePayments /\ preq[r].order \in LiveOrders

\* A payment that was taken stays on record; remove refuses an order with payments.
PaymentStays == LivePayments \subseteq LivePayments'
PaymentsStay == [][PaymentStays]_vars
=============================================================================

---------------------------- MODULE OrderLedger ----------------------------
(***************************************************************************)
(* What the payment service promises an order: entries are made one at a   *)
(* time against the ledger as it stands. A payment that is not fully       *)
(* refunded counts at its full amount against what is due, and refunds     *)
(* never exceed the payment.                                               *)
(***************************************************************************)
EXTENDS Integers, FiniteSetsExt

CONSTANTS Orders, Payments, Amounts

VARIABLES due,  \* due[o]: the total of order o
          book  \* book[p]: the entry of payment p, on order "none" before it is made

vars == <<due, book>>

NoEntry == [order |-> "none", amount |-> 0, refunded |-> 0]

Open(o) == {p \in Payments : book[p].order = o /\ book[p].refunded < book[p].amount}

Counted(o) == MapThenSumSet(LAMBDA p : book[p].amount, Open(o))

Init == due \in [Orders -> Int] /\ book = [p \in Payments |-> NoEntry]

Pay(p, o, a) ==
    /\ book[p] = NoEntry
    /\ Counted(o) + a <= due[o]
    /\ book' = [book EXCEPT ![p] = [order |-> o, amount |-> a, refunded |-> 0]]
    /\ UNCHANGED due

Refund(p, a) ==
    /\ book[p].refunded + a <= book[p].amount
    /\ book' = [book EXCEPT ![p].refunded = @ + a]
    /\ UNCHANGED due

Next == \E p \in Payments, a \in Amounts :
            Refund(p, a) \/ \E o \in Orders : Pay(p, o, a)

Spec == Init /\ [][Next]_vars
=============================================================================

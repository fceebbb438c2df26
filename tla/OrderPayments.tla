--------------------------- MODULE OrderPayments ---------------------------
(***************************************************************************)
(* PaymentsService: taking a payment on an order and refunding one.        *)
(*                                                                         *)
(* A request reads and validates outside any transaction, then writes what *)
(* it computed from that reading. Every await is a point where another     *)
(* request of the same or another server process may run, so a request is  *)
(* a slot with a program counter and the values it read:                   *)
(*   create   idle -> number -> commit -> idle                             *)
(*   refund   idle -> update -> sum -> write -> idle                       *)
(* A rejected request changes nothing and has no step. Statements of one   *)
(* transaction that no other request can tell apart from its commit are    *)
(* merged with it.                                                         *)
(***************************************************************************)
EXTENDS SalesDb

CONSTANT PaySlots   \* payment requests that may be in flight at once

VARIABLES preq,      \* preq[r]: where request r is and what it has read
          refundSum  \* refundSum[p]: the amounts of the refunds of p that committed

pvars == <<orders, payments, locked, preq, refundSum>>

Idle == [pc |-> "idle"]

CreateReq == [pc: {"number", "commit"}, order: Orders, amount: Amounts,
              paid: Nat, total: Int, number: Nat]
RefundReq == [pc: {"update", "sum", "write"}, payment: Payments, order: Orders,
              amount: Amounts, size: Nat, refunded: Nat, total: Int, paid: Int]

PayTypeOK ==
    /\ DbTypeOK
    /\ preq \in [PaySlots -> {Idle} \cup CreateReq \cup RefundReq]
    /\ refundSum \in [Payments -> Nat]

PayInit ==
    /\ preq = [r \in PaySlots |-> Idle]
    /\ refundSum = [p \in Payments |-> 0]

-----------------------------------------------------------------------------
(* create *)

\* Bound: a create starts only while an unused payment id is left for it.
PaymentIdLeft ==
    Cardinality({p \in Payments : payments[p].status = "fresh"})
      > Cardinality({r \in PaySlots : preq[r].pc \in {"number", "commit"}})

\* Mutant: the column is trusted instead of the payment rows.
AlreadyPaidColumn(o) == orders[o].paid

AlreadyPaid(o) == GrossPaid(o)

\* The order with its payments is read; what was paid and the new amount must fit the total.
CreateRead(r, o, a) ==
    /\ preq[r].pc = "idle"
    /\ PaymentIdLeft
    /\ o \in LiveOrders
    /\ AlreadyPaid(o) + a <= orders[o].total
    /\ preq' = [preq EXCEPT ![r] =
           [pc |-> "number", order |-> o, amount |-> a, paid |-> AlreadyPaid(o),
            total |-> orders[o].total, number |-> 0]]
    /\ UNCHANGED <<orders, payments, locked, refundSum>>

\* generatePaymentNumber: one more than the day's highest number.
NextPaymentNumber == 1 + Max({payments[p].number : p \in LivePayments} \cup {0})

CreateNumber(r) ==
    /\ preq[r].pc = "number"
    /\ preq' = [preq EXCEPT ![r].pc = "commit", ![r].number = NextPaymentNumber]
    /\ UNCHANGED <<orders, payments, locked, refundSum>>

NumberFree(n) == \A p \in LivePayments : payments[p].number # n

\* The row written is the one the stale reading implies.
PaidAfter(q) == q.paid + q.amount

\* The transaction: insert the payment (unique number, existing order), then set the
\* order's payment status and paid amount.
CreateCommit(r, p) ==
    LET q == preq[r] IN
    /\ q.pc = "commit"
    /\ payments[p].status = "fresh"
    /\ q.order \in LiveOrders
    /\ NumberFree(q.number)
    /\ payments' = [payments EXCEPT ![p] =
           [status |-> "completed", order |-> q.order, amount |-> q.amount,
            refunded |-> 0, number |-> q.number]]
    /\ orders' = [orders EXCEPT ![q.order].paid = PaidAfter(q),
                                ![q.order].payStatus = PaidStatus(PaidAfter(q), q.total)]
    /\ preq' = [preq EXCEPT ![r] = Idle]
    /\ UNCHANGED <<locked, refundSum>>

-----------------------------------------------------------------------------
(* refund *)

\* Mutant: earlier refunds are forgotten.
RefundableForgetful(p, a) == a <= payments[p].amount

Refundable(p, a) == a <= payments[p].amount - payments[p].refunded

RefundRead(r, p, a) ==
    /\ preq[r].pc = "idle"
    /\ payments[p].status = "completed"
    /\ Refundable(p, a)
    /\ preq' = [preq EXCEPT ![r] =
           [pc |-> "update", payment |-> p, order |-> payments[p].order, amount |-> a,
            size |-> payments[p].amount, refunded |-> payments[p].refunded,
            total |-> orders[payments[p].order].total, paid |-> 0]]
    /\ UNCHANGED <<orders, payments, locked, refundSum>>

\* The transaction's first statement waits for the payment row and locks it; its value
\* becomes visible with the commit.
RefundUpdate(r) ==
    LET q == preq[r] IN
    /\ q.pc = "update"
    /\ q.payment \in LivePayments \ locked
    /\ locked' = locked \cup {q.payment}
    /\ preq' = [preq EXCEPT ![r].pc = "sum"]
    /\ UNCHANGED <<orders, payments, refundSum>>

\* Mutant: any refund empties the payment.
RefundedAfterAll(q) == q.size

RefundedAfter(q) == q.refunded + q.amount

StatusAfter(q) == IF RefundedAfter(q) >= q.size THEN "refunded" ELSE "completed"

OthersNet(q) == MapThenSumSet(LAMBDA p : payments[p].amount - payments[p].refunded,
                              PaymentsOf(q.order) \ {q.payment})

\* The second statement reads the order's payments: committed rows and its own write.
RefundSum(r) ==
    LET q == preq[r] IN
    /\ q.pc = "sum"
    /\ preq' = [preq EXCEPT ![r].pc = "write", ![r].paid =
           (q.size - RefundedAfter(q)) + OthersNet(q)]
    /\ UNCHANGED <<orders, payments, locked, refundSum>>

\* The third statement sets the order and the transaction commits; payment.refunded is
\* emitted for the refund if the process is still there.
RefundCommit(r) ==
    LET q == preq[r] IN
    /\ q.pc = "write"
    /\ payments' = [payments EXCEPT ![q.payment].refunded = RefundedAfter(q),
                                    ![q.payment].status = StatusAfter(q)]
    /\ orders' = [orders EXCEPT ![q.order].paid = q.paid,
                                ![q.order].payStatus = PaidStatus(q.paid, q.total)]
    /\ locked' = locked \ {q.payment}
    /\ refundSum' = [refundSum EXCEPT ![q.payment] = @ + q.amount]
    /\ preq' = [preq EXCEPT ![r] = Idle]

-----------------------------------------------------------------------------
\* A request fails: a duplicate number, a row that is gone, the transaction's time limit,
\* a lost connection or process. Its transaction rolls back and releases its lock.
PayAbort(r) ==
    LET q == preq[r] IN
    /\ q.pc # "idle"
    /\ locked' = IF q.pc \in {"sum", "write"} THEN locked \ {q.payment} ELSE locked
    /\ preq' = [preq EXCEPT ![r] = Idle]
    /\ UNCHANGED <<orders, payments, refundSum>>

\* The failures that the request's own statements run into, which must end it.
PayMustAbort(r) ==
    \/ /\ preq[r].pc = "commit"
       /\ \/ preq[r].order \notin LiveOrders
          \/ ~NumberFree(preq[r].number)
    \/ preq[r].pc = "update" /\ preq[r].payment \notin LivePayments

\* Mutant: a transaction that never reaches its last statement.
PayProgressStuck(r) ==
    \/ CreateNumber(r)
    \/ \E p \in Payments : CreateCommit(r, p)
    \/ RefundUpdate(r)
    \/ RefundSum(r)

PayProgress(r) ==
    \/ CreateNumber(r)
    \/ \E p \in Payments : CreateCommit(r, p)
    \/ RefundUpdate(r)
    \/ RefundSum(r)
    \/ RefundCommit(r)
    \/ PayMustAbort(r) /\ PayAbort(r)

PayArrive(r) ==
    \/ \E o \in Orders, a \in Amounts : CreateRead(r, o, a)
    \/ \E p \in Payments, a \in Amounts : RefundRead(r, p, a)

PayStep(r) == PayArrive(r) \/ PayProgress(r) \/ PayAbort(r)

-----------------------------------------------------------------------------
(* PaymentsService alone: the orders exist and nobody else changes them. Their status,   *)
(* which this service never reads, is pending.                                            *)

UnpaidOrders == [Orders -> {[NoOrder EXCEPT !.status = "pending", !.total = t] : t \in Totals}]

PayNext == \E r \in PaySlots : PayStep(r)

PayStart == orders \in UnpaidOrders /\ NoPaymentsYet /\ PayInit

PaySpec == PayStart /\ [][PayNext]_pvars

\* The event loop resumes a request when its query returns, and the database grants a row
\* lock to its waiters in turn. Nothing makes a client call.
PayFairSpec ==
    /\ PaySpec
    /\ \A r \in PaySlots : WF_pvars(PayProgress(r)) /\ SF_pvars(RefundUpdate(r))

-----------------------------------------------------------------------------
(* Properties *)

\* However refunds interleave, a payment's refunded amount stays within the payment, and
\* the payment is marked refunded exactly when all of it is (refund's two computed values).
RefundWithinPayment ==
    \A p \in LivePayments :
        /\ payments[p].refunded <= payments[p].amount
        /\ payments[p].status = "refunded" <=> payments[p].refunded = payments[p].amount

\* The order's payment status and paid amount tell the same story, whichever of create and
\* refund wrote last; an order nobody has paid on yet is pending.
StatusTellsPaid ==
    \A o \in LiveOrders :
        LET row == orders[o] IN
        /\ row.payStatus = "paid" => row.paid >= row.total
        /\ row.payStatus = "partial" => row.paid > 0 /\ ~(row.paid >= row.total)
        /\ row.payStatus = "pending" => ~(row.paid > 0)

\* Racing refunds can lose one another's amount but never invent one: what a payment
\* records as refunded is no more than the refunds that committed, so a payment is closed
\* as refunded only after refunds of at least its amount.
RecordedRefundsMade ==
    \A p \in LivePayments : payments[p].refunded <= refundSum[p]

-----------------------------------------------------------------------------
(* The inductive invariant: what a request in flight may still rely on. A create knows    *)
(* the shape of what it read; a refund knows its payment's order and amount, which never   *)
(* change, and that the refunded amount it read was really made. The paid amounts are sums,  *)
(* which the invariant leaves untyped.                                                     *)

CreateInFlight(q) ==
    q \in [pc: {"number", "commit"}, order: Orders, amount: Amounts,
           paid: {q.paid}, total: {q.total}, number: Nat]

RefundInFlight(q) ==
    /\ q \in [pc: {"update", "sum", "write"}, payment: Payments, order: Orders,
              amount: Amounts, size: Nat, refunded: Nat, total: {q.total}, paid: {q.paid}]
    /\ q.refunded + q.amount <= q.size
    /\ q.refunded <= refundSum[q.payment]
    /\ payments[q.payment].status # "fresh"
    /\ payments[q.payment].amount = q.size
    /\ payments[q.payment].order = q.order

RequestsSound ==
    /\ preq \in [PaySlots -> {preq[r] : r \in PaySlots}]
    /\ \A r \in PaySlots :
          preq[r] = Idle \/ CreateInFlight(preq[r]) \/ RefundInFlight(preq[r])

PaymentRowsSound ==
    /\ payments \in [Payments -> PaymentRow]
    /\ refundSum \in [Payments -> Nat]
    /\ \A p \in LivePayments : payments[p].order \in Orders
    /\ RefundWithinPayment
    /\ RecordedRefundsMade

PayInv == PaymentRowsSound /\ RequestsSound

\* No reading of an order's total goes stale: nothing changes it once the order exists.
TotalsCurrent ==
    \A r \in PaySlots : preq[r].pc # "idle" => preq[r].total = orders[preq[r].order].total

OrderRowsSound ==
    /\ orders \in [Orders -> {orders[o] : o \in Orders}]
    /\ \A o \in Orders :
          orders[o] \in [status: OrderStatus \cup {"fresh", "deleted"}, total: Int,
                        paid: {orders[o].paid}, payStatus: PaidStatuses, number: Nat,
                        assignee: Techs \cup {"nobody"}]

StatusInv == PayInv /\ OrderRowsSound /\ TotalsCurrent /\ StatusTellsPaid

-----------------------------------------------------------------------------
\* Every request that starts ends, in spite of the waits on locked rows and of the requests
\* that keep arriving: refund transactions cannot wait for each other in a circle.
RequestsEnd == \A r \in PaySlots : (preq[r].pc # "idle") ~> (preq[r].pc = "idle")

\* An order never receives more than its total (create's check).
GrossWithinTotal == \A o \in LiveOrders : GrossPaid(o) <= orders[o].total \/ GrossPaid(o) = 0

\* The paid amount of an order is the balance of its payments whenever nothing is in flight.
PaidIsBalance ==
    (\A r \in PaySlots : preq[r].pc = "idle") =>
        \A o \in LiveOrders : orders[o].paid = NetPaid(o)

\* Each refund that is made, and answered with payment.refunded, is in what its payment
\* records as refunded.
MadeRefundsRecorded ==
    \A p \in LivePayments : refundSum[p] = payments[p].refunded

\* An order with payment status pending has received no payment.
PendingMeansUnpaid ==
    \A o \in LiveOrders : orders[o].payStatus = "pending" => PaymentsOf(o) = {}

-----------------------------------------------------------------------------
(* With one request at a time the service is the ledger it means to be. *)

Ledger == INSTANCE OrderLedger WITH
    due  <- [o \in Orders |-> orders[o].total],
    book <- [p \in Payments |-> IF p \in LivePayments
                 THEN [order |-> payments[p].order, amount |-> payments[p].amount,
                       refunded |-> payments[p].refunded]
                 ELSE [order |-> "none", amount |-> 0, refunded |-> 0]]

\* Each commit is one ledger entry, valid against the ledger as it is at the commit.
ImplementsLedger == Ledger!Spec
=============================================================================

------------------------ MODULE OrderPaymentsProofs ------------------------
(***************************************************************************)
(* Proofs about PaymentsService for any tables, amounts and number of      *)
(* requests in flight. The invariant PayInv of OrderPayments is inductive; *)
(* the facts about refunds follow from it.                                 *)
(***************************************************************************)
EXTENDS OrderPayments, FiniteSetTheorems, WellFoundedInduction, TLAPS

\* Among any subsets of a finite set, one contains no other: induction over a finite set.
LEMMA MinimalSubset ==
    \A S : IsFiniteSet(S) =>
        \A W \in SUBSET (SUBSET S) :
            W # {} => \E U \in W : \A V \in W : ~(V \subseteq U /\ V # U)
<1> SUFFICES ASSUME NEW S, IsFiniteSet(S), NEW T \in SUBSET (SUBSET S), T # {}
             PROVE  \E U \in T : \A V \in T : ~(V \subseteq U /\ V # U)
  OBVIOUS
<1>1. FiniteSubsetsOf(S) = SUBSET S
  BY FS_FiniteSubsetsOfFinite
<1>2. IsWellFoundedOn(StrictSubsetOrdering(S), SUBSET S)
  BY <1>1, FS_StrictSubsetOrderingWellFounded
<1>3. \E U \in T : \A V \in T : <<V, U>> \notin StrictSubsetOrdering(S)
  BY <1>2, WFMin
<1>4. PICK U \in T : \A V \in T : <<V, U>> \notin StrictSubsetOrdering(S)
  BY <1>3
<1>5. \A V \in T : ~(V \subseteq U /\ V # U)
  BY <1>4 DEF StrictSubsetOrdering
<1> QED BY <1>5

\* The highest number of a finite, non-empty set of numbers is one of them and above all.
LEMMA MaxOfNumbers ==
    ASSUME NEW S, \A x \in S : x \in Nat, S # {}, IsFiniteSet(S)
    PROVE  Max(S) \in S /\ \A y \in S : Max(S) >= y
<1>0. \A W \in SUBSET (SUBSET S) :
        W # {} => \E U \in W : \A V \in W : ~(V \subseteq U /\ V # U)
  BY MinimalSubset
<1> DEFINE HasMax(U) == \E x \in U : \A y \in U : x >= y
           T == {U \in SUBSET S : U # {} /\ ~HasMax(U)}
<1>1. SUFFICES ASSUME T # {} PROVE FALSE
  <2>1. T = {} => HasMax(S)
    OBVIOUS
  <2> QED BY <1>1, <2>1 DEF Max
<1>2. PICK U \in T : \A V \in T : ~(V \subseteq U /\ V # U)
  <2>2. T \in SUBSET (SUBSET S)
    OBVIOUS
  <2> HIDE DEF T
  <2>3. \E U \in T : \A V \in T : ~(V \subseteq U /\ V # U)
    BY <1>0, <1>1, <2>2
  <2> QED BY <2>3
<1>3. PICK x \in U : TRUE
  OBVIOUS
<1>4. CASE U \ {x} = {}
  BY <1>3, <1>4
<1>5. CASE U \ {x} # {}
  <2>1. HasMax(U \ {x})
    <3>1. U \ {x} \subseteq U /\ U \ {x} # U
      BY <1>3
    <3>2. U \ {x} \notin T
      BY <1>2, <3>1
    <3>3. U \ {x} \in SUBSET S
      BY <1>2
    <3> QED BY <3>2, <3>3, <1>5
  <2>2. PICK m \in U \ {x} : \A y \in U \ {x} : m >= y
    BY <2>1
  <2>3. m \in Nat /\ x \in Nat /\ U \subseteq Nat
    BY <1>3, <2>2
  <2>4. CASE x >= m
    <3>1. \A y \in U : x >= y
      BY <2>2, <2>3, <2>4
    <3> QED BY <3>1, <1>3
  <2>5. CASE ~(x >= m)
    <3>1. \A y \in U : m >= y
      BY <2>2, <2>3, <2>5
    <3> QED BY <3>1, <2>2
  <2> QED BY <2>4, <2>5
<1> QED BY <1>4, <1>5

\* generatePaymentNumber returns a number no payment of the table has.
LEMMA NextNumberIsNew ==
    ASSUME payments \in [Payments -> PaymentRow]
    PROVE  NextPaymentNumber \in Nat /\ NumberFree(NextPaymentNumber)
<1> DEFINE S == {payments[p].number : p \in LivePayments} \cup {0}
<1>1. S \subseteq Nat /\ S # {}
  BY DEF PaymentRow, LivePayments
<1>2. IsFiniteSet(LivePayments)
  BY SalesAssumption, FS_Subset DEF LivePayments
<1>3. IsFiniteSet({payments[p].number : p \in LivePayments})
  <2> DEFINE f == [p \in LivePayments |-> payments[p].number]
             N == {payments[p].number : p \in LivePayments}
  <2>1. f \in Surjection(LivePayments, N)
    BY DEF Surjection
  <2> HIDE DEF f, N
  <2>2. IsFiniteSet(N)
    BY <1>2, <2>1, FS_Surjection
  <2> QED BY <2>2 DEF N
<1>4. IsFiniteSet(S)
  BY <1>3, FS_AddElement
<1>5. Max(S) \in S /\ \A y \in S : Max(S) >= y
  BY <1>1, <1>4, MaxOfNumbers
<1> HIDE DEF S
<1>6. Max(S) \in Nat
  BY <1>1, <1>5
<1>7. \A p \in LivePayments : payments[p].number \in S /\ payments[p].number \in Nat
  BY DEF S, PaymentRow, LivePayments
<1>8. NextPaymentNumber = 1 + Max(S)
  BY DEF NextPaymentNumber, S
<1> QED BY <1>5, <1>6, <1>7, <1>8 DEF NumberFree

-----------------------------------------------------------------------------
(* PayInv is inductive. *)

\* A request slot is replaced by a sound request and the rows stay as they are.
LEMMA SlotReplaced ==
    ASSUME PayInv, NEW r \in PaySlots, NEW q,
           preq' = [preq EXCEPT ![r] = q],
           q = Idle \/ CreateInFlight(q) \/ RefundInFlight(q),
           UNCHANGED <<payments, refundSum>>
    PROVE  PayInv'
<1>1. PaymentRowsSound'
  BY DEF PayInv, PaymentRowsSound, RefundWithinPayment, RecordedRefundsMade,
         LivePayments
<1>2. preq' \in [PaySlots -> {preq'[x] : x \in PaySlots}]
  BY DEF PayInv, RequestsSound
<1>3. ASSUME NEW x \in PaySlots
      PROVE  preq'[x] = Idle \/ CreateInFlight(preq'[x]) \/ RefundInFlight(preq'[x])
  BY DEF PayInv, RequestsSound
<1>4. ASSUME NEW x \in PaySlots
      PROVE  (preq[x] = Idle \/ CreateInFlight(preq[x]) \/ RefundInFlight(preq[x]))'
  BY <1>3 DEF CreateInFlight, RefundInFlight
<1> QED BY <1>1, <1>2, <1>4 DEF PayInv, RequestsSound

\* An idle request is told by its program counter.
LEMMA IdleShape == Idle.pc = "idle"
BY DEF Idle

\* One request takes one step.
LEMMA PayStepKeeps ==
    ASSUME PayInv, NEW r \in PaySlots, PayStep(r)
    PROVE  PayInv'
<1>1. ASSUME NEW o \in Orders, NEW a \in Amounts, CreateRead(r, o, a) PROVE PayInv'
  <2> DEFINE q == [pc |-> "number", order |-> o, amount |-> a, paid |-> AlreadyPaid(o),
                   total |-> orders[o].total, number |-> 0]
  <2>1. CreateInFlight(q)
    BY DEF CreateInFlight
  <2> QED BY <1>1, <2>1, SlotReplaced DEF CreateRead
<1>2. ASSUME NEW p \in Payments, NEW a \in Amounts, RefundRead(r, p, a) PROVE PayInv'
  <2> DEFINE q == [pc |-> "update", payment |-> p, order |-> payments[p].order,
                   amount |-> a, size |-> payments[p].amount,
                   refunded |-> payments[p].refunded,
                   total |-> orders[payments[p].order].total, paid |-> 0]
  <2>1. p \in LivePayments /\ payments[p] \in PaymentRow
    BY <1>2 DEF RefundRead, LivePayments, PaymentStatus, PayInv, PaymentRowsSound
  <2>2. payments[p].order \in Orders /\ payments[p].refunded <= refundSum[p]
    BY <2>1 DEF PayInv, PaymentRowsSound, RecordedRefundsMade
  <2>3. a <= payments[p].amount - payments[p].refunded /\ payments[p].status = "completed"
    BY <1>2 DEF RefundRead, Refundable
  <2>4. payments[p].amount \in Nat /\ payments[p].refunded \in Nat /\ a \in Nat
    BY <2>1, SalesAssumption DEF PaymentRow
  <2>5. payments[p].refunded + a <= payments[p].amount
    BY <2>3, <2>4
  <2>6. RefundInFlight(q)
    BY <2>2, <2>3, <2>4, <2>5 DEF RefundInFlight
  <2> QED BY <1>2, <2>6, SlotReplaced DEF RefundRead
<1>3. CASE CreateNumber(r)
  <2> DEFINE q == [preq[r] EXCEPT !.pc = "commit", !.number = NextPaymentNumber]
  <2>1. preq[r].pc = "number" /\ CreateInFlight(preq[r])
    BY <1>3 DEF CreateNumber, PayInv, RequestsSound, RefundInFlight, Idle
  <2>2. NextPaymentNumber \in Nat
    BY NextNumberIsNew DEF PayInv, PaymentRowsSound
  <2>3. CreateInFlight(q)
    BY <2>1, <2>2 DEF CreateInFlight
  <2>4. preq' = [preq EXCEPT ![r] = q]
    BY <1>3 DEF CreateNumber, PayInv, RequestsSound
  <2> QED BY <1>3, <2>3, <2>4, SlotReplaced DEF CreateNumber
<1>4. ASSUME NEW p \in Payments, CreateCommit(r, p) PROVE PayInv'
  <2> DEFINE q == preq[r]
             row == [status |-> "completed", order |-> q.order, amount |-> q.amount,
                     refunded |-> 0, number |-> q.number]
  <2>1. q.pc = "commit" /\ CreateInFlight(q)
    BY <1>4 DEF CreateCommit, PayInv, RequestsSound, RefundInFlight, Idle
  <2>2. q.amount \in Nat \ {0} /\ q.order \in Orders /\ row \in PaymentRow
    BY <2>1, SalesAssumption DEF CreateInFlight, PaymentRow, PaymentStatus
  <2>3. payments' = [payments EXCEPT ![p] = row] /\ payments[p].status = "fresh"
    BY <1>4 DEF CreateCommit
  <2>4. payments' \in [Payments -> PaymentRow] /\ refundSum' = refundSum
    BY <1>4, <2>2, <2>3 DEF PayInv, PaymentRowsSound, CreateCommit
  <2>5. PaymentRowsSound'
    <3>1. ASSUME NEW x \in LivePayments'
          PROVE  /\ payments'[x].order \in Orders
                 /\ payments'[x].refunded <= payments'[x].amount
                 /\ payments'[x].status = "refunded"
                      <=> payments'[x].refunded = payments'[x].amount
                 /\ payments'[x].refunded <= refundSum'[x]
      <4>1. CASE x = p
        BY <2>2, <2>3, <2>4, <4>1 DEF PayInv, PaymentRowsSound
      <4>2. CASE x # p
        <5>1. payments'[x] = payments[x] /\ x \in LivePayments
          BY <2>3, <4>2 DEF LivePayments
        <5> QED BY <2>4, <5>1 DEF PayInv, PaymentRowsSound, RefundWithinPayment,
                                  RecordedRefundsMade
      <4> QED BY <4>1, <4>2
    <3> QED BY <2>4, <3>1 DEF PayInv, PaymentRowsSound, RefundWithinPayment,
                              RecordedRefundsMade
  <2>6. ASSUME NEW x \in PaySlots
        PROVE  (preq[x] = Idle \/ CreateInFlight(preq[x]) \/ RefundInFlight(preq[x]))'
    <3>1. CASE x = r
      BY <1>4, <3>1 DEF CreateCommit, PayInv, RequestsSound
    <3>2. CASE x # r
      <4>1. preq'[x] = preq[x]
        BY <1>4, <3>2 DEF CreateCommit, PayInv, RequestsSound
      <4>2. CASE RefundInFlight(preq[x])
        <5>1. preq[x].payment # p /\ preq[x].payment \in Payments
          BY <2>3, <4>2 DEF RefundInFlight
        <5>2. payments'[preq[x].payment] = payments[preq[x].payment]
          BY <2>3, <5>1 DEF PayInv, PaymentRowsSound
        <5>3. refundSum'[preq[x].payment] >= refundSum[preq[x].payment]
          BY <2>4, <5>1 DEF PayInv, PaymentRowsSound
        <5>4. payments[preq[x].payment].status # "fresh"
          BY <4>2 DEF RefundInFlight
        <5> QED BY <2>4, <4>1, <4>2, <5>2, <5>4 DEF RefundInFlight
      <4>3. CASE preq[x] = Idle \/ CreateInFlight(preq[x])
        BY <4>1, <4>3 DEF CreateInFlight
      <4> QED BY <4>2, <4>3 DEF PayInv, RequestsSound
    <3> QED BY <3>1, <3>2
  <2>7. preq' \in [PaySlots -> {preq'[x] : x \in PaySlots}]
    BY <1>4 DEF CreateCommit, PayInv, RequestsSound
  <2> QED BY <2>5, <2>6, <2>7 DEF PayInv, RequestsSound
<1>5. CASE RefundUpdate(r)
  <2> DEFINE q == [preq[r] EXCEPT !.pc = "sum"]
  <2>1. preq[r].pc = "update" /\ RefundInFlight(preq[r])
    BY <1>5 DEF RefundUpdate, PayInv, RequestsSound, CreateInFlight, Idle
  <2>2. RefundInFlight(q)
    BY <2>1 DEF RefundInFlight
  <2>3. preq' = [preq EXCEPT ![r] = q]
    BY <1>5 DEF RefundUpdate, PayInv, RequestsSound
  <2> QED BY <1>5, <2>2, <2>3, SlotReplaced DEF RefundUpdate
<1>6. CASE RefundSum(r)
  <2> DEFINE total == (preq[r].size - RefundedAfter(preq[r])) + OthersNet(preq[r])
             q == [preq[r] EXCEPT !.pc = "write", !.paid = total]
  <2>1. preq[r].pc = "sum" /\ RefundInFlight(preq[r])
    BY <1>6 DEF RefundSum, PayInv, RequestsSound, CreateInFlight, Idle
  <2>2. preq' = [preq EXCEPT ![r] = q] /\ UNCHANGED <<payments, refundSum>>
    BY <1>6 DEF RefundSum, PayInv, RequestsSound
  <2> HIDE DEF total
  <2>3. RefundInFlight(q)
    BY <2>1 DEF RefundInFlight
  <2> QED BY <2>2, <2>3, SlotReplaced
<1>7. CASE RefundCommit(r)
  <2> DEFINE q == preq[r]
             p == q.payment
             row == [payments[p] EXCEPT !.refunded = RefundedAfter(q),
                                        !.status = StatusAfter(q)]
  <2>1. q.pc = "write" /\ RefundInFlight(q)
    BY <1>7 DEF RefundCommit, PayInv, RequestsSound, CreateInFlight, Idle
  <2>2. /\ p \in Payments /\ q.refunded \in Nat /\ q.amount \in Nat \ {0} /\ q.size \in Nat
        /\ q.refunded + q.amount <= q.size /\ payments[p].amount = q.size
        /\ payments[p].status # "fresh" /\ payments[p].order = q.order /\ q.order \in Orders
        /\ q.refunded <= refundSum[p]
    BY <2>1, SalesAssumption DEF RefundInFlight
  <2>3. payments[p] \in PaymentRow /\ refundSum[p] \in Nat
    BY <2>2 DEF PayInv, PaymentRowsSound
  <2>4. /\ row \in PaymentRow /\ row.amount = q.size /\ row.order = q.order
        /\ row.refunded = q.refunded + q.amount
        /\ row.status = IF q.refunded + q.amount >= q.size THEN "refunded" ELSE "completed"
    <3>1. RefundedAfter(q) = q.refunded + q.amount /\ RefundedAfter(q) \in Nat
      BY <2>2 DEF RefundedAfter
    <3>2. StatusAfter(q) = IF q.refunded + q.amount >= q.size THEN "refunded" ELSE "completed"
      BY <3>1 DEF StatusAfter
    <3>3. StatusAfter(q) \in PaymentStatus
      BY <3>2 DEF PaymentStatus
    <3> QED BY <2>2, <2>3, <3>1, <3>2, <3>3 DEF PaymentRow
  <2>5. payments' = [payments EXCEPT ![p] = row]
    BY <1>7, <2>2 DEF RefundCommit, PayInv, PaymentRowsSound
  <2>6. refundSum' = [refundSum EXCEPT ![p] = refundSum[p] + q.amount]
    BY <1>7, <2>2 DEF RefundCommit, PayInv, PaymentRowsSound
  <2>7. payments' \in [Payments -> PaymentRow] /\ refundSum' \in [Payments -> Nat]
    BY <2>2, <2>3, <2>4, <2>5, <2>6 DEF PayInv, PaymentRowsSound
  <2>8. payments'[p] = row /\ refundSum'[p] = refundSum[p] + q.amount
    BY <2>2, <2>5, <2>6 DEF PayInv, PaymentRowsSound
  <2>9. \A x \in Payments \ {p} : payments'[x] = payments[x] /\ refundSum'[x] = refundSum[x]
    BY <2>5, <2>6 DEF PayInv, PaymentRowsSound
  <2> HIDE DEF row
  <2>10. PaymentRowsSound'
    <3>1. ASSUME NEW x \in LivePayments'
          PROVE  /\ payments'[x].order \in Orders
                 /\ payments'[x].refunded <= payments'[x].amount
                 /\ payments'[x].status = "refunded"
                      <=> payments'[x].refunded = payments'[x].amount
                 /\ payments'[x].refunded <= refundSum'[x]
      <4>1. CASE x = p
        BY <2>2, <2>3, <2>4, <2>8, <4>1
      <4>2. CASE x # p
        BY <2>9, <4>2 DEF LivePayments, PayInv, PaymentRowsSound, RefundWithinPayment,
                          RecordedRefundsMade
      <4> QED BY <4>1, <4>2
    <3> QED BY <2>7, <3>1 DEF PaymentRowsSound, RefundWithinPayment,
                              RecordedRefundsMade
  <2>11. ASSUME NEW x \in PaySlots
         PROVE  (preq[x] = Idle \/ CreateInFlight(preq[x]) \/ RefundInFlight(preq[x]))'
    <3>1. CASE x = r
      BY <1>7, <3>1 DEF RefundCommit, PayInv, RequestsSound
    <3>2. CASE x # r
      <4>1. preq'[x] = preq[x]
        BY <1>7, <3>2 DEF RefundCommit, PayInv, RequestsSound
      <4>2. CASE RefundInFlight(preq[x])
        <5> DEFINE y == preq[x].payment
        <5>1. y \in Payments /\ preq[x].refunded \in Nat /\ refundSum[y] \in Nat
          BY <4>2 DEF RefundInFlight, PayInv, PaymentRowsSound
        <5>2. /\ payments'[y].amount = payments[y].amount
              /\ payments'[y].order = payments[y].order
              /\ payments'[y].status # "fresh"
          <6>1. CASE y = p
            BY <2>2, <2>4, <2>8, <6>1
          <6>2. CASE y # p
            BY <2>9, <4>2, <5>1, <6>2 DEF RefundInFlight
          <6> QED BY <6>1, <6>2
        <5>3. preq[x].refunded <= refundSum'[y]
          BY <2>2, <2>3, <2>8, <2>9, <4>2, <5>1 DEF RefundInFlight
        <5> QED BY <4>1, <4>2, <5>2, <5>3 DEF RefundInFlight
      <4>3. CASE preq[x] = Idle \/ CreateInFlight(preq[x])
        BY <4>1, <4>3 DEF CreateInFlight
      <4> QED BY <4>2, <4>3 DEF PayInv, RequestsSound
    <3> QED BY <3>1, <3>2
  <2>12. preq' \in [PaySlots -> {preq'[x] : x \in PaySlots}]
    BY <1>7 DEF RefundCommit, PayInv, RequestsSound
  <2> QED BY <2>10, <2>11, <2>12 DEF PayInv, RequestsSound
<1>8. CASE PayAbort(r)
  BY <1>8, SlotReplaced DEF PayAbort
<1> QED
  BY <1>1, <1>2, <1>3, <1>4, <1>5, <1>6, <1>7, <1>8 DEF PayStep, PayArrive, PayProgress

\* The first state satisfies the invariant.
LEMMA PayInitSound ==
    ASSUME NoPaymentsYet, PayInit
    PROVE  PayInv
<1>1. payments \in [Payments -> PaymentRow] /\ LivePayments = {}
  BY DEF NoPaymentsYet, NoPayment, PaymentRow, LivePayments, PaymentStatus
<1> QED BY <1>1 DEF PayInit, PayInv, PaymentRowsSound, RequestsSound,
                    RefundWithinPayment, RecordedRefundsMade

\* A step that changes nothing keeps the invariant.
LEMMA PayStutter ==
    ASSUME PayInv, UNCHANGED pvars
    PROVE  PayInv'
BY DEF pvars, PayInv, PaymentRowsSound, RequestsSound, CreateInFlight, RefundInFlight,
       RefundWithinPayment, RecordedRefundsMade, LivePayments

\* The invariant holds at the start and is kept by every step and by stuttering.
THEOREM PayInvariant == PaySpec => []PayInv
<1>1. ASSUME PayInv, [PayNext]_pvars PROVE PayInv'
  BY <1>1, PayStepKeeps, PayStutter DEF PayNext
<1>2. PayStart => PayInv
  BY PayInitSound DEF PayStart
<1> QED BY <1>1, <1>2, PTL DEF PaySpec

\* Whatever refunds race, no payment is refunded beyond its amount, and it is marked
\* refunded exactly when all of it is (PaymentsService.refund).
THEOREM RefundsStayWithinPayment == PaySpec => []RefundWithinPayment
<1>1. PayInv => RefundWithinPayment
  BY DEF PayInv, PaymentRowsSound
<1> QED BY <1>1, PayInvariant, PTL

\* A payment never records more as refunded than the refunds of it that committed.
THEOREM RecordedRefundsWereMade == PaySpec => []RecordedRefundsMade
<1>1. PayInv => RecordedRefundsMade
  BY DEF PayInv, PaymentRowsSound
<1> QED BY <1>1, PayInvariant, PTL

\* A payment request leaves an order alone or writes its two payment columns, never its total or status.
LEMMA OrderColumns ==
    ASSUME StatusInv, NEW r \in PaySlots, NEW o \in Orders, NEW paid,
           preq[r].total = orders[o].total,
           orders' = [orders EXCEPT ![o].paid = paid,
                                    ![o].payStatus = PaidStatus(paid, preq[r].total)]
    PROVE  /\ OrderRowsSound' /\ StatusTellsPaid'
           /\ \A x \in Orders : orders'[x].total = orders[x].total /\ orders'[x].status = orders[x].status
<1> DEFINE status == PaidStatus(paid, preq[r].total)
           row == [orders[o] EXCEPT !.paid = paid, !.payStatus = status]
<1>1. status \in PaidStatuses
  BY DEF PaidStatus, PaidStatuses
<1>2. /\ status = "paid" => paid >= orders[o].total
      /\ status = "partial" => paid > 0 /\ ~(paid >= orders[o].total)
      /\ status = "pending" => ~(paid > 0)
  BY DEF PaidStatus
<1> HIDE DEF status
<1>3. /\ row.total = orders[o].total /\ row.paid = paid /\ row.payStatus = status
      /\ row.status = orders[o].status
      /\ row \in [status: OrderStatus \cup {"fresh", "deleted"}, total: Int, paid: {row.paid},
                 payStatus: PaidStatuses, number: Nat,
                 assignee: Techs \cup {"nobody"}]
  BY <1>1 DEF StatusInv, OrderRowsSound
<1>4. orders' = [orders EXCEPT ![o] = row]
  BY DEF StatusInv, OrderRowsSound, status
<1> HIDE DEF row
<1>5. orders' = [x \in Orders |-> IF x = o THEN row ELSE orders[x]]
  BY <1>4 DEF StatusInv, OrderRowsSound
<1>6. orders' \in [Orders -> {orders'[x] : x \in Orders}]
  BY <1>5
<1>7. orders'[o] = row /\ \A x \in Orders \ {o} : orders'[x] = orders[x]
  BY <1>5
<1>8. OrderRowsSound'
  BY <1>3, <1>6, <1>7 DEF StatusInv, OrderRowsSound
<1>9. StatusTellsPaid'
  <2>1. ASSUME NEW x \in LiveOrders'
        PROVE  LET w == orders'[x] IN
               /\ w.payStatus = "paid" => w.paid >= w.total
               /\ w.payStatus = "partial" => w.paid > 0 /\ ~(w.paid >= w.total)
               /\ w.payStatus = "pending" => ~(w.paid > 0)
    <3>1. CASE x = o
      BY <1>2, <1>3, <1>7, <3>1
    <3>2. CASE x # o
      BY <1>7, <3>2 DEF LiveOrders, StatusInv, StatusTellsPaid
    <3> QED BY <3>1, <3>2
  <2> QED BY <2>1 DEF StatusTellsPaid
<1> QED BY <1>3, <1>7, <1>8, <1>9

\* Every step of a request keeps the order rows and their statuses sound.
LEMMA StatusStepKeeps ==
    ASSUME StatusInv, NEW r \in PaySlots, PayStep(r)
    PROVE  StatusInv'
<1>1. PayInv'
  BY PayStepKeeps DEF StatusInv
<1>2. ASSUME UNCHANGED orders, TotalsCurrent' PROVE StatusInv'
  BY <1>1, <1>2 DEF StatusInv, OrderRowsSound, StatusTellsPaid, LiveOrders
<1>3. ASSUME NEW o \in Orders, NEW a \in Amounts, CreateRead(r, o, a) PROVE StatusInv'
  BY <1>2, <1>3 DEF CreateRead, StatusInv, PayInv, RequestsSound, TotalsCurrent
<1>4. ASSUME NEW p \in Payments, NEW a \in Amounts, RefundRead(r, p, a) PROVE StatusInv'
  BY <1>2, <1>4 DEF RefundRead, StatusInv, PayInv, RequestsSound, TotalsCurrent
<1>5. CASE CreateNumber(r) \/ RefundUpdate(r) \/ RefundSum(r)
  <2>1. preq' \in [PaySlots -> {preq'[x] : x \in PaySlots}]
    BY <1>1 DEF PayInv, RequestsSound
  <2>2. preq[r] \in [pc: {"number", "commit"}, order: Orders, amount: Amounts,
                     paid: {preq[r].paid}, total: {preq[r].total}, number: Nat]
        \/ preq[r] \in [pc: {"update", "sum", "write"}, payment: Payments, order: Orders,
                        amount: Amounts, size: Nat, refunded: Nat, total: {preq[r].total},
                        paid: {preq[r].paid}]
    BY <1>5 DEF StatusInv, PayInv, RequestsSound, CreateInFlight, RefundInFlight, Idle,
                CreateNumber, RefundUpdate, RefundSum
  <2>3. preq'[r].total = preq[r].total /\ preq'[r].order = preq[r].order /\ preq[r].pc # "idle"
    BY <1>5, <2>2 DEF CreateNumber, RefundUpdate, RefundSum, StatusInv, PayInv, RequestsSound
  <2>4. UNCHANGED orders /\ \A x \in PaySlots \ {r} : preq'[x] = preq[x]
    BY <1>5 DEF CreateNumber, RefundUpdate, RefundSum, StatusInv, PayInv, RequestsSound
  <2>5. TotalsCurrent'
    BY <2>3, <2>4 DEF StatusInv, TotalsCurrent
  <2> QED BY <1>2, <2>4, <2>5
<1>6. ASSUME NEW o \in Orders, NEW paid, o = preq[r].order,
             orders' = [orders EXCEPT ![o].paid = paid,
                                      ![o].payStatus = PaidStatus(paid, preq[r].total)],
             preq' = [preq EXCEPT ![r] = Idle], preq[r].pc # "idle"
      PROVE  StatusInv'
  <2>1. preq[r].total = orders[o].total
    BY <1>6 DEF StatusInv, TotalsCurrent
  <2>2. OrderRowsSound' /\ StatusTellsPaid' /\ \A x \in Orders : orders'[x].total = orders[x].total
    BY <1>6, <2>1, OrderColumns
  <2>3. \A x \in PaySlots : preq'[x] = IF x = r THEN Idle ELSE preq[x]
    BY <1>6 DEF StatusInv, PayInv, RequestsSound
  <2>4. \A x \in PaySlots : preq[x].pc # "idle" => preq[x].order \in Orders
    BY IdleShape DEF StatusInv, PayInv, RequestsSound, CreateInFlight, RefundInFlight
  <2>5. TotalsCurrent'
    BY <2>2, <2>3, <2>4, IdleShape DEF StatusInv, TotalsCurrent
  <2> QED BY <1>1, <2>2, <2>5 DEF StatusInv
<1>7. ASSUME NEW p \in Payments, CreateCommit(r, p) PROVE StatusInv'
  <2>1. preq[r].order \in Orders /\ preq[r].pc # "idle"
    BY <1>7 DEF CreateCommit, LiveOrders
  <2> QED BY <1>6, <1>7, <2>1 DEF CreateCommit
<1>8. CASE RefundCommit(r)
  <2>1. preq[r].order \in Orders /\ preq[r].pc # "idle"
    BY <1>8, IdleShape DEF RefundCommit, StatusInv, PayInv, RequestsSound, CreateInFlight,
                           RefundInFlight
  <2> QED BY <1>6, <1>8, <2>1 DEF RefundCommit
<1>9. CASE PayAbort(r)
  BY <1>2, <1>9, IdleShape DEF PayAbort, StatusInv, PayInv, RequestsSound, TotalsCurrent
<1> QED
  BY <1>3, <1>4, <1>5, <1>7, <1>8, <1>9 DEF PayStep, PayArrive, PayProgress

\* The first state satisfies the invariant of the order rows.
LEMMA PayStartSound ==
    ASSUME PayStart
    PROVE  StatusInv
<1> USE DEF PayStart
<1>0. PayInv
  BY PayInitSound
<1>1. \A o \in Orders :
        /\ orders[o].paid = 0 /\ orders[o].payStatus = "pending"
        /\ orders[o] \in [status: OrderStatus \cup {"fresh", "deleted"}, total: Int,
                         paid: {orders[o].paid}, payStatus: PaidStatuses, number: Nat,
                         assignee: Techs \cup {"nobody"}]
  <2> TAKE o \in Orders
  <2>1. PICK t \in Totals : orders[o] = [NoOrder EXCEPT !.status = "pending", !.total = t]
    BY DEF UnpaidOrders
  <2>2. orders[o] = [status |-> "pending", total |-> t, paid |-> 0, payStatus |-> "pending",
                     number |-> 0, assignee |-> "nobody"]
    BY <2>1 DEF NoOrder
  <2>3. t \in Int
    BY <2>1, SalesAssumption
  <2> QED BY <2>2, <2>3 DEF OrderStatus, PaidStatuses
<1>2. orders \in [Orders -> {orders[o] : o \in Orders}]
  BY DEF UnpaidOrders
<1>3. StatusTellsPaid
  BY <1>1 DEF StatusTellsPaid, LiveOrders
<1> QED BY <1>0, <1>1, <1>2, <1>3 DEF StatusInv, OrderRowsSound, TotalsCurrent, PayInit, Idle

\* A step that changes nothing keeps the invariant of the order rows.
LEMMA StatusStutter ==
    ASSUME StatusInv, UNCHANGED pvars
    PROVE  StatusInv'
<1>1. PayInv'
  BY PayStutter DEF StatusInv
<1> QED BY <1>1 DEF pvars, StatusInv, OrderRowsSound, TotalsCurrent, StatusTellsPaid, LiveOrders

\* The order's payment status always tells the paid amount stored beside it.
THEOREM StatusAlwaysTellsPaid == PaySpec => []StatusTellsPaid
<1>1. ASSUME StatusInv, [PayNext]_pvars PROVE StatusInv'
  BY <1>1, StatusStepKeeps, StatusStutter DEF PayNext
<1>2. PayStart => StatusInv
  BY PayStartSound
<1>3. StatusInv => StatusTellsPaid
  BY DEF StatusInv
<1> QED BY <1>1, <1>2, <1>3, PTL DEF PaySpec

-----------------------------------------------------------------------------
(* With one request at a time, the service implements the ledger. *)

\* The amounts a table records for the given payments, added up.
AmountSum(rows, S) == MapThenSumSet(LAMBDA p : rows[p].amount, S)

\* The sums over the subsets of U, each from the sum over one element less, as f has it.
Chosen(s) == CHOOSE x \in s : TRUE
SumsFrom(rows, f, U) ==
    [s \in SUBSET U |-> IF s = {} THEN 0 ELSE rows[Chosen(s)].amount + f[s \ {Chosen(s)}]]

\* Sums over subsets of different sets agree where both are defined.
LEMMA SumsAgree ==
    ASSUME NEW rows, NEW U, NEW V, IsFiniteSet(U), NEW f, NEW g,
           f = SumsFrom(rows, f, U), g = SumsFrom(rows, g, V), NEW w, w \subseteq U, w \subseteq V
    PROVE  f[w] = g[w]
<1> DEFINE Bad == {s \in SUBSET w : f[s] # g[s]}
<1>1. SUFFICES ASSUME Bad # {} PROVE FALSE
  OBVIOUS
<1>2. IsFiniteSet(w)
  BY FS_Subset
<1>3. PICK s \in Bad : \A v \in Bad : ~(v \subseteq s /\ v # s)
  <2>1. Bad \in SUBSET (SUBSET w)
    OBVIOUS
  <2> HIDE DEF Bad
  <2> QED BY <1>1, <1>2, <2>1, MinimalSubset
<1>4. s \subseteq U /\ s \subseteq V
  OBVIOUS
<1>5. f[s] = IF s = {} THEN 0 ELSE rows[Chosen(s)].amount + f[s \ {Chosen(s)}]
  BY <1>4 DEF SumsFrom
<1>6. g[s] = IF s = {} THEN 0 ELSE rows[Chosen(s)].amount + g[s \ {Chosen(s)}]
  BY <1>4 DEF SumsFrom
<1>7. s # {}
  BY <1>5, <1>6
<1>8. Chosen(s) \in s
  BY <1>7 DEF Chosen
<1>9. s \ {Chosen(s)} \notin Bad
  BY <1>3, <1>8
<1>10. f[s \ {Chosen(s)}] = g[s \ {Chosen(s)}]
  BY <1>9
<1> QED BY <1>5, <1>6, <1>10

\* The sums over the subsets of a finite set exist.
LEMMA SumsExist ==
    ASSUME NEW rows, NEW S, IsFiniteSet(S)
    PROVE  \E f : f = SumsFrom(rows, f, S)
<1> DEFINE Has(U) == \E f : f = SumsFrom(rows, f, U)
           Bad == {U \in SUBSET S : ~Has(U)}
<1>1. SUFFICES ASSUME Bad # {} PROVE FALSE
  OBVIOUS
<1>2. PICK U \in Bad : \A V \in Bad : ~(V \subseteq U /\ V # U)
  <2>1. Bad \in SUBSET (SUBSET S)
    OBVIOUS
  <2> HIDE DEF Bad
  <2> QED BY <1>1, <2>1, MinimalSubset
<1>3. ASSUME NEW V, V \subseteq U, V # U PROVE Has(V)
  BY <1>2, <1>3
<1> DEFINE Fun(V) == CHOOSE f : f = SumsFrom(rows, f, V)
           g == [s \in SUBSET U |->
                    IF s = {} THEN 0 ELSE rows[Chosen(s)].amount + Fun(s \ {Chosen(s)})[s \ {Chosen(s)}]]
<1>4. ASSUME NEW V, V \subseteq U, V # U PROVE Fun(V) = SumsFrom(rows, Fun(V), V)
  BY <1>3, <1>4
<1>5. ASSUME NEW s \in SUBSET U, s # U PROVE g[s] = Fun(s)[s]
  <2>1. CASE s = {}
    <3>1. Fun(s) = SumsFrom(rows, Fun(s), s)
      BY <1>4, <1>5
    <3> HIDE DEF Fun
    <3> QED BY <2>1, <3>1 DEF SumsFrom
  <2>2. CASE s # {}
    <3> DEFINE v == s \ {Chosen(s)}
    <3>1. v \subseteq s /\ v \subseteq U /\ v # U
      BY <1>5
    <3>2. Fun(s) = SumsFrom(rows, Fun(s), s) /\ Fun(v) = SumsFrom(rows, Fun(v), v)
      BY <1>4, <1>5, <3>1
    <3>3. IsFiniteSet(s) /\ IsFiniteSet(v)
      BY FS_Subset
    <3> HIDE DEF Fun
    <3>4. Fun(s)[v] = Fun(v)[v]
      BY <3>1, <3>2, <3>3, SumsAgree
    <3>5. Fun(s)[s] = rows[Chosen(s)].amount + Fun(s)[v]
      BY <2>2, <3>2 DEF SumsFrom
    <3> QED BY <2>2, <3>4, <3>5
  <2> QED BY <2>1, <2>2
<1>6. g = SumsFrom(rows, g, U)
  <2>1. ASSUME NEW s \in SUBSET U, s # {} PROVE g[s \ {Chosen(s)}] = Fun(s \ {Chosen(s)})[s \ {Chosen(s)}]
    <3>1. Chosen(s) \in s
      BY <2>1 DEF Chosen
    <3>2. s \ {Chosen(s)} \in SUBSET U /\ s \ {Chosen(s)} # U
      BY <3>1
    <3> HIDE DEF g, Fun
    <3> QED BY <1>5, <3>2
  <2> HIDE DEF Fun
  <2> QED BY <2>1 DEF SumsFrom
<1>7. Has(U)
  BY <1>6
<1> QED BY <1>7

\* The sum over a finite set does not depend on the order in which the elements are taken.
LEMMA SumOverSet ==
    ASSUME NEW rows, NEW S, IsFiniteSet(S), \A x \in S : rows[x].amount \in Nat
    PROVE  /\ AmountSum(rows, S) \in Nat
           /\ S = {} => AmountSum(rows, S) = 0
           /\ \A x \in S : AmountSum(rows, S) = rows[x].amount + AmountSum(rows, S \ {x})
<1>1. PICK f : f = SumsFrom(rows, f, S)
  BY SumsExist
<1>2. ASSUME NEW T \in SUBSET S PROVE AmountSum(rows, T) = f[T]
  <2>1. IsFiniteSet(T)
    BY FS_Subset
  <2> DEFINE g == CHOOSE g : g = SumsFrom(rows, g, T)
  <2>2. g = SumsFrom(rows, g, T)
    BY <2>1, SumsExist
  <2>3. AmountSum(rows, T) = g[T]
    BY Zenon DEF AmountSum, MapThenSumSet, MapThenFoldSet, SumsFrom, Chosen
  <2> HIDE DEF g
  <2> QED BY <1>1, <2>1, <2>2, <2>3, SumsAgree
<1>3. ASSUME NEW s \in SUBSET S
      PROVE  f[s] = IF s = {} THEN 0 ELSE rows[Chosen(s)].amount + f[s \ {Chosen(s)}]
  BY <1>1 DEF SumsFrom
<1> DEFINE Good(s) == /\ f[s] \in Nat
                      /\ \A x \in s : f[s] = rows[x].amount + f[s \ {x}]
           Bad == {s \in SUBSET S : ~Good(s)}
<1>4. ASSUME Bad # {} PROVE FALSE
  <2>1. PICK s \in Bad : \A v \in Bad : ~(v \subseteq s /\ v # s)
    <3>1. Bad \in SUBSET (SUBSET S)
      OBVIOUS
    <3> HIDE DEF Bad
    <3> QED BY <1>4, <3>1, MinimalSubset
  <2>2. s # {}
    <3>1. f[{}] = 0
      BY <1>3
    <3> QED BY <3>1
  <2> PICK c : c = Chosen(s)
    OBVIOUS
  <2>3. c \in s /\ f[s] = rows[c].amount + f[s \ {c}]
    BY <1>3, <2>2 DEF Chosen
  <2>4. ASSUME NEW x \in s PROVE Good(s \ {x})
    <3>1. s \ {x} \notin Bad
      BY <2>1
    <3> QED BY <3>1
  <2>5. ASSUME NEW x \in s, x # c PROVE f[s] = rows[x].amount + f[s \ {x}]
    <3>1. x \in s \ {c} /\ c \in s \ {x} /\ (s \ {c}) \ {x} = (s \ {x}) \ {c}
      BY <2>3, <2>5
    <3>2. f[s \ {c}] = rows[x].amount + f[(s \ {c}) \ {x}]
      BY <2>3, <2>4, <3>1
    <3>3. f[s \ {x}] = rows[c].amount + f[(s \ {x}) \ {c}]
      BY <2>4, <3>1
    <3>4. f[(s \ {x}) \ {c}] \in Nat
      <4>1. (s \ {x}) \ {c} \notin Bad
        BY <2>1, <3>1
      <4> QED BY <4>1
    <3>5. rows[x].amount \in Nat /\ rows[c].amount \in Nat
      BY <2>3
    <3> HIDE DEF Bad, Good
    <3>6. PICK e \in Nat : e = f[(s \ {x}) \ {c}]
      BY <3>4
    <3>7. f[s \ {c}] = rows[x].amount + e /\ f[s \ {x}] = rows[c].amount + e
      BY <3>1, <3>2, <3>3, <3>6
    <3> QED BY <2>3, <3>5, <3>7
  <2>6. f[s] \in Nat
    <3>1. rows[c].amount \in Nat /\ f[s \ {c}] \in Nat
      BY <2>3, <2>4
    <3> QED BY <2>3, <3>1
  <2>7. Good(s)
    BY <2>3, <2>5, <2>6
  <2> QED BY <2>1, <2>7
<1>5. Good(S)
  BY <1>4
<1>6. f[{}] = 0
  BY <1>3
<1> QED BY <1>2, <1>5, <1>6

\* Two tables that agree on the amounts of some payments have the same sum of them.
LEMMA SameAmountsSameSum ==
    ASSUME NEW a, NEW b, NEW S, \A x \in S : a[x].amount = b[x].amount
    PROVE  AmountSum(a, S) = AmountSum(b, S)
<1>1. AmountSum(a, S) = (CHOOSE i : i = SumsFrom(a, i, S))[S]
  BY Zenon DEF AmountSum, MapThenSumSet, MapThenFoldSet, SumsFrom, Chosen
<1>2. AmountSum(b, S) = (CHOOSE i : i = SumsFrom(b, i, S))[S]
  BY Zenon DEF AmountSum, MapThenSumSet, MapThenFoldSet, SumsFrom, Chosen
<1>3. \A i : SumsFrom(a, i, S) = SumsFrom(b, i, S)
  <2>1. ASSUME NEW s \in SUBSET S, s # {}
        PROVE  a[Chosen(s)].amount = b[Chosen(s)].amount
    <3>1. Chosen(s) \in s
      BY <2>1 DEF Chosen
    <3> QED BY <2>1, <3>1
  <2> QED BY <2>1 DEF SumsFrom
<1>4. (CHOOSE i : i = SumsFrom(a, i, S)) = (CHOOSE i : i = SumsFrom(b, i, S))
  BY <1>3, Zenon
<1> QED BY <1>1, <1>2, <1>4

\* The payment table as the ledger keeps it.
LedgerBook ==
    [p \in Payments |-> IF p \in LivePayments
         THEN [order |-> payments[p].order, amount |-> payments[p].amount,
               refunded |-> payments[p].refunded]
         ELSE [order |-> "none", amount |-> 0, refunded |-> 0]]

LedgerDue == [o \in Orders |-> orders[o].total]

CompletedOf(o) == {p \in PaymentsOf(o) : payments[p].status = "completed"}

\* What create counts as paid on an order is what the ledger counts for it.
LEMMA GrossIsCounted ==
    ASSUME StatusInv, NEW o \in Orders
    PROVE  Ledger!Counted(o) = GrossPaid(o)
<1>1. ASSUME NEW p \in Payments
      PROVE  /\ p \in LivePayments => /\ LedgerBook[p].order = payments[p].order
                                      /\ LedgerBook[p].amount = payments[p].amount
                                      /\ LedgerBook[p].refunded = payments[p].refunded
             /\ p \notin LivePayments => LedgerBook[p].order = "none"
  BY DEF LedgerBook
<1>2. Ledger!Open(o) = {p \in Payments : LedgerBook[p].order = o
                                           /\ LedgerBook[p].refunded < LedgerBook[p].amount}
  BY Zenon DEF Ledger!Open, LedgerBook
<1>3. Ledger!Open(o) = CompletedOf(o)
  <2>1. ASSUME NEW p \in LivePayments
        PROVE  /\ payments[p].status \in {"completed", "refunded"}
               /\ payments[p].refunded \in Nat /\ payments[p].amount \in Nat
               /\ payments[p].refunded <= payments[p].amount
               /\ payments[p].status = "refunded" <=> payments[p].refunded = payments[p].amount
    BY DEF StatusInv, PayInv, PaymentRowsSound, RefundWithinPayment, PaymentRow, LivePayments,
           PaymentStatus
  <2>2. ASSUME NEW p \in LivePayments
        PROVE  payments[p].refunded < payments[p].amount <=> payments[p].status = "completed"
    BY <2>1
  <2>3. ASSUME NEW p \in Payments
        PROVE  (LedgerBook[p].order = o /\ LedgerBook[p].refunded < LedgerBook[p].amount)
                 <=> p \in CompletedOf(o)
    <3>1. CASE p \in LivePayments
      BY <1>1, <2>2, <3>1 DEF CompletedOf, PaymentsOf
    <3>2. CASE p \notin LivePayments
      BY <1>1, <3>2, SalesAssumption DEF CompletedOf, PaymentsOf
    <3> QED BY <3>1, <3>2
  <2>4. CompletedOf(o) \subseteq Payments
    BY DEF CompletedOf, PaymentsOf, LivePayments
  <2> QED BY <1>2, <2>3, <2>4
<1>4. Ledger!Counted(o) = AmountSum(LedgerBook, Ledger!Open(o))
  BY Zenon DEF Ledger!Counted, Ledger!MapThenSumSet, Ledger!MapThenFoldSet, LedgerBook,
                AmountSum, MapThenSumSet, MapThenFoldSet
<1>5. GrossPaid(o) = AmountSum(payments, CompletedOf(o))
  BY Zenon DEF GrossPaid, AmountSum, CompletedOf
<1>6. \A p \in CompletedOf(o) : LedgerBook[p].amount = payments[p].amount
  BY <1>1 DEF CompletedOf, PaymentsOf, LivePayments
<1> QED BY <1>3, <1>4, <1>5, <1>6, SameAmountsSameSum

\* What the only request in flight has read still holds when it commits: a create's amount
\* still fits the order, and the refunded amount a refund starts from is still the payment's.
ReadingsCurrent ==
    \A r \in PaySlots :
        LET q == preq[r] IN
        /\ q.pc \in {"number", "commit"} =>
              GrossPaid(q.order) + q.amount <= orders[q.order].total
        /\ q.pc \in {"update", "sum", "write"} =>
              q.payment \in LivePayments /\ payments[q.payment].refunded = q.refunded

SerialInv == StatusInv /\ ReadingsCurrent

\* The ledger's two variables, as the service's tables show them.
LEMMA LedgerVariables ==
    /\ Ledger!vars = <<LedgerDue, LedgerBook>>
    /\ Ledger!vars' = <<LedgerDue', LedgerBook'>>
BY DEF Ledger!vars, LedgerDue, LedgerBook

\* A step that leaves the two tables alone is a stutter of the ledger.
LEMMA TablesAloneLedgerAlone ==
    ASSUME UNCHANGED <<orders, payments>>
    PROVE  UNCHANGED Ledger!vars
BY LedgerVariables DEF LedgerDue, LedgerBook, LivePayments

\* A request that writes an order's two payment columns leaves what is due alone.
LEMMA DueStays ==
    ASSUME StatusInv, StatusInv', \A o \in Orders : orders'[o].total = orders[o].total
    PROVE  LedgerDue' = LedgerDue
BY DEF LedgerDue

\* The commit of a create is a payment entered in the ledger, and the commit of a refund a
\* refund entered there; no other step of a request changes the ledger.
LEMMA StepIsLedgerStep ==
    ASSUME SerialInv, NEW r \in PaySlots, PayStep(r)
    PROVE  [Ledger!Next]_(Ledger!vars)
<1>0. StatusInv' /\ StatusInv
  BY StatusStepKeeps DEF SerialInv
<1>1. ASSUME UNCHANGED <<orders, payments>> PROVE [Ledger!Next]_(Ledger!vars)
  BY <1>1, TablesAloneLedgerAlone
<1>2. ASSUME NEW p \in Payments, CreateCommit(r, p) PROVE Ledger!Next
  <2> DEFINE q == preq[r]
             entry == [order |-> q.order, amount |-> q.amount, refunded |-> 0]
  <2>1. q.pc = "commit" /\ CreateInFlight(q)
    BY <1>0, <1>2 DEF CreateCommit, StatusInv, PayInv, RequestsSound, RefundInFlight, Idle
  <2>2. q.order \in Orders /\ q.amount \in Amounts
    BY <2>1 DEF CreateInFlight
  <2>3. LedgerBook[p] = [order |-> "none", amount |-> 0, refunded |-> 0]
    <3>1. p \notin LivePayments
      BY <1>2 DEF CreateCommit, LivePayments, PaymentStatus
    <3> QED BY <3>1 DEF LedgerBook
  <2>4. Ledger!Counted(q.order) + q.amount <= LedgerDue[q.order]
    <3>1. GrossPaid(q.order) + q.amount <= orders[q.order].total
      BY <2>1 DEF SerialInv, ReadingsCurrent
    <3>2. Ledger!Counted(q.order) = GrossPaid(q.order)
      BY <1>0, <2>2, GrossIsCounted
    <3>3. LedgerDue[q.order] = orders[q.order].total
      BY <2>2 DEF LedgerDue
    <3> QED BY <3>1, <3>2, <3>3
  <2>5. LedgerBook' = [LedgerBook EXCEPT ![p] = entry]
    <3>1. payments' = [payments EXCEPT ![p] =
            [status |-> "completed", order |-> q.order, amount |-> q.amount,
             refunded |-> 0, number |-> q.number]]
      BY <1>2 DEF CreateCommit
    <3>2. payments \in [Payments -> PaymentRow]
      BY <1>0 DEF StatusInv, PayInv, PaymentRowsSound
    <3>3. /\ payments'[p].status = "completed" /\ payments'[p].order = q.order
          /\ payments'[p].amount = q.amount /\ payments'[p].refunded = 0
      BY <3>1, <3>2
    <3>4. \A x \in Payments \ {p} : payments'[x] = payments[x]
      BY <3>1, <3>2
    <3>5. p \in LivePayments' /\ \A x \in Payments \ {p} : x \in LivePayments' <=> x \in LivePayments
      BY <3>3, <3>4 DEF LivePayments, PaymentStatus
    <3>6. LedgerBook'[p] = entry
      BY <3>3, <3>5 DEF LedgerBook
    <3>7. \A x \in Payments \ {p} : LedgerBook'[x] = LedgerBook[x]
      BY <3>4, <3>5 DEF LedgerBook
    <3>8. LedgerBook = [x \in Payments |-> LedgerBook[x]]
          /\ LedgerBook' = [x \in Payments |-> LedgerBook'[x]]
      BY DEF LedgerBook
    <3> HIDE DEF entry
    <3> QED BY <3>6, <3>7, <3>8
  <2>6. LedgerDue' = LedgerDue
    <3>1. orders' = [orders EXCEPT ![q.order].paid = PaidAfter(q),
                                   ![q.order].payStatus = PaidStatus(PaidAfter(q), q.total)]
      BY <1>2 DEF CreateCommit
    <3>2. q.total = orders[q.order].total
      BY <1>0, <2>1 DEF StatusInv, TotalsCurrent
    <3>3. \A o \in Orders : orders'[o].total = orders[o].total
      BY <1>0, <2>2, <3>1, <3>2, OrderColumns
    <3> QED BY <1>0, <3>3, DueStays
  <2>7. PICK o \in Orders, a \in Amounts : o = q.order /\ a = q.amount
    BY <2>2
  <2>8. Ledger!Pay(p, o, a)
    BY <2>3, <2>4, <2>5, <2>6, <2>7 DEF Ledger!Pay, Ledger!NoEntry, LedgerBook, LedgerDue
  <2> QED BY <2>8 DEF Ledger!Next
<1>3. CASE RefundCommit(r)
  <2> DEFINE q == preq[r]
             p == q.payment
  <2>1. q.pc = "write" /\ RefundInFlight(q)
    BY <1>0, <1>3 DEF RefundCommit, StatusInv, PayInv, RequestsSound, CreateInFlight, Idle
  <2>2. /\ p \in Payments /\ q.order \in Orders /\ q.amount \in Amounts
        /\ q.refunded \in Nat /\ q.size \in Nat
        /\ q.refunded + q.amount <= q.size /\ payments[p].amount = q.size
    BY <2>1 DEF RefundInFlight
  <2>3. p \in LivePayments /\ payments[p].refunded = q.refunded
    BY <2>1 DEF SerialInv, ReadingsCurrent
  <2>4. /\ LedgerBook[p].refunded = q.refunded
        /\ LedgerBook[p] = [order |-> payments[p].order, amount |-> payments[p].amount,
                            refunded |-> payments[p].refunded]
    BY <2>2, <2>3 DEF LedgerBook
  <2>5. LedgerBook' = [LedgerBook EXCEPT ![p].refunded = @ + q.amount]
    <3>1. payments' = [payments EXCEPT ![p].refunded = RefundedAfter(q),
                                       ![p].status = StatusAfter(q)]
      BY <1>3 DEF RefundCommit
    <3>2. payments \in [Payments -> PaymentRow] /\ payments[p] \in PaymentRow
      BY <1>0, <2>2 DEF StatusInv, PayInv, PaymentRowsSound
    <3>3. StatusAfter(q) \in PaymentStatus
      BY DEF StatusAfter, PaymentStatus
    <3>4. /\ payments'[p].status \in PaymentStatus
          /\ payments'[p].order = payments[p].order
          /\ payments'[p].amount = payments[p].amount
          /\ payments'[p].refunded = q.refunded + q.amount
      BY <2>2, <3>1, <3>2, <3>3 DEF RefundedAfter, PaymentRow
    <3>5. \A x \in Payments \ {p} : payments'[x] = payments[x]
      BY <3>1, <3>2
    <3>6. p \in LivePayments' /\ \A x \in Payments \ {p} : x \in LivePayments' <=> x \in LivePayments
      BY <2>2, <3>4, <3>5 DEF LivePayments
    <3>7. LedgerBook'[p] = [order |-> payments[p].order, amount |-> payments[p].amount,
                            refunded |-> q.refunded + q.amount]
      BY <2>2, <3>4, <3>6 DEF LedgerBook
    <3>8. \A x \in Payments \ {p} : LedgerBook'[x] = LedgerBook[x]
      BY <3>5, <3>6 DEF LedgerBook
    <3>9. LedgerBook = [x \in Payments |-> LedgerBook[x]]
          /\ LedgerBook' = [x \in Payments |-> LedgerBook'[x]]
      BY DEF LedgerBook
    <3>10. LedgerBook'[p] = [LedgerBook[p] EXCEPT !.refunded = @ + q.amount]
      BY <2>3, <2>4, <3>7
    <3> QED BY <2>2, <3>8, <3>9, <3>10
  <2>6. LedgerDue' = LedgerDue
    <3>1. orders' = [orders EXCEPT ![q.order].paid = q.paid,
                                   ![q.order].payStatus = PaidStatus(q.paid, q.total)]
      BY <1>3 DEF RefundCommit
    <3>2. q.total = orders[q.order].total
      BY <1>0, <2>1 DEF StatusInv, TotalsCurrent
    <3>3. \A o \in Orders : orders'[o].total = orders[o].total
      BY <1>0, <2>2, <3>1, <3>2, OrderColumns
    <3> QED BY <1>0, <3>3, DueStays
  <2>7. LedgerBook[p].refunded + q.amount <= LedgerBook[p].amount
    BY <2>2, <2>3, <2>4
  <2>8. PICK x \in Payments, a \in Amounts : x = p /\ a = q.amount
    BY <2>2
  <2>9. Ledger!Refund(x, a)
    BY <2>5, <2>6, <2>7, <2>8 DEF Ledger!Refund, LedgerBook, LedgerDue
  <2> QED BY <2>9 DEF Ledger!Next
<1>4. CASE CreateNumber(r) \/ RefundUpdate(r) \/ RefundSum(r) \/ PayAbort(r)
  BY <1>1, <1>4 DEF CreateNumber, RefundUpdate, RefundSum, PayAbort
<1>5. ASSUME NEW o \in Orders, NEW a \in Amounts, CreateRead(r, o, a)
      PROVE  [Ledger!Next]_(Ledger!vars)
  BY <1>1, <1>5 DEF CreateRead
<1>6. ASSUME NEW p \in Payments, NEW a \in Amounts, RefundRead(r, p, a)
      PROVE  [Ledger!Next]_(Ledger!vars)
  BY <1>1, <1>6 DEF RefundRead
<1> QED
  BY <1>2, <1>3, <1>4, <1>5, <1>6 DEF PayStep, PayArrive, PayProgress

GrossSummed == \A o : GrossPaid(o) = AmountSum(payments, CompletedOf(o))

\* What create counts as paid on an order is the sum of its completed payments' amounts.
LEMMA GrossIsSum == GrossSummed
BY Zenon DEF GrossSummed, GrossPaid, AmountSum, CompletedOf

\* What was paid on an order is told by the payment rows alone.
LEMMA SameRowsSameGross ==
    ASSUME UNCHANGED payments
    PROVE  /\ \A o : GrossPaid(o)' = GrossPaid(o)
           /\ LivePayments' = LivePayments
<1>1. LivePayments' = LivePayments
  BY DEF LivePayments
<1>2. ASSUME NEW o PROVE GrossPaid(o)' = GrossPaid(o)
  <2>1. CompletedOf(o)' = CompletedOf(o)
    BY <1>1 DEF CompletedOf, PaymentsOf
  <2>2. AmountSum(payments', CompletedOf(o)') = AmountSum(payments, CompletedOf(o))
    BY <2>1
  <2>3. GrossSummed'
    BY GrossIsSum, PTL
  <2> QED BY <2>2, <2>3, GrossIsSum DEF GrossSummed
<1> QED BY <1>1, <1>2

\* The only request in flight keeps its readings current while it runs.
LEMMA ReadingsStay ==
    ASSUME SerialInv, \A r, s \in PaySlots : r = s, NEW r \in PaySlots, PayStep(r)
    PROVE  ReadingsCurrent'
<1>0. StatusInv /\ preq \in [PaySlots -> {preq[s] : s \in PaySlots}]
  BY DEF SerialInv, StatusInv, PayInv, RequestsSound
<1>1. ASSUME preq'[r].pc = "idle" PROVE ReadingsCurrent'
  BY <1>1 DEF ReadingsCurrent
<1>2. ASSUME UNCHANGED <<orders, payments>>
      PROVE  /\ \A o : GrossPaid(o)' = GrossPaid(o)
             /\ LivePayments' = LivePayments
  BY <1>2, SameRowsSameGross
<1>3. ASSUME NEW o \in Orders, NEW a \in Amounts, CreateRead(r, o, a) PROVE ReadingsCurrent'
  <2>1. preq'[r].pc = "number" /\ preq'[r].order = o /\ preq'[r].amount = a
    BY <1>0, <1>3 DEF CreateRead
  <2>2. GrossPaid(o) + a <= orders[o].total /\ UNCHANGED <<orders, payments>>
    BY <1>3 DEF CreateRead, AlreadyPaid
  <2>3. GrossPaid(o)' = GrossPaid(o)
    BY <1>2, <2>2
  <2> QED BY <2>1, <2>2, <2>3 DEF ReadingsCurrent
<1>4. ASSUME NEW p \in Payments, NEW a \in Amounts, RefundRead(r, p, a) PROVE ReadingsCurrent'
  <2>1. preq'[r].pc = "update" /\ preq'[r].payment = p
        /\ preq'[r].refunded = payments[p].refunded
    BY <1>0, <1>4 DEF RefundRead
  <2>2. p \in LivePayments /\ UNCHANGED <<orders, payments>>
    BY <1>4 DEF RefundRead, LivePayments, PaymentStatus
  <2> QED BY <1>2, <2>1, <2>2 DEF ReadingsCurrent
<1>5. CASE CreateNumber(r)
  <2>1. preq[r].pc = "number" /\ CreateInFlight(preq[r]) /\ UNCHANGED <<orders, payments>>
    BY <1>0, <1>5 DEF CreateNumber, StatusInv, PayInv, RequestsSound, RefundInFlight, Idle
  <2>2. preq'[r].pc = "commit" /\ preq'[r].order = preq[r].order
        /\ preq'[r].amount = preq[r].amount
    BY <1>0, <1>5, <2>1 DEF CreateNumber, CreateInFlight
  <2>3. GrossPaid(preq[r].order) + preq[r].amount <= orders[preq[r].order].total
    BY <2>1 DEF SerialInv, ReadingsCurrent
  <2> QED BY <1>2, <2>1, <2>2, <2>3 DEF ReadingsCurrent
<1>6. CASE RefundUpdate(r) \/ RefundSum(r)
  <2>1. /\ preq[r].pc \in {"update", "sum"} /\ RefundInFlight(preq[r])
        /\ UNCHANGED <<orders, payments>>
    BY <1>0, <1>6 DEF RefundUpdate, RefundSum, StatusInv, PayInv, RequestsSound,
                      CreateInFlight, Idle
  <2>2. preq'[r].pc \in {"sum", "write"} /\ preq'[r].payment = preq[r].payment
        /\ preq'[r].refunded = preq[r].refunded
    BY <1>0, <1>6, <2>1 DEF RefundUpdate, RefundSum, RefundInFlight
  <2>3. preq[r].payment \in LivePayments
        /\ payments[preq[r].payment].refunded = preq[r].refunded
    BY <2>1 DEF SerialInv, ReadingsCurrent
  <2> QED BY <1>2, <2>1, <2>2, <2>3 DEF ReadingsCurrent
<1>7. ASSUME \/ \E p \in Payments : CreateCommit(r, p)
             \/ RefundCommit(r)
             \/ PayAbort(r)
      PROVE  ReadingsCurrent'
  <2>1. preq'[r] = Idle
    BY <1>0, <1>7 DEF CreateCommit, RefundCommit, PayAbort
  <2> QED BY <1>1, <2>1, IdleShape
<1> QED
  BY <1>3, <1>4, <1>5, <1>6, <1>7 DEF PayStep, PayArrive, PayProgress

\* While one request is handled at a time, every commit of create and refund is one valid
\* ledger entry: no order is charged beyond its total and no payment refunded beyond its
\* amount against the ledger as it is at that commit.
THEOREM OneAtATimeIsTheLedger ==
    ASSUME \A r, s \in PaySlots : r = s
    PROVE  PaySpec => ImplementsLedger
<1>1. ASSUME PayStart PROVE SerialInv /\ Ledger!Init
  <2>1. StatusInv
    BY <1>1, PayStartSound
  <2>2. ReadingsCurrent
    BY <1>1, IdleShape DEF PayStart, PayInit, ReadingsCurrent
  <2>3. LivePayments = {}
    BY <1>1 DEF PayStart, NoPaymentsYet, NoPayment, LivePayments, PaymentStatus
  <2>4. LedgerBook = [p \in Payments |-> [order |-> "none", amount |-> 0, refunded |-> 0]]
    BY <2>3 DEF LedgerBook
  <2>5. LedgerDue \in [Orders -> Int]
    BY <2>1 DEF LedgerDue, StatusInv, OrderRowsSound
  <2>6. Ledger!Init
    BY <2>4, <2>5 DEF Ledger!Init, Ledger!NoEntry, LedgerBook, LedgerDue
  <2> QED BY <2>1, <2>2, <2>6 DEF SerialInv
<1>2. ASSUME SerialInv, [PayNext]_pvars PROVE SerialInv' /\ [Ledger!Next]_(Ledger!vars)
  <2>1. CASE PayNext
    BY <1>2, <2>1, StatusStepKeeps, ReadingsStay, StepIsLedgerStep DEF PayNext, SerialInv
  <2>2. CASE UNCHANGED pvars
    <3>1. StatusInv'
      BY <1>2, <2>2, StatusStutter DEF SerialInv
    <3>2. ReadingsCurrent'
      BY <1>2, <2>2, SameRowsSameGross DEF pvars, SerialInv, ReadingsCurrent
    <3>3. UNCHANGED Ledger!vars
      BY <2>2, TablesAloneLedgerAlone DEF pvars
    <3> QED BY <3>1, <3>2, <3>3 DEF SerialInv
  <2> QED BY <1>2, <2>1, <2>2
<1> QED BY <1>1, <1>2, PTL DEF PaySpec, ImplementsLedger, Ledger!Spec

-----------------------------------------------------------------------------
(* With one request at a time, no order is paid beyond its total. *)

\* What counts as paid on an order, as a number that a payment adds to and takes away.
LEMMA GrossAdds ==
    ASSUME PaymentRowsSound, NEW o, NEW p \in CompletedOf(o)
    PROVE  /\ GrossPaid(o) = payments[p].amount + AmountSum(payments, CompletedOf(o) \ {p})
           /\ AmountSum(payments, CompletedOf(o) \ {p}) \in Nat
           /\ payments[p].amount \in Nat
<1>1. CompletedOf(o) \subseteq Payments
  BY DEF CompletedOf, PaymentsOf, LivePayments
<1>2. IsFiniteSet(CompletedOf(o)) /\ IsFiniteSet(CompletedOf(o) \ {p})
  BY <1>1, SalesAssumption, FS_Subset
<1>3. \A x \in CompletedOf(o) : payments[x].amount \in Nat
  BY <1>1 DEF PaymentRowsSound, PaymentRow
<1>4. AmountSum(payments, CompletedOf(o)) = payments[p].amount + AmountSum(payments, CompletedOf(o) \ {p})
  BY <1>2, <1>3, SumOverSet
<1>5. AmountSum(payments, CompletedOf(o) \ {p}) \in Nat
  BY <1>2, <1>3, SumOverSet
<1>6. GrossPaid(o) = AmountSum(payments, CompletedOf(o))
  BY GrossIsSum DEF GrossSummed
<1> QED BY <1>3, <1>4, <1>5, <1>6

\* The commit of a create adds its amount to what its order has received, and to nothing else.
LEMMA CreateAddsAmount ==
    ASSUME PayInv, PayInv', NEW r \in PaySlots, NEW p \in Payments, CreateCommit(r, p), NEW o \in Orders
    PROVE  /\ o = preq[r].order => GrossPaid(o)' = preq[r].amount + GrossPaid(o)
           /\ o # preq[r].order => GrossPaid(o)' = GrossPaid(o)
<1> DEFINE q == preq[r]
<1>1. payments' = [payments EXCEPT ![p] =
        [status |-> "completed", order |-> q.order, amount |-> q.amount,
         refunded |-> 0, number |-> q.number]]
  BY DEF CreateCommit
<1>2. payments \in [Payments -> PaymentRow] /\ payments[p].status = "fresh"
  BY DEF PayInv, PaymentRowsSound, CreateCommit
<1>3. /\ payments'[p].status = "completed" /\ payments'[p].order = q.order
      /\ payments'[p].amount = q.amount /\ \A x \in Payments \ {p} : payments'[x] = payments[x]
  BY <1>1, <1>2
<1>4. p \notin CompletedOf(o)
  BY <1>2 DEF CompletedOf
<1>5. CompletedOf(o)' = IF o = q.order THEN CompletedOf(o) \cup {p} ELSE CompletedOf(o)
  <2>1. ASSUME NEW x \in Payments
        PROVE  x \in CompletedOf(o)' <=> (x \in CompletedOf(o) \/ (x = p /\ o = q.order))
    BY <1>2, <1>3 DEF CompletedOf, PaymentsOf, LivePayments, PaymentStatus
  <2>2. CompletedOf(o)' \subseteq Payments /\ CompletedOf(o) \subseteq Payments
    BY DEF CompletedOf, PaymentsOf, LivePayments
  <2> QED BY <2>1, <2>2
<1>6. AmountSum(payments', CompletedOf(o)) = AmountSum(payments, CompletedOf(o))
  <2>1. \A x \in CompletedOf(o) : payments'[x].amount = payments[x].amount
    BY <1>3, <1>4 DEF CompletedOf, PaymentsOf, LivePayments
  <2> QED BY <2>1, SameAmountsSameSum
<1>7. GrossPaid(o) = AmountSum(payments, CompletedOf(o))
  BY GrossIsSum DEF GrossSummed
<1>8. GrossSummed'
  BY GrossIsSum, PTL
<1>9. GrossPaid(o)' = AmountSum(payments', CompletedOf(o)')
  BY <1>8 DEF GrossSummed
<1>10. CASE o = q.order
  <2>1. IsFiniteSet(CompletedOf(o)')
    <3>1. CompletedOf(o)' \subseteq Payments
      BY DEF CompletedOf, PaymentsOf, LivePayments
    <3> QED BY <3>1, SalesAssumption, FS_Subset
  <2>2. \A x \in CompletedOf(o)' : payments'[x].amount \in Nat
    BY DEF CompletedOf, PaymentsOf, LivePayments, PayInv, PaymentRowsSound, PaymentRow
  <2>3. p \in CompletedOf(o)' /\ CompletedOf(o)' \ {p} = CompletedOf(o)
    BY <1>4, <1>5, <1>10
  <2>4. AmountSum(payments', CompletedOf(o)')
          = payments'[p].amount + AmountSum(payments', CompletedOf(o)' \ {p})
    BY <2>1, <2>2, <2>3, SumOverSet
  <2> QED BY <1>3, <1>6, <1>7, <1>9, <1>10, <2>3, <2>4
<1>11. CASE o # q.order
  BY <1>5, <1>6, <1>7, <1>9, <1>11
<1> QED BY <1>10, <1>11

\* The commit of a refund leaves what counts as paid on an order, or takes the amount of the
\* payment it closes away.
LEMMA RefundTakesAtMost ==
    ASSUME SerialInv, NEW r \in PaySlots, RefundCommit(r), NEW o \in Orders
    PROVE  \/ GrossPaid(o)' = GrossPaid(o)
           \/ /\ GrossPaid(o)' \in Nat /\ GrossPaid(o) \in Nat
              /\ GrossPaid(o)' <= GrossPaid(o)
<1> DEFINE q == preq[r]
           p == q.payment
<1>1. q.pc = "write" /\ RefundInFlight(q)
  BY DEF RefundCommit, SerialInv, StatusInv, PayInv, RequestsSound, CreateInFlight, Idle
<1>2. p \in Payments /\ payments[p].status # "fresh" /\ payments \in [Payments -> PaymentRow]
      /\ payments[p] \in PaymentRow
  BY <1>1 DEF RefundInFlight, SerialInv, StatusInv, PayInv, PaymentRowsSound
<1>3. payments' = [payments EXCEPT ![p].refunded = RefundedAfter(q), ![p].status = StatusAfter(q)]
  BY DEF RefundCommit
<1>4. /\ payments'[p].status = StatusAfter(q) /\ payments'[p].order = payments[p].order
      /\ payments'[p].amount = payments[p].amount
      /\ \A x \in Payments \ {p} : payments'[x] = payments[x]
  BY <1>2, <1>3 DEF PaymentRow
<1>5. \A x \in Payments : payments'[x].amount = payments[x].amount
  BY <1>4
<1>6. GrossPaid(o) = AmountSum(payments, CompletedOf(o))
  BY GrossIsSum DEF GrossSummed
<1>7. GrossSummed'
  BY GrossIsSum, PTL
<1>8. GrossPaid(o)' = AmountSum(payments', CompletedOf(o)')
  BY <1>7 DEF GrossSummed
<1>9. CompletedOf(o)' \subseteq Payments
  BY DEF CompletedOf, PaymentsOf, LivePayments
<1>10. GrossPaid(o)' = AmountSum(payments, CompletedOf(o)')
  <2>1. AmountSum(payments', CompletedOf(o)') = AmountSum(payments, CompletedOf(o)')
    BY <1>5, <1>9, SameAmountsSameSum
  <2> QED BY <1>8, <2>1
<1>11. ASSUME NEW x \in Payments \ {p} PROVE x \in CompletedOf(o)' <=> x \in CompletedOf(o)
  BY <1>4 DEF CompletedOf, PaymentsOf, LivePayments
<1>12. CompletedOf(o) \subseteq Payments
  BY DEF CompletedOf, PaymentsOf, LivePayments
<1>13. CASE CompletedOf(o)' = CompletedOf(o)
  BY <1>6, <1>10, <1>13
<1>14. CASE p \in CompletedOf(o) /\ CompletedOf(o)' = CompletedOf(o) \ {p}
  <2> DEFINE rest == AmountSum(payments, CompletedOf(o) \ {p})
  <2>1. GrossPaid(o) = payments[p].amount + rest /\ rest \in Nat /\ payments[p].amount \in Nat
    BY <1>14, GrossAdds DEF SerialInv, StatusInv, PayInv
  <2>2. GrossPaid(o)' = rest
    BY <1>10, <1>14
  <2> HIDE DEF rest
  <2> QED BY <2>1, <2>2
<1>15. ~(p \notin CompletedOf(o) /\ p \in CompletedOf(o)')
  <2>1. p \in LivePayments /\ payments[p].refunded = q.refunded
    BY <1>1 DEF SerialInv, ReadingsCurrent
  <2>2. q.refunded \in Nat /\ q.amount \in Nat \ {0} /\ q.size \in Nat
        /\ q.refunded + q.amount <= q.size /\ payments[p].amount = q.size
    BY <1>1, SalesAssumption DEF RefundInFlight
  <2>3. payments[p].status # "refunded"
    BY <2>1, <2>2 DEF SerialInv, StatusInv, PayInv, PaymentRowsSound, RefundWithinPayment
  <2>4. payments[p].status = "completed"
    BY <2>1, <2>3 DEF LivePayments, PaymentStatus
  <2> QED BY <1>4, <2>1, <2>4 DEF CompletedOf, PaymentsOf
<1> QED BY <1>9, <1>11, <1>12, <1>13, <1>14, <1>15

\* What counts as paid on an order is a number.
LEMMA GrossIsNumber ==
    ASSUME PaymentRowsSound, NEW o
    PROVE  GrossPaid(o) \in Nat
<1>1. CompletedOf(o) \subseteq Payments
  BY DEF CompletedOf, PaymentsOf, LivePayments
<1>2. IsFiniteSet(CompletedOf(o))
  BY <1>1, SalesAssumption, FS_Subset
<1>3. \A x \in CompletedOf(o) : payments[x].amount \in Nat
  BY <1>1 DEF PaymentRowsSound, PaymentRow
<1>4. AmountSum(payments, CompletedOf(o)) \in Nat
  BY <1>2, <1>3, SumOverSet
<1> QED BY <1>4, GrossIsSum DEF GrossSummed

\* Every refund that was made is recorded, and none on a payment id that is not in use yet.
RefundsRecorded ==
    \A p \in Payments :
        /\ refundSum[p] = payments[p].refunded
        /\ payments[p].status = "fresh" => payments[p].refunded = 0

AloneInv == SerialInv /\ GrossWithinTotal /\ RefundsRecorded

\* A step of the only request in flight leaves no order paid beyond its total.
LEMMA TotalsAreKept ==
    ASSUME AloneInv, PayInv', NEW r \in PaySlots, PayStep(r)
    PROVE  GrossWithinTotal'
<1> DEFINE q == preq[r]
<1>0. StatusInv /\ PayInv
  BY DEF AloneInv, SerialInv, StatusInv
<1>1. ASSUME UNCHANGED <<orders, payments>> PROVE GrossWithinTotal'
  BY <1>1, SameRowsSameGross DEF AloneInv, GrossWithinTotal, LiveOrders
<1>2. ASSUME NEW p \in Payments, CreateCommit(r, p) PROVE GrossWithinTotal'
  <2>1. q.pc = "commit" /\ CreateInFlight(q)
    BY <1>0, <1>2 DEF CreateCommit, PayInv, RequestsSound, RefundInFlight, Idle
  <2>2. q.order \in Orders /\ q.total = orders[q.order].total
        /\ GrossPaid(q.order) + q.amount <= orders[q.order].total
    BY <1>0, <2>1 DEF CreateInFlight, StatusInv, TotalsCurrent, AloneInv, SerialInv, ReadingsCurrent
  <2>3. orders' = [orders EXCEPT ![q.order].paid = PaidAfter(q),
                                 ![q.order].payStatus = PaidStatus(PaidAfter(q), q.total)]
    BY <1>2 DEF CreateCommit
  <2>4. \A o \in Orders : orders'[o].total = orders[o].total /\ orders'[o].status = orders[o].status
    BY <1>0, <2>2, <2>3, OrderColumns
  <2>5. ASSUME NEW o \in LiveOrders' PROVE GrossPaid(o)' <= orders'[o].total \/ GrossPaid(o)' = 0
    <3>1. o \in Orders /\ o \in LiveOrders
      BY <2>4, <2>5 DEF LiveOrders
    <3>2. CASE o = q.order
      <4>1. GrossPaid(o)' = q.amount + GrossPaid(o)
        BY <1>0, <1>2, <3>1, <3>2, CreateAddsAmount
      <4>2. GrossPaid(o) \in Nat /\ q.amount \in Nat
        BY <1>0, <2>1, GrossIsNumber, SalesAssumption DEF CreateInFlight, PayInv
      <4> QED BY <2>2, <2>4, <3>1, <3>2, <4>1, <4>2
    <3>3. CASE o # q.order
      <4>1. GrossPaid(o)' = GrossPaid(o)
        BY <1>0, <1>2, <3>1, <3>3, CreateAddsAmount
      <4> QED BY <2>4, <3>1, <4>1 DEF AloneInv, GrossWithinTotal
    <3> QED BY <3>2, <3>3
  <2> QED BY <2>5 DEF GrossWithinTotal
<1>3. CASE RefundCommit(r)
  <2>1. q.pc = "write" /\ RefundInFlight(q)
    BY <1>0, <1>3 DEF RefundCommit, PayInv, RequestsSound, CreateInFlight, Idle
  <2>2. q.payment \in Payments /\ q.order \in Orders /\ q.total = orders[q.order].total
    BY <1>0, <2>1 DEF RefundInFlight, StatusInv, TotalsCurrent
  <2>3. orders' = [orders EXCEPT ![q.order].paid = q.paid,
                                 ![q.order].payStatus = PaidStatus(q.paid, q.total)]
    BY <1>3 DEF RefundCommit
  <2>4. \A o \in Orders : orders'[o].total = orders[o].total /\ orders'[o].status = orders[o].status
    BY <1>0, <2>2, <2>3, OrderColumns
  <2>5. ASSUME NEW o \in LiveOrders' PROVE GrossPaid(o)' <= orders'[o].total \/ GrossPaid(o)' = 0
    <3>1. o \in Orders /\ o \in LiveOrders
      BY <2>4, <2>5 DEF LiveOrders
    <3>2. orders[o].total \in Int
      BY <1>0, <3>1 DEF StatusInv, OrderRowsSound
    <3>3. GrossPaid(o) <= orders[o].total \/ GrossPaid(o) = 0
      BY <3>1 DEF AloneInv, GrossWithinTotal
    <3>4. \/ GrossPaid(o)' = GrossPaid(o)
          \/ /\ GrossPaid(o)' \in Nat /\ GrossPaid(o) \in Nat
             /\ GrossPaid(o)' <= GrossPaid(o)
      BY <1>3, <3>1, RefundTakesAtMost DEF AloneInv
    <3> QED BY <2>4, <3>1, <3>2, <3>3, <3>4
  <2> QED BY <2>5 DEF GrossWithinTotal
<1>4. CASE CreateNumber(r) \/ RefundUpdate(r) \/ RefundSum(r) \/ PayAbort(r)
  BY <1>1, <1>4 DEF CreateNumber, RefundUpdate, RefundSum, PayAbort
<1>5. ASSUME NEW o \in Orders, NEW a \in Amounts, CreateRead(r, o, a) PROVE GrossWithinTotal'
  BY <1>1, <1>5 DEF CreateRead
<1>6. ASSUME NEW p \in Payments, NEW a \in Amounts, RefundRead(r, p, a) PROVE GrossWithinTotal'
  BY <1>1, <1>6 DEF RefundRead
<1> QED
  BY <1>2, <1>3, <1>4, <1>5, <1>6 DEF PayStep, PayArrive, PayProgress

\* A step of the only request in flight records every refund it makes.
LEMMA RefundsAreKept ==
    ASSUME AloneInv, NEW r \in PaySlots, PayStep(r)
    PROVE  RefundsRecorded'
<1> DEFINE q == preq[r]
<1>0. StatusInv /\ PayInv /\ payments \in [Payments -> PaymentRow] /\ refundSum \in [Payments -> Nat]
  BY DEF AloneInv, SerialInv, StatusInv, PayInv, PaymentRowsSound
<1>1. ASSUME UNCHANGED <<payments, refundSum>> PROVE RefundsRecorded'
  BY <1>1 DEF AloneInv, RefundsRecorded
<1>2. ASSUME NEW p \in Payments, CreateCommit(r, p) PROVE RefundsRecorded'
  <2>1. refundSum[p] = 0
    BY <1>2 DEF CreateCommit, AloneInv, RefundsRecorded
  <2>2. payments' = [payments EXCEPT ![p] =
          [status |-> "completed", order |-> q.order, amount |-> q.amount,
           refunded |-> 0, number |-> q.number]] /\ refundSum' = refundSum
    BY <1>2 DEF CreateCommit
  <2>3. payments'[p].refunded = 0 /\ payments'[p].status = "completed"
        /\ \A x \in Payments \ {p} : payments'[x] = payments[x]
    BY <1>0, <2>2
  <2> QED BY <2>1, <2>2, <2>3 DEF AloneInv, RefundsRecorded
<1>3. CASE RefundCommit(r)
  <2>1. q.pc = "write" /\ RefundInFlight(q)
    BY <1>0, <1>3 DEF RefundCommit, PayInv, RequestsSound, CreateInFlight, Idle
  <2>2. q.payment \in Payments /\ payments[q.payment].refunded = q.refunded
    BY <2>1 DEF RefundInFlight, AloneInv, SerialInv, ReadingsCurrent
  <2>3. payments' = [payments EXCEPT ![q.payment].refunded = RefundedAfter(q),
                                     ![q.payment].status = StatusAfter(q)]
        /\ refundSum' = [refundSum EXCEPT ![q.payment] = @ + q.amount]
    BY <1>3 DEF RefundCommit
  <2>4. payments[q.payment] \in PaymentRow
    BY <1>0, <2>2
  <2>5. payments'[q.payment].refunded = q.refunded + q.amount
        /\ payments'[q.payment].status # "fresh"
        /\ \A x \in Payments \ {q.payment} : payments'[x] = payments[x]
    BY <1>0, <2>2, <2>3, <2>4 DEF RefundedAfter, StatusAfter, PaymentRow
  <2>6. refundSum'[q.payment] = q.refunded + q.amount
        /\ \A x \in Payments \ {q.payment} : refundSum'[x] = refundSum[x]
    BY <1>0, <2>2, <2>3 DEF AloneInv, RefundsRecorded
  <2> QED BY <2>5, <2>6 DEF AloneInv, RefundsRecorded
<1>4. CASE CreateNumber(r) \/ RefundUpdate(r) \/ RefundSum(r) \/ PayAbort(r)
  BY <1>1, <1>4 DEF CreateNumber, RefundUpdate, RefundSum, PayAbort
<1>5. ASSUME NEW o \in Orders, NEW a \in Amounts, CreateRead(r, o, a) PROVE RefundsRecorded'
  BY <1>1, <1>5 DEF CreateRead
<1>6. ASSUME NEW p \in Payments, NEW a \in Amounts, RefundRead(r, p, a) PROVE RefundsRecorded'
  BY <1>1, <1>6 DEF RefundRead
<1> QED
  BY <1>2, <1>3, <1>4, <1>5, <1>6 DEF PayStep, PayArrive, PayProgress

\* While one request is handled at a time, no order receives more than its total and every
\* refund that was made is in what its payment records: create's check and refund's
\* overwrites (which two requests at once defeat) do what they are for.
THEOREM OneAtATimeNeverOverpays ==
    ASSUME \A r, s \in PaySlots : r = s
    PROVE  PaySpec => [](GrossWithinTotal /\ MadeRefundsRecorded)
<1>1. ASSUME PayStart PROVE AloneInv
  <2>1. StatusInv
    BY <1>1, PayStartSound
  <2>2. ReadingsCurrent
    BY <1>1, IdleShape DEF PayStart, PayInit, ReadingsCurrent
  <2>3. payments = [p \in Payments |-> NoPayment] /\ refundSum = [p \in Payments |-> 0]
    BY <1>1 DEF PayStart, NoPaymentsYet, PayInit
  <2>4. RefundsRecorded
    BY <2>3 DEF RefundsRecorded, NoPayment
  <2>5. \A p \in Payments : payments[p].status = "fresh" /\ payments[p].refunded = 0
    BY <2>3 DEF NoPayment
  <2>6. ASSUME NEW o \in LiveOrders PROVE GrossPaid(o) = 0
    <3>1. CompletedOf(o) = {}
      BY <2>5 DEF CompletedOf, PaymentsOf, LivePayments, PaymentStatus
    <3>2. GrossPaid(o) = AmountSum(payments, {})
      BY <3>1, GrossIsSum DEF GrossSummed
    <3> QED BY <3>2, FS_EmptySet, SumOverSet
  <2> QED BY <2>1, <2>2, <2>4, <2>5, <2>6 DEF AloneInv, SerialInv, GrossWithinTotal
<1>2. ASSUME AloneInv, [PayNext]_pvars PROVE AloneInv'
  <2>1. ASSUME NEW r \in PaySlots, PayStep(r) PROVE AloneInv'
    <3>1. StatusInv' /\ ReadingsCurrent' /\ PayInv'
      BY <1>2, <2>1, StatusStepKeeps, ReadingsStay DEF AloneInv, SerialInv, StatusInv
    <3> QED BY <1>2, <2>1, <3>1, TotalsAreKept, RefundsAreKept DEF AloneInv, SerialInv
  <2>2. CASE UNCHANGED pvars
    <3>1. StatusInv'
      BY <1>2, <2>2, StatusStutter DEF AloneInv, SerialInv
    <3> QED BY <1>2, <2>2, <3>1, SameRowsSameGross
            DEF pvars, AloneInv, SerialInv, ReadingsCurrent, GrossWithinTotal, LiveOrders,
                RefundsRecorded
  <2> QED BY <1>2, <2>1, <2>2 DEF PayNext
<1>3. ASSUME AloneInv PROVE GrossWithinTotal /\ MadeRefundsRecorded
  BY <1>3 DEF AloneInv, RefundsRecorded, MadeRefundsRecorded, LivePayments
<1> QED BY <1>1, <1>2, <1>3, PTL DEF PaySpec

-----------------------------------------------------------------------------
(* The sums the requests write are numbers: type correctness. *)

\* What is left of each payment after its refunds, and what OthersNet adds up of it.
NetRows == [p \in Payments |-> [amount |-> payments[p].amount - payments[p].refunded]]

NetsFrom(f, U) ==
    [s \in SUBSET U |-> IF s = {} THEN 0
        ELSE (payments[Chosen(s)].amount - payments[Chosen(s)].refunded) + f[s \ {Chosen(s)}]]

\* The balance of the other payments of an order is a natural number: no refunds exceed
\* their payment.
LEMMA OthersNetIsNumber ==
    ASSUME PaymentRowsSound, NEW q
    PROVE  OthersNet(q) \in Nat
<1> DEFINE S == PaymentsOf(q.order) \ {q.payment}
<1>1. S \subseteq Payments /\ S \subseteq LivePayments
  BY DEF PaymentsOf, LivePayments
<1>2. OthersNet(q) = (CHOOSE i : i = NetsFrom(i, S))[S]
  BY Zenon DEF OthersNet, MapThenSumSet, MapThenFoldSet, NetsFrom, Chosen
<1>3. AmountSum(NetRows, S) = (CHOOSE i : i = SumsFrom(NetRows, i, S))[S]
  BY Zenon DEF AmountSum, MapThenSumSet, MapThenFoldSet, SumsFrom, Chosen
<1> HIDE DEF S
<1>4. \A i : NetsFrom(i, S) = SumsFrom(NetRows, i, S)
  <2>1. ASSUME NEW s \in SUBSET S, s # {}
        PROVE  NetRows[Chosen(s)].amount
                 = payments[Chosen(s)].amount - payments[Chosen(s)].refunded
    <3>1. Chosen(s) \in s
      BY <2>1 DEF Chosen
    <3>2. Chosen(s) \in Payments
      BY <1>1, <3>1
    <3> QED BY <3>2 DEF NetRows
  <2> QED BY <2>1 DEF NetsFrom, SumsFrom
<1>5. (CHOOSE i : i = NetsFrom(i, S)) = (CHOOSE i : i = SumsFrom(NetRows, i, S))
  BY <1>4, Zenon
<1>6. OthersNet(q) = AmountSum(NetRows, S)
  BY <1>2, <1>3, <1>5
<1>7. ASSUME NEW x \in S PROVE NetRows[x].amount \in Nat
  <2>1. x \in Payments /\ x \in LivePayments
    BY <1>1
  <2>2. payments[x].amount \in Nat /\ payments[x].refunded \in Nat
        /\ payments[x].refunded <= payments[x].amount
    BY <2>1 DEF PaymentRowsSound, PaymentRow, RefundWithinPayment
  <2>3. NetRows[x].amount = payments[x].amount - payments[x].refunded
    BY <2>1 DEF NetRows
  <2> QED BY <2>2, <2>3
<1>8. IsFiniteSet(S)
  BY <1>1, SalesAssumption, FS_Subset
<1> QED BY <1>6, <1>7, <1>8, SumOverSet

\* Every step of a request writes what the columns hold.
LEMMA TypeStepKeeps ==
    ASSUME StatusInv, PayInv', PayTypeOK, NEW r \in PaySlots, PayStep(r)
    PROVE  PayTypeOK'
<1> DEFINE q == preq[r]
           Reqs == {Idle} \cup CreateReq \cup RefundReq
<1>1. /\ payments' \in [Payments -> PaymentRow] /\ refundSum' \in [Payments -> Nat]
      /\ PayInv /\ PaymentRowsSound /\ payments \in [Payments -> PaymentRow]
  BY DEF StatusInv, PayInv, PaymentRowsSound
<1>2. /\ orders \in [Orders -> OrderRow] /\ locked \subseteq Payments
      /\ preq \in [PaySlots -> Reqs]
  BY DEF PayTypeOK, DbTypeOK
<1>3. Idle \in Reqs
  OBVIOUS
<1>4. ASSUME NEW v \in Reqs, preq' = [preq EXCEPT ![r] = v] PROVE preq' \in [PaySlots -> Reqs]
  BY <1>2, <1>4
<1>5. ASSUME NEW o \in Orders, NEW paid \in Int, NEW total \in Int,
             orders' = [orders EXCEPT ![o].paid = paid, ![o].payStatus = PaidStatus(paid, total)]
      PROVE  orders' \in [Orders -> OrderRow]
  <2>1. PaidStatus(paid, total) \in PaidStatuses
    BY DEF PaidStatus, PaidStatuses
  <2>2. orders[o] \in OrderRow
    BY <1>2
  <2> DEFINE row == [orders[o] EXCEPT !.paid = paid, !.payStatus = PaidStatus(paid, total)]
  <2>3. row \in OrderRow
    BY <2>1, <2>2 DEF OrderRow
  <2>4. orders' = [orders EXCEPT ![o] = row]
    BY <1>2, <1>5
  <2> HIDE DEF row
  <2> QED BY <1>2, <2>3, <2>4
<1>6. ASSUME orders' \in [Orders -> OrderRow], locked' \subseteq Payments, preq' \in [PaySlots -> Reqs]
      PROVE  PayTypeOK'
  BY <1>1, <1>6 DEF PayTypeOK, DbTypeOK
<1>7. q \in Reqs
  BY <1>2
<1> HIDE DEF Reqs
<1>8. ASSUME NEW o \in Orders, NEW a \in Amounts, CreateRead(r, o, a) PROVE PayTypeOK'
  <2> DEFINE v == [pc |-> "number", order |-> o, amount |-> a, paid |-> AlreadyPaid(o),
                   total |-> orders[o].total, number |-> 0]
  <2>1. AlreadyPaid(o) \in Nat
    BY <1>1, GrossIsNumber DEF AlreadyPaid
  <2>2. orders[o].total \in Int
    BY <1>2 DEF OrderRow
  <2>3. v \in CreateReq
    BY <2>1, <2>2 DEF CreateReq
  <2>4. preq' = [preq EXCEPT ![r] = v] /\ UNCHANGED <<orders, locked>>
    BY <1>8 DEF CreateRead
  <2> HIDE DEF v
  <2> QED BY <1>2, <1>4, <1>6, <2>3, <2>4 DEF Reqs
<1>9. CASE CreateNumber(r)
  <2> DEFINE v == [q EXCEPT !.pc = "commit", !.number = NextPaymentNumber]
  <2>1. q.pc = "number" /\ UNCHANGED <<orders, locked>>
        /\ preq' = [preq EXCEPT ![r].pc = "commit", ![r].number = NextPaymentNumber]
    BY <1>9 DEF CreateNumber
  <2>2. q \in CreateReq
    BY <1>7, <2>1 DEF Reqs, Idle, RefundReq
  <2>3. NextPaymentNumber \in Nat
    BY <1>1, NextNumberIsNew
  <2>4. v \in CreateReq
    BY <2>2, <2>3 DEF CreateReq
  <2>5. preq' = [preq EXCEPT ![r] = v]
    BY <1>2, <2>1
  <2> HIDE DEF v
  <2> QED BY <1>2, <1>4, <1>6, <2>1, <2>4, <2>5 DEF Reqs
<1>10. ASSUME NEW p \in Payments, CreateCommit(r, p) PROVE PayTypeOK'
  <2>1. q.pc = "commit"
    BY <1>10 DEF CreateCommit
  <2>2. q \in CreateReq
    BY <1>7, <2>1 DEF Reqs, Idle, RefundReq
  <2>3. PaidAfter(q) \in Int /\ q.total \in Int /\ q.order \in Orders
    <3>1. q.paid \in Nat /\ q.amount \in Amounts /\ q.total \in Int /\ q.order \in Orders
      BY <2>2 DEF CreateReq
    <3>2. PICK paid \in Nat, a \in Nat : paid = q.paid /\ a = q.amount
      BY <3>1, SalesAssumption
    <3>3. paid + a \in Int /\ PaidAfter(q) = paid + a
      BY <3>2 DEF PaidAfter
    <3> QED BY <3>1, <3>3
  <2>4. orders' = [orders EXCEPT ![q.order].paid = PaidAfter(q),
                                 ![q.order].payStatus = PaidStatus(PaidAfter(q), q.total)]
        /\ preq' = [preq EXCEPT ![r] = Idle] /\ locked' = locked
    BY <1>10 DEF CreateCommit
  <2> QED BY <1>2, <1>3, <1>4, <1>5, <1>6, <2>3, <2>4
<1>11. ASSUME NEW p \in Payments, NEW a \in Amounts, RefundRead(r, p, a) PROVE PayTypeOK'
  <2> DEFINE v == [pc |-> "update", payment |-> p, order |-> payments[p].order, amount |-> a,
                   size |-> payments[p].amount, refunded |-> payments[p].refunded,
                   total |-> orders[payments[p].order].total, paid |-> 0]
  <2>1. p \in LivePayments
    BY <1>11 DEF RefundRead, LivePayments, PaymentStatus
  <2>2. payments[p].order \in Orders /\ payments[p].amount \in Nat /\ payments[p].refunded \in Nat
    BY <1>1, <2>1 DEF PaymentRowsSound, PaymentRow
  <2>3. orders[payments[p].order].total \in Int
    BY <1>2, <2>2 DEF OrderRow
  <2>4. v \in RefundReq
    BY <2>2, <2>3 DEF RefundReq
  <2>5. preq' = [preq EXCEPT ![r] = v] /\ UNCHANGED <<orders, locked>>
    BY <1>11 DEF RefundRead
  <2> HIDE DEF v
  <2> QED BY <1>2, <1>4, <1>6, <2>4, <2>5 DEF Reqs
<1>12. CASE RefundUpdate(r)
  <2> DEFINE v == [q EXCEPT !.pc = "sum"]
  <2>1. q.pc = "update" /\ orders' = orders /\ locked' = locked \cup {q.payment}
        /\ preq' = [preq EXCEPT ![r].pc = "sum"]
    BY <1>12 DEF RefundUpdate
  <2>2. q \in RefundReq
    BY <1>7, <2>1 DEF Reqs, Idle, CreateReq
  <2>3. v \in RefundReq /\ q.payment \in Payments
    BY <2>2 DEF RefundReq
  <2>4. preq' = [preq EXCEPT ![r] = v]
    BY <1>2, <2>1
  <2> HIDE DEF v
  <2> QED BY <1>2, <1>4, <1>6, <2>1, <2>3, <2>4 DEF Reqs
<1>13. CASE RefundSum(r)
  <2> DEFINE paid == (q.size - RefundedAfter(q)) + OthersNet(q)
             v == [q EXCEPT !.pc = "write", !.paid = paid]
  <2>1. q.pc = "sum" /\ UNCHANGED <<orders, locked>>
        /\ preq' = [preq EXCEPT ![r].pc = "write", ![r].paid = paid]
    BY <1>13 DEF RefundSum
  <2>2. q \in RefundReq
    BY <1>7, <2>1 DEF Reqs, Idle, CreateReq
  <2>3. OthersNet(q) \in Nat
    BY <1>1, OthersNetIsNumber
  <2>4. q.size \in Nat /\ RefundedAfter(q) \in Nat
    <3>1. q.size \in Nat /\ q.refunded \in Nat /\ q.amount \in Amounts
      BY <2>2 DEF RefundReq
    <3>2. PICK d \in Nat, a \in Nat : d = q.refunded /\ a = q.amount
      BY <3>1, SalesAssumption
    <3>3. d + a \in Nat /\ RefundedAfter(q) = d + a
      BY <3>2 DEF RefundedAfter
    <3> QED BY <3>1, <3>3
  <2>5. paid \in Int
    BY <2>3, <2>4
  <2> HIDE DEF paid
  <2>6. v \in RefundReq
    BY <2>2, <2>5 DEF RefundReq
  <2>7. preq' = [preq EXCEPT ![r] = v]
    BY <1>2, <2>1
  <2> HIDE DEF v
  <2> QED BY <1>2, <1>4, <1>6, <2>1, <2>6, <2>7 DEF Reqs
<1>14. CASE RefundCommit(r)
  <2>1. q.pc = "write"
    BY <1>14 DEF RefundCommit
  <2>2. q \in RefundReq
    BY <1>7, <2>1 DEF Reqs, Idle, CreateReq
  <2>3. q.paid \in Int /\ q.total \in Int /\ q.order \in Orders
    BY <2>2 DEF RefundReq
  <2>4. orders' = [orders EXCEPT ![q.order].paid = q.paid,
                                 ![q.order].payStatus = PaidStatus(q.paid, q.total)]
        /\ preq' = [preq EXCEPT ![r] = Idle] /\ locked' = locked \ {q.payment}
    BY <1>14 DEF RefundCommit
  <2> QED BY <1>2, <1>3, <1>4, <1>5, <1>6, <2>3, <2>4
<1>15. CASE PayAbort(r)
  <2>1. preq' = [preq EXCEPT ![r] = Idle] /\ orders' = orders /\ locked' \subseteq locked
    BY <1>15 DEF PayAbort
  <2> QED BY <1>2, <1>3, <1>4, <1>6, <2>1
<1> QED
  BY <1>8, <1>9, <1>10, <1>11, <1>12, <1>13, <1>14, <1>15 DEF PayStep, PayArrive, PayProgress

\* However requests interleave, what is written in the rows is of their columns' types: the
\* sums over the payments that create and refund compute are numbers, for any number of them.
THEOREM PaymentTypes == PaySpec => []PayTypeOK
<1>1. ASSUME PayStart PROVE StatusInv /\ PayTypeOK
  <2>1. StatusInv
    BY <1>1, PayStartSound
  <2>2. payments = [p \in Payments |-> NoPayment] /\ locked = {} /\ orders \in UnpaidOrders
        /\ preq = [s \in PaySlots |-> Idle] /\ refundSum = [p \in Payments |-> 0]
    BY <1>1 DEF PayStart, NoPaymentsYet, PayInit
  <2>3. NoPayment \in PaymentRow
    BY DEF NoPayment, PaymentRow
  <2>4. ASSUME NEW o \in Orders PROVE orders[o] \in OrderRow
    <3>1. PICK t \in Totals : orders[o] = [NoOrder EXCEPT !.status = "pending", !.total = t]
      BY <2>2 DEF UnpaidOrders
    <3>2. orders[o] = [status |-> "pending", total |-> t, paid |-> 0, payStatus |-> "pending",
                       number |-> 0, assignee |-> "nobody"]
      BY <3>1 DEF NoOrder
    <3>3. t \in Int
      BY <3>1, SalesAssumption
    <3> QED BY <3>2, <3>3 DEF OrderRow, OrderStatus, PaidStatuses
  <2>5. orders \in [Orders -> OrderRow]
    BY <2>1, <2>4 DEF StatusInv, OrderRowsSound
  <2> QED BY <2>1, <2>2, <2>3, <2>5 DEF PayTypeOK, DbTypeOK
<1>2. ASSUME StatusInv, PayTypeOK, [PayNext]_pvars PROVE StatusInv' /\ PayTypeOK'
  <2>1. ASSUME NEW r \in PaySlots, PayStep(r) PROVE StatusInv' /\ PayTypeOK'
    <3>1. StatusInv' /\ PayInv'
      BY <1>2, <2>1, StatusStepKeeps DEF StatusInv
    <3> QED BY <1>2, <2>1, <3>1, TypeStepKeeps
  <2>2. CASE UNCHANGED pvars
    <3>1. StatusInv'
      BY <1>2, <2>2, StatusStutter
    <3> QED BY <1>2, <2>2, <3>1 DEF pvars, PayTypeOK, DbTypeOK
  <2> QED BY <1>2, <2>1, <2>2 DEF PayNext
<1> QED BY <1>1, <1>2, PTL DEF PaySpec
=============================================================================

----------------------------- MODULE SalesProofs -----------------------------
(***************************************************************************)
(* Proofs about OrdersService and PaymentsService over the same tables:    *)
(* whichever orders are made, edited, moved and removed while payments are *)
(* taken and refunded, for any tables and any number of requests in flight.*)
(* What was proved of the payment requests alone is kept by the orders'    *)
(* steps; what the two services promise each other is added to it.         *)
(***************************************************************************)
EXTENDS Sales, OrderPaymentsProofs

\* What is known of an order request in flight: it was validated against orders that were
\* there, and its status against theirs.
OrderRequestsSound ==
    /\ oreq \in [OrderSlots -> {Free} \cup NewReq \cup WriteReq \cup RemoveReq]
    /\ \A r \in OrderSlots : oreq[r].pc = "write" =>
          /\ oreq[r].status # "pending"
          /\ \A o \in oreq[r].on :
                /\ orders[o].status # "fresh"
                /\ oreq[r].status = "in_progress" => "confirmed" \in history[o]
                /\ oreq[r].status = "completed" => "in_progress" \in history[o]

HistoryKept ==
    /\ history \in [Orders -> SUBSET OrderStatus]
    /\ \A o \in Orders : orders[o].status = "fresh" => history[o] = {}
    /\ StatusEarned

\* The id in a payment request is that of an order that was there; it is not used again.
OrdersKnown ==
    \A r \in PaySlots : preq[r].pc # "idle" => orders[preq[r].order].status # "fresh"

InRefund(r) == preq[r].pc \in {"sum", "write"}

\* The open transactions hold the locks, each on a payment of its own that is still there.
LocksHeld ==
    \A r \in PaySlots : InRefund(r) =>
        /\ preq[r].payment \in LivePayments \cap locked
        /\ \A x \in PaySlots : InRefund(x) /\ preq[x].payment = preq[r].payment => x = r

OrdersInv == OrderRowsSound /\ OrderRequestsSound /\ HistoryKept

SalesInv ==
    /\ StatusInv /\ OrderRequestsSound /\ HistoryKept
    /\ OrdersKnown /\ LocksHeld /\ PaymentHasOrder

-----------------------------------------------------------------------------
(* The orders' own steps *)

\* generateOrderNumber returns a number no order of the table has.
LEMMA NextOrderNumberIsNew ==
    ASSUME OrderRowsSound
    PROVE  NextOrderNumber \in Nat /\ OrderNumberFree(NextOrderNumber)
<1> DEFINE N == {orders[o].number : o \in LiveOrders}
           S == N \cup {0}
<1>1. S \subseteq Nat /\ S # {}
  BY DEF OrderRowsSound, LiveOrders
<1>2. IsFiniteSet(LiveOrders)
  BY SalesAssumption, FS_Subset DEF LiveOrders
<1>3. IsFiniteSet(N)
  <2> DEFINE f == [o \in LiveOrders |-> orders[o].number]
  <2>1. f \in Surjection(LiveOrders, N)
    BY DEF Surjection
  <2> HIDE DEF f, N
  <2> QED BY <1>2, <2>1, FS_Surjection
<1>4. IsFiniteSet(S)
  BY <1>3, FS_AddElement
<1>5. Max(S) \in S /\ \A y \in S : Max(S) >= y
  BY <1>1, <1>4, MaxOfNumbers
<1> HIDE DEF S
<1>6. Max(S) \in Nat
  BY <1>1, <1>5
<1>7. \A o \in LiveOrders : orders[o].number \in S /\ orders[o].number \in Nat
  BY DEF S, OrderRowsSound, LiveOrders
<1>8. NextOrderNumber = 1 + Max(S)
  BY DEF NextOrderNumber, S
<1> QED BY <1>5, <1>6, <1>7, <1>8 DEF OrderNumberFree

\* The row of one order and its history.
OrderRowSound(row) ==
    row \in [status: OrderStatus \cup {"fresh", "deleted"}, total: Int, paid: {row.paid},
             payStatus: PaidStatuses, number: Nat, assignee: Techs \cup {"nobody"}]

\* The program counter tells which kind of request a slot holds.
LEMMA OrderRequestKinds ==
    ASSUME OrderRequestsSound, NEW r \in OrderSlots
    PROVE  /\ oreq[r].pc = "create" => oreq[r] \in NewReq
           /\ oreq[r].pc = "write"  => oreq[r] \in WriteReq
           /\ oreq[r].pc = "remove" => oreq[r] \in RemoveReq
BY DEF OrderRequestsSound, Free, NewReq, WriteReq, RemoveReq

\* The status table never leads back to pending, nor past a status it has not come through.
LEMMA AllowedForward ==
    /\ \A s : Allowed(s) \subseteq OrderStatus \ {"pending"}
    /\ \A s : "in_progress" \in Allowed(s) => s = "confirmed"
    /\ \A s : "completed" \in Allowed(s) => s = "in_progress"
BY DEF Allowed, OrderStatus

\* What a request's write does to an order: nothing, a new row, a new status that it was
\* validated for, or the end of the row.
OrderMoves(o) ==
    \/ orders'[o] = orders[o] /\ history'[o] = history[o]
    \/ /\ orders[o].status = "fresh"
       /\ orders'[o].status = "pending" /\ OrderRowSound(orders'[o])
       /\ orders'[o].paid = 0 /\ orders'[o].payStatus = "pending" 
       /\ history'[o] = {"pending"}
    \/ \E s \in OrderStatus, who \in Techs \cup {"nobody"} :
       /\ orders[o].status \in OrderStatus
       /\ orders'[o] = [orders[o] EXCEPT !.status = s, !.assignee = who]
       /\ history'[o] = history[o] \cup {s}
       /\ \/ s = orders[o].status
          \/ /\ s # "pending"
             /\ s = "in_progress" => "confirmed" \in history[o]
             /\ s = "completed" => "in_progress" \in history[o]
    \/ /\ orders[o].status \in OrderStatus
       /\ orders'[o] = [orders[o] EXCEPT !.status = "deleted"] /\ history'[o] = history[o]

LEMMA OrderStepMoves ==
    ASSUME OrdersInv, OrderNext
    PROVE  /\ \A o \in Orders : OrderMoves(o)
           /\ orders' \in [Orders -> {orders'[o] : o \in Orders}]
           /\ history' \in [Orders -> {history'[o] : o \in Orders}]
<1>0. OrderRowsSound /\ OrderRequestsSound /\ HistoryKept
  BY DEF OrdersInv
<1>1. ASSUME UNCHANGED <<orders, history>>
      PROVE  /\ \A o \in Orders : OrderMoves(o)
             /\ orders' \in [Orders -> {orders'[o] : o \in Orders}]
             /\ history' \in [Orders -> {history'[o] : o \in Orders}]
  BY <1>0, <1>1 DEF OrderMoves, OrderRowsSound, HistoryKept
<1>2. ASSUME NEW r \in OrderSlots, NEW o \in Orders, CreateOrderCommit(r, o)
      PROVE  /\ \A x \in Orders : OrderMoves(x)
             /\ orders' \in [Orders -> {orders'[x] : x \in Orders}]
             /\ history' \in [Orders -> {history'[x] : x \in Orders}]
  <2> DEFINE q == oreq[r]
             row == [status |-> "pending", total |-> q.total, paid |-> 0, payStatus |-> "pending",
                     number |-> q.number, assignee |-> q.assignee]
  <2>1. q \in NewReq
    BY <1>0, <1>2, OrderRequestKinds DEF CreateOrderCommit
  <2>2. OrderRowSound(row) /\ row.status = "pending" /\ row.paid = 0 /\ row.payStatus = "pending"
    BY <2>1, SalesAssumption DEF NewReq, OrderRowSound, OrderStatus, PaidStatuses
  <2>3. /\ orders[o].status = "fresh" /\ orders' = [orders EXCEPT ![o] = row]
        /\ history' = [history EXCEPT ![o] = {"pending"}]
    BY <1>2 DEF CreateOrderCommit
  <2> HIDE DEF row
  <2>4. /\ orders'[o] = row /\ history'[o] = {"pending"}
        /\ \A x \in Orders \ {o} : orders'[x] = orders[x] /\ history'[x] = history[x]
    BY <1>0, <2>3 DEF OrderRowsSound, HistoryKept
  <2>5. \A x \in Orders : OrderMoves(x)
    BY <2>2, <2>3, <2>4 DEF OrderMoves
  <2> QED BY <1>0, <2>3, <2>5 DEF OrderRowsSound, HistoryKept
<1>3. ASSUME NEW r \in OrderSlots, WriteCommit(r)
      PROVE  /\ \A x \in Orders : OrderMoves(x)
             /\ orders' \in [Orders -> {orders'[x] : x \in Orders}]
             /\ history' \in [Orders -> {history'[x] : x \in Orders}]
  <2> DEFINE q == oreq[r]
  <2>1. q \in WriteReq /\ q.pc = "write"
    BY <1>0, <1>3, OrderRequestKinds DEF WriteCommit
  <2>2. ASSUME NEW o \in Orders PROVE OrderMoves(o)
    <3>1. CASE o \notin q.on \cap LiveOrders
      <4>1. orders'[o] = orders[o] /\ history'[o] = history[o]
        BY <1>3, <3>1 DEF WriteCommit
      <4> QED BY <4>1 DEF OrderMoves
    <3>2. CASE o \in q.on \cap LiveOrders
      <4> DEFINE s == Put(orders[o].status, q.status)
                 who == Put(orders[o].assignee, q.assignee)
      <4>1. /\ orders'[o] = [orders[o] EXCEPT !.status = Put(@, q.status), !.assignee = Put(@, q.assignee)]
            /\ history'[o] = history[o] \cup {s}
        BY <1>3, <3>2 DEF WriteCommit
      <4>2. orders[o].status \in OrderStatus /\ orders[o].assignee \in Techs \cup {"nobody"}
        BY <1>0, <3>2 DEF LiveOrders, OrderRowsSound
      <4>3. s \in OrderStatus /\ who \in Techs \cup {"nobody"}
        BY <2>1, <4>2 DEF Put, WriteReq
      <4>4. \/ s = orders[o].status
            \/ /\ s # "pending"
               /\ s = "in_progress" => "confirmed" \in history[o]
               /\ s = "completed" => "in_progress" \in history[o]
        BY <1>0, <2>1, <3>2 DEF Put, OrderRequestsSound
      <4>5. orders'[o] = [orders[o] EXCEPT !.status = s, !.assignee = who]
        BY <4>1
      <4> QED BY <4>1, <4>2, <4>3, <4>4, <4>5 DEF OrderMoves
    <3> QED BY <3>1, <3>2
  <2> QED BY <1>3, <2>2 DEF WriteCommit
<1>4. ASSUME NEW r \in OrderSlots, RemoveCommit(r)
      PROVE  /\ \A x \in Orders : OrderMoves(x)
             /\ orders' \in [Orders -> {orders'[x] : x \in Orders}]
             /\ history' \in [Orders -> {history'[x] : x \in Orders}]
  <2> DEFINE o == oreq[r].order
  <2>1. o \in Orders /\ orders[o].status \in OrderStatus
    BY <1>4 DEF RemoveCommit, LiveOrders
  <2>2. /\ orders'[o] = [orders[o] EXCEPT !.status = "deleted"]
        /\ \A x \in Orders \ {o} : orders'[x] = orders[x]
        /\ history' = history
    BY <1>0, <1>4, <2>1 DEF RemoveCommit, OrderRowsSound
  <2>3. \A x \in Orders : OrderMoves(x)
    BY <2>1, <2>2 DEF OrderMoves
  <2>4. orders' \in [Orders -> {orders'[x] : x \in Orders}]
    BY <1>0, <1>4, <2>1 DEF RemoveCommit, OrderRowsSound
  <2> QED BY <1>0, <2>2, <2>3, <2>4 DEF HistoryKept
<1> QED BY <1>1, <1>2, <1>3, <1>4
        DEF OrderNext, OrderStep, OrderArrive, OrderCommit, OrderAbort, TaskLinked, CreateOrderRead, UpdateRead,
            BulkStatusRead, BulkAssignRead, RemoveRead, Begin

\* What a move leaves of the row and adds to its history.
LEMMA MoveKeeps ==
    ASSUME OrderRowsSound, HistoryKept, NEW o \in Orders, OrderMoves(o)
    PROVE  /\ OrderRowSound(orders'[o]) /\ history'[o] \subseteq OrderStatus
           /\ history[o] \subseteq history'[o]
           /\ orders'[o].status = "fresh" => orders[o].status = "fresh" /\ history'[o] = {}
           /\ orders[o].status # "fresh" =>
                 /\ orders'[o].total = orders[o].total /\ orders'[o].paid = orders[o].paid
                 /\ orders'[o].payStatus = orders[o].payStatus
           /\ orders'[o].status \in OrderStatus =>
                 /\ {"pending", orders'[o].status} \subseteq history'[o]
                 /\ "completed" \in history'[o] => "in_progress" \in history'[o]
                 /\ "in_progress" \in history'[o] => "confirmed" \in history'[o]
           /\ orders'[o].status = "pending" => orders[o].status \in {"fresh", "pending"}
           /\ orders[o].status = "deleted" => orders'[o] = orders[o]
           /\ orders'[o].status # "fresh" /\ orders[o].status = "fresh" =>
                 orders'[o].paid = 0 /\ orders'[o].payStatus = "pending"
<1>0. OrderRowSound(orders[o]) /\ history[o] \subseteq OrderStatus
  BY DEF OrderRowsSound, OrderRowSound, HistoryKept
<1>00. "pending" \in OrderStatus /\ "fresh" \notin OrderStatus /\ "deleted" \notin OrderStatus
  BY DEF OrderStatus
<1>01. orders[o].status \in OrderStatus =>
          /\ {"pending", orders[o].status} \subseteq history[o]
          /\ "completed" \in history[o] => "in_progress" \in history[o]
          /\ "in_progress" \in history[o] => "confirmed" \in history[o]
  BY DEF HistoryKept, StatusEarned, LiveOrders
<1>1. CASE orders'[o] = orders[o] /\ history'[o] = history[o]
  BY <1>0, <1>00, <1>01, <1>1 DEF HistoryKept
<1>2. CASE /\ orders[o].status = "fresh"
           /\ orders'[o].status = "pending" /\ OrderRowSound(orders'[o])
           /\ orders'[o].paid = 0 /\ orders'[o].payStatus = "pending" 
           /\ history'[o] = {"pending"}
  BY <1>0, <1>00, <1>2 DEF HistoryKept
<1>3. ASSUME NEW s \in OrderStatus, NEW who \in Techs \cup {"nobody"},
             orders[o].status \in OrderStatus,
             orders'[o] = [orders[o] EXCEPT !.status = s, !.assignee = who],
             history'[o] = history[o] \cup {s},
             \/ s = orders[o].status
             \/ /\ s # "pending"
                /\ s = "in_progress" => "confirmed" \in history[o]
                /\ s = "completed" => "in_progress" \in history[o]
      PROVE  /\ OrderRowSound(orders'[o]) /\ orders'[o].status = s
             /\ orders'[o].total = orders[o].total /\ orders'[o].paid = orders[o].paid
             /\ orders'[o].payStatus = orders[o].payStatus
             /\ {"pending", s} \subseteq history'[o]
             /\ "completed" \in history'[o] => "in_progress" \in history'[o]
             /\ "in_progress" \in history'[o] => "confirmed" \in history'[o]
             /\ s = "pending" => orders[o].status = "pending"
  <2>1. /\ OrderRowSound(orders'[o]) /\ orders'[o].status = s
        /\ orders'[o].total = orders[o].total /\ orders'[o].paid = orders[o].paid
        /\ orders'[o].payStatus = orders[o].payStatus
    BY <1>0, <1>3 DEF OrderRowSound
  <2> QED BY <1>01, <1>3, <2>1
<1>4. CASE /\ orders[o].status \in OrderStatus
           /\ orders'[o] = [orders[o] EXCEPT !.status = "deleted"] /\ history'[o] = history[o]
  <2>1. /\ OrderRowSound(orders'[o]) /\ orders'[o].status = "deleted"
        /\ orders'[o].total = orders[o].total /\ orders'[o].paid = orders[o].paid
        /\ orders'[o].payStatus = orders[o].payStatus
    BY <1>0, <1>4 DEF OrderRowSound
  <2> QED BY <1>0, <1>00, <1>4, <2>1
<1>5. CASE \E s \in OrderStatus, who \in Techs \cup {"nobody"} :
       /\ orders[o].status \in OrderStatus
       /\ orders'[o] = [orders[o] EXCEPT !.status = s, !.assignee = who]
       /\ history'[o] = history[o] \cup {s}
       /\ \/ s = orders[o].status
          \/ /\ s # "pending"
             /\ s = "in_progress" => "confirmed" \in history[o]
             /\ s = "completed" => "in_progress" \in history[o]
  <2>1. PICK s \in OrderStatus, who \in Techs \cup {"nobody"} :
       /\ orders[o].status \in OrderStatus
       /\ orders'[o] = [orders[o] EXCEPT !.status = s, !.assignee = who]
       /\ history'[o] = history[o] \cup {s}
       /\ \/ s = orders[o].status
          \/ /\ s # "pending"
             /\ s = "in_progress" => "confirmed" \in history[o]
             /\ s = "completed" => "in_progress" \in history[o]
    BY <1>5
  <2>2. /\ OrderRowSound(orders'[o]) /\ orders'[o].status = s
        /\ orders'[o].total = orders[o].total /\ orders'[o].paid = orders[o].paid
        /\ orders'[o].payStatus = orders[o].payStatus
        /\ {"pending", s} \subseteq history'[o]
        /\ "completed" \in history'[o] => "in_progress" \in history'[o]
        /\ "in_progress" \in history'[o] => "confirmed" \in history'[o]
        /\ s = "pending" => orders[o].status = "pending"
    BY <1>3, <2>1
  <2> QED BY <1>0, <1>00, <2>1, <2>2
<1> QED BY <1>1, <1>2, <1>4, <1>5 DEF OrderMoves

\* A request is validated against orders that are there.
LEMMA OrderRequestsKept ==
    ASSUME OrdersInv, OrderNext
    PROVE  OrderRequestsSound'
<1>0. OrderRowsSound /\ OrderRequestsSound /\ HistoryKept
  BY DEF OrdersInv
<1>1. \A o \in Orders : /\ history[o] \subseteq history'[o]
                        /\ orders[o].status # "fresh" => orders'[o].status # "fresh"
  BY <1>0, OrderStepMoves, MoveKeeps
<1>2. ASSUME NEW r \in OrderSlots, NEW q \in {Free} \cup NewReq \cup WriteReq \cup RemoveReq,
             oreq' = [oreq EXCEPT ![r] = q],
             q.pc = "write" =>
                 /\ q.status # "pending"
                 /\ \A o \in q.on : /\ o \in Orders /\ orders[o].status # "fresh"
                                    /\ q.status = "in_progress" => "confirmed" \in history[o]
                                    /\ q.status = "completed" => "in_progress" \in history[o]
      PROVE  OrderRequestsSound'
  <2>1. oreq' \in [OrderSlots -> {Free} \cup NewReq \cup WriteReq \cup RemoveReq]
    BY <1>0, <1>2 DEF OrderRequestsSound
  <2>2. ASSUME NEW x \in OrderSlots, oreq'[x].pc = "write"
        PROVE  /\ oreq'[x].status # "pending"
               /\ \A o \in oreq'[x].on :
                     /\ o \in Orders /\ orders[o].status # "fresh"
                     /\ oreq'[x].status = "in_progress" => "confirmed" \in history[o]
                     /\ oreq'[x].status = "completed" => "in_progress" \in history[o]
    <3>1. CASE x = r
      BY <1>0, <1>2, <2>2, <3>1 DEF OrderRequestsSound
    <3>2. CASE x # r
      <4>1. oreq'[x] = oreq[x] /\ oreq[x] \in WriteReq
        BY <1>0, <1>2, <2>2, <3>2, OrderRequestKinds DEF OrderRequestsSound
      <4> QED BY <1>0, <2>2, <4>1 DEF OrderRequestsSound, WriteReq
    <3> QED BY <3>1, <3>2
  <2> QED BY <1>1, <2>1, <2>2 DEF OrderRequestsSound
<1>3. ASSUME NEW r \in OrderSlots, Finish(r) PROVE OrderRequestsSound'
  <2>1. Free.pc # "write"
    BY DEF Free
  <2> QED BY <1>2, <1>3, <2>1 DEF Finish
<1>4. ASSUME NEW o \in Orders, TaskLinked(o) PROVE OrderRequestsSound'
  BY <1>0, <1>4 DEF TaskLinked, OrderRequestsSound
<1>5. ASSUME NEW r \in OrderSlots, NEW t \in Totals, NEW who \in Techs \cup {"nobody"},
             CreateOrderRead(r, t, who)
      PROVE  OrderRequestsSound'
  <2> DEFINE q == [pc |-> "create", total |-> t, assignee |-> who, number |-> NextOrderNumber]
  <2>1. q \in NewReq /\ q.pc # "write"
    BY <1>0, NextOrderNumberIsNew DEF NewReq
  <2>2. oreq' = [oreq EXCEPT ![r] = q]
    BY <1>5 DEF CreateOrderRead, Begin
  <2> HIDE DEF q
  <2> QED BY <1>2, <2>1, <2>2
<1>6. ASSUME NEW r \in OrderSlots, NEW S \in SUBSET LiveOrders, NEW s \in OrderStatus \cup {"keep"},
             NEW who \in Techs \cup {"keep"}, NEW b \in BOOLEAN,
             s = "keep" \/ \A o \in S : s \in Allowed(orders[o].status), S # {},
             Begin(r, [pc |-> "write", on |-> S, status |-> s, assignee |-> who, bulk |-> b])
      PROVE  OrderRequestsSound'
  <2> DEFINE q == [pc |-> "write", on |-> S, status |-> s, assignee |-> who, bulk |-> b]
  <2>1. q \in WriteReq
    BY DEF WriteReq, LiveOrders
  <2>2. s # "pending"
    BY <1>6, AllowedForward
  <2>3. \A o \in S : /\ o \in Orders /\ orders[o].status # "fresh"
                     /\ s = "in_progress" => "confirmed" \in history[o]
                     /\ s = "completed" => "in_progress" \in history[o]
    BY <1>0, <1>6, AllowedForward DEF LiveOrders, OrderStatus, HistoryKept, StatusEarned
  <2>4. oreq' = [oreq EXCEPT ![r] = q]
    BY <1>6 DEF Begin
  <2>5. q.on = S /\ q.status = s
    OBVIOUS
  <2> HIDE DEF q
  <2> QED BY <1>2, <2>1, <2>2, <2>3, <2>4, <2>5
<1>7. ASSUME NEW r \in OrderSlots, NEW o \in Orders, RemoveRead(r, o) PROVE OrderRequestsSound'
  <2>1. [pc |-> "remove", order |-> o] \in RemoveReq
    BY DEF RemoveReq
  <2> QED BY <1>2, <1>7, <2>1 DEF RemoveRead, Begin
<1>8. ASSUME NEW r \in OrderSlots, OrderArrive(r) PROVE OrderRequestsSound'
  <2>1. ASSUME NEW o \in Orders, NEW s \in OrderStatus \cup {"keep"}, NEW who \in Techs \cup {"keep"},
               UpdateRead(r, o, s, who)
        PROVE  OrderRequestsSound'
    <3>1. {o} \in SUBSET LiveOrders /\ FALSE \in BOOLEAN /\ {o} # {}
      BY <2>1 DEF UpdateRead
    <3>2. s = "keep" \/ \A x \in {o} : s \in Allowed(orders[x].status)
      BY <2>1 DEF UpdateRead
    <3>3. Begin(r, [pc |-> "write", on |-> {o}, status |-> s, assignee |-> who, bulk |-> FALSE])
      BY <2>1 DEF UpdateRead
    <3> QED BY <1>6, <3>1, <3>2, <3>3
  <2>2. ASSUME NEW S \in (SUBSET Orders) \ {{}}, NEW s \in OrderStatus, BulkStatusRead(r, S, s)
        PROVE  OrderRequestsSound'
    <3>1. S \in SUBSET LiveOrders /\ TRUE \in BOOLEAN /\ \A x \in S : s \in Allowed(orders[x].status)
      BY <2>2 DEF BulkStatusRead
    <3>2. Begin(r, [pc |-> "write", on |-> S, status |-> s, assignee |-> "keep", bulk |-> TRUE])
      BY <2>2 DEF BulkStatusRead
    <3> QED BY <1>6, <2>2, <3>1, <3>2
  <2>3. ASSUME NEW S \in (SUBSET Orders) \ {{}}, NEW who \in Techs, BulkAssignRead(r, S, who)
        PROVE  OrderRequestsSound'
    <3>1. S \in SUBSET LiveOrders /\ TRUE \in BOOLEAN
      BY <2>3 DEF BulkAssignRead
    <3>2. Begin(r, [pc |-> "write", on |-> S, status |-> "keep", assignee |-> who, bulk |-> TRUE])
      BY <2>3 DEF BulkAssignRead
    <3> QED BY <1>6, <2>3, <3>1, <3>2
  <2> QED BY <1>5, <1>7, <1>8, <2>1, <2>2, <2>3 DEF OrderArrive
<1> QED BY <1>3, <1>4, <1>8 DEF OrderNext, OrderStep, OrderCommit, OrderAbort, CreateOrderCommit,
        WriteCommit, RemoveCommit

\* Every step of the orders' requests keeps what is known of rows, histories and requests.
LEMMA OrdersInvKept ==
    ASSUME OrdersInv, OrderNext
    PROVE  OrdersInv' /\ Onward
<1>0. OrderRowsSound /\ HistoryKept
  BY DEF OrdersInv
<1>1. /\ \A o \in Orders : OrderMoves(o)
      /\ orders' \in [Orders -> {orders'[o] : o \in Orders}]
      /\ history' \in [Orders -> {history'[o] : o \in Orders}]
  BY OrderStepMoves
<1>2. \A o \in Orders :
           /\ OrderRowSound(orders'[o]) /\ history'[o] \subseteq OrderStatus
           /\ history[o] \subseteq history'[o]
           /\ orders'[o].status = "fresh" => orders[o].status = "fresh" /\ history'[o] = {}
           /\ orders'[o].status \in OrderStatus =>
                 /\ {"pending", orders'[o].status} \subseteq history'[o]
                 /\ "completed" \in history'[o] => "in_progress" \in history'[o]
                 /\ "in_progress" \in history'[o] => "confirmed" \in history'[o]
           /\ orders'[o].status = "pending" => orders[o].status \in {"fresh", "pending"}
           /\ orders[o].status = "deleted" => orders'[o] = orders[o]
  BY <1>0, <1>1, MoveKeeps
<1>3. OrderRowsSound'
  BY <1>1, <1>2 DEF OrderRowsSound, OrderRowSound
<1>4. HistoryKept'
  BY <1>1, <1>2 DEF HistoryKept, StatusEarned, LiveOrders
<1>5. Onward
  BY <1>2 DEF Onward
<1> QED BY <1>3, <1>4, <1>5, OrderRequestsKept DEF OrdersInv

\* Before the first order there is no row and no history.
LEMMA OrdersStart ==
    ASSUME OrderInit
    PROVE  OrdersInv
<1>1. OrderRowSound(NoOrder) /\ NoOrder.status = "fresh"
  BY DEF NoOrder, OrderRowSound, PaidStatuses
<1>2. OrderRowsSound
  BY <1>1 DEF OrderInit, OrderRowsSound, OrderRowSound
<1>3. HistoryKept
  BY <1>1 DEF OrderInit, HistoryKept, StatusEarned, LiveOrders, OrderStatus
<1>4. OrderRequestsSound
  BY DEF OrderInit, OrderRequestsSound, Free
<1> QED BY <1>2, <1>3, <1>4 DEF OrdersInv

\* Where no order, history or order request changes, what is known of them stays.
LEMMA OrdersUntouched ==
    ASSUME OrdersInv, UNCHANGED <<orders, oreq, history>>
    PROVE  OrdersInv' /\ Onward
BY DEF OrdersInv, OrderRowsSound, OrderRequestsSound, HistoryKept, StatusEarned, LiveOrders, Onward

\* OrdersService alone: stale requests write statuses they validated long before, and no
\* order comes by a past it did not have.
THEOREM StatusesAreEarned == OrderSpec => []StatusEarned
<1>1. OrdersInv /\ [OrderNext]_ovars => OrdersInv'
  BY OrdersInvKept, OrdersUntouched DEF ovars
<1>2. OrdersInv => StatusEarned
  BY DEF OrdersInv, HistoryKept
<1> QED BY <1>1, <1>2, OrdersStart, PTL DEF OrderSpec, OrderStart

\* OrdersService alone: no order goes back to pending and none comes back from removal.
THEOREM OrdersGoOnward == OrderSpec => OnlyOnward
<1>1. OrdersInv /\ [OrderNext]_ovars => OrdersInv' /\ [Onward]_ovars
  BY OrdersInvKept, OrdersUntouched DEF ovars
<1> QED BY <1>1, OrdersStart, PTL DEF OrderSpec, OrderStart, OnlyOnward

-----------------------------------------------------------------------------
(* Orders and payments together: a step of an order request *)

\* What an order's step does to the payments: a removal takes away those of its order, and
\* none that is locked.
LEMMA OrderStepPayments ==
    ASSUME SalesInv, OrderNext
    PROVE  /\ payments' \in [Payments -> PaymentRow] /\ locked' = locked
           /\ \A p \in Payments :
                 \/ payments'[p] = payments[p]
                 \/ /\ payments'[p] = [payments[p] EXCEPT !.status = "deleted"]
                    /\ p \in LivePayments \ locked
           /\ \A p \in LivePayments' : orders'[payments'[p].order].status \in OrderStatus
<1>0. /\ StatusInv /\ PayInv /\ PaymentRowsSound /\ OrdersInv /\ PaymentHasOrder
      /\ OrderRowsSound /\ HistoryKept /\ OrderRequestsSound
  BY DEF SalesInv, StatusInv, PayInv, OrdersInv
<1>1. payments \in [Payments -> PaymentRow]
  BY <1>0 DEF PaymentRowsSound
<1>2. ASSUME NEW r \in OrderSlots, RemoveCommit(r)
      PROVE  /\ payments' \in [Payments -> PaymentRow] /\ locked' = locked
             /\ \A p \in Payments :
                   \/ payments'[p] = payments[p]
                   \/ /\ payments'[p] = [payments[p] EXCEPT !.status = "deleted"]
                      /\ p \in LivePayments \ locked
             /\ \A p \in LivePayments' : orders'[payments'[p].order].status \in OrderStatus
  <2> DEFINE o == oreq[r].order
  <2>1. \A p \in Payments : payments'[p] = IF p \in PaymentsOf(o)
                 THEN [payments[p] EXCEPT !.status = "deleted"] ELSE payments[p]
    BY <1>2 DEF RemoveCommit, Cascade
  <2>2. \A p \in Payments : [payments[p] EXCEPT !.status = "deleted"] \in PaymentRow
    BY <1>1 DEF PaymentRow
  <2>3. payments' \in [Payments -> PaymentRow] /\ locked' = locked
    BY <1>1, <1>2, <2>1, <2>2 DEF RemoveCommit
  <2>4. \A p \in PaymentsOf(o) : p \in LivePayments \ locked
    BY <1>2 DEF RemoveCommit, RowsUnlocked, PaymentsOf
  <2>5. ASSUME NEW p \in LivePayments'
        PROVE  orders'[payments'[p].order].status \in OrderStatus
    <3>1. p \in Payments /\ payments'[p].status \in PaymentStatus
      BY <2>5 DEF LivePayments
    <3>2. p \notin PaymentsOf(o)
      <4>1. p \in PaymentsOf(o) => payments'[p].status = "deleted"
        BY <1>1, <2>1, <3>1 DEF PaymentRow
      <4> QED BY <3>1, <4>1 DEF PaymentStatus
    <3>3. payments'[p] = payments[p] /\ p \in LivePayments /\ payments[p].order # o
      BY <2>1, <3>1, <3>2 DEF LivePayments, PaymentsOf
    <3>4. payments[p].order \in LiveOrders
      BY <1>0, <3>3 DEF PaymentHasOrder
    <3>5. orders'[payments[p].order] = orders[payments[p].order]
      BY <1>0, <1>2, <3>3, <3>4 DEF RemoveCommit, OrderRowsSound, LiveOrders
    <3> QED BY <3>3, <3>4, <3>5 DEF LiveOrders
  <2> QED BY <2>1, <2>3, <2>4, <2>5
<1>3. ASSUME UNCHANGED <<payments, locked>>, \A o \in LiveOrders : orders'[o].status \in OrderStatus
      PROVE  /\ payments' \in [Payments -> PaymentRow] /\ locked' = locked
             /\ \A p \in Payments :
                   \/ payments'[p] = payments[p]
                   \/ /\ payments'[p] = [payments[p] EXCEPT !.status = "deleted"]
                      /\ p \in LivePayments \ locked
             /\ \A p \in LivePayments' : orders'[payments'[p].order].status \in OrderStatus
  BY <1>0, <1>1, <1>3 DEF PaymentHasOrder, LivePayments
<1>4. ASSUME NEW r \in OrderSlots, NEW o \in Orders, CreateOrderCommit(r, o)
      PROVE  \A x \in LiveOrders : orders'[x].status \in OrderStatus
  BY <1>0, <1>4 DEF CreateOrderCommit, OrderRowsSound, LiveOrders, OrderStatus
<1>5. ASSUME NEW r \in OrderSlots, WriteCommit(r)
      PROVE  \A x \in LiveOrders : orders'[x].status \in OrderStatus
  <2>1. oreq[r] \in WriteReq
    BY <1>0, <1>5, OrderRequestKinds DEF WriteCommit
  <2> SUFFICES ASSUME NEW x \in LiveOrders PROVE orders'[x].status \in OrderStatus
    OBVIOUS
  <2>2. x \in Orders /\ orders[x].status \in OrderStatus /\ OrderRowSound(orders[x])
    BY <1>0 DEF LiveOrders, OrderRowsSound, OrderRowSound
  <2>3. Put(orders[x].status, oreq[r].status) \in OrderStatus
    BY <2>1, <2>2 DEF Put, WriteReq
  <2>4. \/ orders'[x] = orders[x]
        \/ orders'[x] = [orders[x] EXCEPT !.status = Put(@, oreq[r].status), !.assignee = Put(@, oreq[r].assignee)]
    BY <1>5, <2>2 DEF WriteCommit
  <2> QED BY <2>2, <2>3, <2>4 DEF OrderRowSound
<1>6. ASSUME UNCHANGED orders PROVE \A x \in LiveOrders : orders'[x].status \in OrderStatus
  BY <1>6 DEF LiveOrders
<1> QED BY <1>2, <1>3, <1>4, <1>5, <1>6
        DEF OrderNext, OrderStep, OrderArrive, OrderCommit, OrderAbort, TaskLinked, CreateOrderRead,
            UpdateRead, BulkStatusRead, BulkAssignRead, RemoveRead, Begin, CreateOrderCommit, WriteCommit

\* A step of an order request keeps what the payment requests and both tables rely on.
LEMMA OrdersMoveKeeps ==
    ASSUME SalesInv, OrdersMove
    PROVE  SalesInv' /\ Onward
<1>0. /\ StatusInv /\ PayInv /\ PaymentRowsSound /\ RequestsSound /\ OrdersInv /\ OrderRowsSound
      /\ HistoryKept /\ OrdersKnown /\ LocksHeld /\ PaymentHasOrder /\ OrderNext
      /\ preq' = preq /\ refundSum' = refundSum
  BY DEF SalesInv, StatusInv, PayInv, OrdersInv, OrdersMove
<1>1. OrdersInv' /\ Onward
  BY <1>0, OrdersInvKept
<1>2. /\ payments' \in [Payments -> PaymentRow] /\ locked' = locked
      /\ \A p \in Payments :
            \/ payments'[p] = payments[p]
            \/ /\ payments'[p] = [payments[p] EXCEPT !.status = "deleted"]
               /\ p \in LivePayments \ locked
      /\ \A p \in LivePayments' : orders'[payments'[p].order].status \in OrderStatus
  BY <1>0, OrderStepPayments
<1>3. \A p \in Payments :
         /\ payments'[p].amount = payments[p].amount /\ payments'[p].order = payments[p].order
         /\ payments[p].status # "fresh" => payments'[p].status # "fresh"
         /\ payments'[p].status \in PaymentStatus => payments'[p] = payments[p]
  <2> SUFFICES ASSUME NEW p \in Payments
               PROVE  /\ payments'[p].amount = payments[p].amount /\ payments'[p].order = payments[p].order
                      /\ payments[p].status # "fresh" => payments'[p].status # "fresh"
                      /\ payments'[p].status \in PaymentStatus => payments'[p] = payments[p]
    OBVIOUS
  <2>1. payments[p] \in PaymentRow
    BY <1>0 DEF PaymentRowsSound
  <2> QED BY <1>2, <2>1 DEF PaymentRow, PaymentStatus
<1>4. PaymentRowsSound'
  BY <1>0, <1>2, <1>3 DEF PaymentRowsSound, RefundWithinPayment, RecordedRefundsMade, LivePayments
<1>5. RequestsSound'
  <2>1. ASSUME NEW x \in PaySlots
        PROVE  (preq[x] = Idle \/ CreateInFlight(preq[x]) \/ RefundInFlight(preq[x]))'
    <3>1. CASE RefundInFlight(preq[x])
      <4>1. preq[x].payment \in Payments
        BY <3>1 DEF RefundInFlight
      <4> QED BY <1>0, <1>3, <3>1, <4>1 DEF RefundInFlight
    <3>2. CASE preq[x] = Idle \/ CreateInFlight(preq[x])
      BY <1>0, <3>2 DEF CreateInFlight
    <3> QED BY <1>0, <3>1, <3>2 DEF RequestsSound
  <2> QED BY <1>0, <2>1 DEF RequestsSound
<1>6. \A o \in Orders : orders[o].status # "fresh" =>
         /\ orders'[o].status # "fresh" /\ orders'[o].total = orders[o].total
         /\ orders'[o].paid = orders[o].paid /\ orders'[o].payStatus = orders[o].payStatus
  BY <1>0, OrderStepMoves, MoveKeeps
<1>7. \A x \in PaySlots : preq[x].pc # "idle" => preq[x].order \in Orders
  BY <1>0, IdleShape DEF RequestsSound, CreateInFlight, RefundInFlight
<1>8. TotalsCurrent' /\ OrdersKnown'
  BY <1>0, <1>6, <1>7 DEF StatusInv, TotalsCurrent, OrdersKnown
<1>9. StatusTellsPaid'
  <2>1. ASSUME NEW o \in LiveOrders'
        PROVE  LET row == orders'[o] IN
               /\ row.payStatus = "paid" => row.paid >= row.total
               /\ row.payStatus = "partial" => row.paid > 0 /\ ~(row.paid >= row.total)
               /\ row.payStatus = "pending" => ~(row.paid > 0)
    <3>1. o \in Orders /\ orders'[o].status \in OrderStatus
      BY <2>1 DEF LiveOrders
    <3>2. CASE orders[o].status = "fresh"
      <4>1. orders'[o].paid = 0 /\ orders'[o].payStatus = "pending"
        BY <1>0, <3>1, <3>2, OrderStepMoves, MoveKeeps DEF OrderStatus
      <4> QED BY <4>1
    <3>3. CASE orders[o].status # "fresh"
      <4>1. o \in LiveOrders
        BY <1>0, <1>1, <3>1, <3>3 DEF Onward, LiveOrders, OrderRowsSound, OrderStatus
      <4> QED BY <1>0, <1>6, <3>1, <3>3, <4>1 DEF StatusInv, StatusTellsPaid
    <3> QED BY <3>2, <3>3
  <2> QED BY <2>1 DEF StatusTellsPaid
<1>10. LocksHeld'
  <2>1. ASSUME NEW p \in LivePayments \cap locked PROVE p \in LivePayments'
    BY <1>2, <2>1 DEF LivePayments
  <2> QED BY <1>0, <1>2, <2>1 DEF LocksHeld, InRefund
<1>11. PaymentHasOrder'
  <2>1. ASSUME NEW p \in LivePayments' PROVE payments'[p].order \in Orders
    BY <1>4 DEF PaymentRowsSound
  <2> QED BY <1>2, <2>1 DEF PaymentHasOrder, LiveOrders
<1> QED BY <1>1, <1>4, <1>5, <1>8, <1>9, <1>10, <1>11 DEF SalesInv, StatusInv, PayInv, OrdersInv

-----------------------------------------------------------------------------
(* Orders and payments together: a step of a payment request *)

\* The program counter tells which kind of request a slot holds.
LEMMA PayRequestKinds ==
    ASSUME RequestsSound, NEW r \in PaySlots
    PROVE  /\ preq[r].pc \in {"number", "commit"} => CreateInFlight(preq[r])
           /\ preq[r].pc \in {"update", "sum", "write"} => RefundInFlight(preq[r])
           /\ preq[r].pc \in {"idle", "number", "commit", "update", "sum", "write"}
           /\ preq[r].pc = "idle" => preq[r] = Idle
BY DEF RequestsSound, CreateInFlight, RefundInFlight, Idle

\* A payment request writes the paid columns of one order that is not removed, and never
\* touches the status of an order.
LEMMA PayStepOrders ==
    ASSUME SalesInv, NEW r \in PaySlots, PayStep(r)
    PROVE  \A o \in Orders : /\ orders'[o].status = orders[o].status
                             /\ orders[o].status = "deleted" => orders'[o] = orders[o]
<1>0. OrderRowsSound /\ RequestsSound /\ PaymentHasOrder /\ LocksHeld
  BY DEF SalesInv, StatusInv, PayInv
<1>1. ASSUME NEW d \in LiveOrders, NEW paid, NEW status,
             orders' = [orders EXCEPT ![d].paid = paid, ![d].payStatus = status]
      PROVE  \A o \in Orders : /\ orders'[o].status = orders[o].status
                               /\ orders[o].status = "deleted" => orders'[o] = orders[o]
  <2>1. d \in Orders /\ orders[d].status # "deleted"
    BY DEF LiveOrders, OrderStatus
  <2>2. orders'[d] = [orders[d] EXCEPT !.paid = paid, !.payStatus = status]
    BY <1>0, <1>1, <2>1 DEF OrderRowsSound
  <2>3. OrderRowSound(orders[d])
    BY <1>0, <2>1 DEF OrderRowsSound, OrderRowSound
  <2>4. orders'[d].status = orders[d].status
    BY <2>2, <2>3 DEF OrderRowSound
  <2>5. \A o \in Orders \ {d} : orders'[o] = orders[o]
    BY <1>0, <1>1 DEF OrderRowsSound
  <2> QED BY <2>1, <2>4, <2>5
<1>2. ASSUME NEW p \in Payments, CreateCommit(r, p)
      PROVE  \A o \in Orders : /\ orders'[o].status = orders[o].status
                               /\ orders[o].status = "deleted" => orders'[o] = orders[o]
  BY <1>1, <1>2 DEF CreateCommit
<1>3. ASSUME RefundCommit(r)
      PROVE  \A o \in Orders : /\ orders'[o].status = orders[o].status
                               /\ orders[o].status = "deleted" => orders'[o] = orders[o]
  <2>1. preq[r].pc = "write" /\ RefundInFlight(preq[r])
    BY <1>0, <1>3, PayRequestKinds DEF RefundCommit
  <2>2. preq[r].payment \in LivePayments /\ payments[preq[r].payment].order = preq[r].order
    BY <1>0, <2>1 DEF LocksHeld, InRefund, RefundInFlight
  <2>3. preq[r].order \in LiveOrders
    BY <1>0, <2>2 DEF PaymentHasOrder
  <2> QED BY <1>1, <1>3, <2>3 DEF RefundCommit
<1> QED BY <1>2, <1>3 DEF PayStep, PayArrive, PayProgress, PayAbort, CreateRead, CreateNumber, RefundRead,
           RefundUpdate, RefundSum

\* A step of one payment request leaves the others.
LEMMA PayFrame ==
    ASSUME RequestsSound, NEW r \in PaySlots, PayStep(r)
    PROVE  \A x \in PaySlots : x # r => preq'[x] = preq[x]
BY DEF RequestsSound, PayStep, PayArrive, PayProgress, PayAbort, CreateRead, CreateNumber, CreateCommit,
       RefundRead, RefundUpdate, RefundSum, RefundCommit

\* A request keeps the order and the payment it has read about.
LEMMA PayRequestKeeps ==
    ASSUME RequestsSound, NEW r \in PaySlots
    PROVE  /\ CreateNumber(r) => preq'[r].pc = "commit" /\ preq'[r].order = preq[r].order
           /\ RefundUpdate(r) => /\ preq'[r].pc = "sum" /\ preq'[r].order = preq[r].order
                                 /\ preq'[r].payment = preq[r].payment
           /\ RefundSum(r) => /\ preq'[r].pc = "write" /\ preq'[r].order = preq[r].order
                              /\ preq'[r].payment = preq[r].payment
           /\ (\E p \in Payments : CreateCommit(r, p)) \/ RefundCommit(r) \/ PayAbort(r) =>
                 preq'[r].pc = "idle"
<1>1. ASSUME CreateNumber(r) PROVE preq'[r].pc = "commit" /\ preq'[r].order = preq[r].order
  <2>1. CreateInFlight(preq[r])
    BY <1>1, PayRequestKinds DEF CreateNumber
  <2>2. preq'[r] = [preq[r] EXCEPT !.pc = "commit", !.number = NextPaymentNumber] /\ preq[r].pc = "number"
    BY <1>1 DEF CreateNumber, RequestsSound
  <2> QED BY <2>1, <2>2 DEF CreateInFlight
<1>2. ASSUME RefundUpdate(r)
      PROVE  preq'[r].pc = "sum" /\ preq'[r].order = preq[r].order /\ preq'[r].payment = preq[r].payment
  <2>1. RefundInFlight(preq[r])
    BY <1>2, PayRequestKinds DEF RefundUpdate
  <2>2. preq'[r] = [preq[r] EXCEPT !.pc = "sum"] /\ preq[r].pc = "update"
    BY <1>2 DEF RefundUpdate, RequestsSound
  <2> QED BY <2>1, <2>2 DEF RefundInFlight
<1>3. ASSUME RefundSum(r)
      PROVE  preq'[r].pc = "write" /\ preq'[r].order = preq[r].order /\ preq'[r].payment = preq[r].payment
  <2> DEFINE net == (preq[r].size - RefundedAfter(preq[r])) + OthersNet(preq[r])
  <2>1. RefundInFlight(preq[r])
    BY <1>3, PayRequestKinds DEF RefundSum
  <2>2. preq'[r] = [preq[r] EXCEPT !.pc = "write", !.paid = net] /\ preq[r].pc = "sum"
    BY <1>3 DEF RefundSum, RequestsSound
  <2> HIDE DEF net
  <2> QED BY <2>1, <2>2 DEF RefundInFlight
<1>4. (\E p \in Payments : CreateCommit(r, p)) \/ RefundCommit(r) \/ PayAbort(r) => preq'[r].pc = "idle"
  BY IdleShape DEF CreateCommit, RefundCommit, PayAbort, RequestsSound
<1> QED BY <1>1, <1>2, <1>3, <1>4

\* A step of a payment request removes no payment, leaves the order of each, and gives a new
\* one an order that is there.
LEMMA PayStepPayments ==
    ASSUME SalesInv, NEW r \in PaySlots, PayStep(r)
    PROVE  /\ LivePayments \subseteq LivePayments'
           /\ \A p \in LivePayments : payments'[p].order = payments[p].order
           /\ \A p \in LivePayments' : p \in LivePayments \/ payments'[p].order \in LiveOrders
<1>0. RequestsSound /\ LocksHeld /\ payments \in [Payments -> PaymentRow]
  BY DEF SalesInv, StatusInv, PayInv, PaymentRowsSound
<1>1. ASSUME NEW p \in Payments, CreateCommit(r, p)
      PROVE  /\ LivePayments \subseteq LivePayments'
             /\ \A x \in LivePayments : payments'[x].order = payments[x].order
             /\ \A x \in LivePayments' : x \in LivePayments \/ payments'[x].order \in LiveOrders
  <2>1. payments[p].status = "fresh" /\ \A x \in Payments \ {p} : payments'[x] = payments[x]
    BY <1>0, <1>1 DEF CreateCommit
  <2>2. payments'[p].order = preq[r].order /\ preq[r].order \in LiveOrders
    BY <1>0, <1>1 DEF CreateCommit
  <2> QED BY <2>1, <2>2 DEF LivePayments, PaymentStatus
<1>2. ASSUME RefundCommit(r)
      PROVE  /\ LivePayments \subseteq LivePayments'
             /\ \A x \in LivePayments : payments'[x].order = payments[x].order
             /\ \A x \in LivePayments' : x \in LivePayments \/ payments'[x].order \in LiveOrders
  <2> DEFINE p == preq[r].payment
  <2>1. p \in LivePayments /\ p \in Payments /\ preq[r].pc = "write"
    BY <1>0, <1>2 DEF RefundCommit, LocksHeld, InRefund, LivePayments
  <2>2. /\ payments'[p] = [payments[p] EXCEPT !.refunded = RefundedAfter(preq[r]), !.status = StatusAfter(preq[r])]
        /\ \A x \in Payments \ {p} : payments'[x] = payments[x]
    BY <1>0, <1>2, <2>1 DEF RefundCommit
  <2>3. StatusAfter(preq[r]) \in PaymentStatus
    BY DEF StatusAfter, PaymentStatus
  <2>4. payments'[p].status \in PaymentStatus /\ payments'[p].order = payments[p].order
    BY <1>0, <2>1, <2>2, <2>3 DEF PaymentRow
  <2> QED BY <2>1, <2>2, <2>4 DEF LivePayments
<1>3. ASSUME UNCHANGED payments
      PROVE  /\ LivePayments \subseteq LivePayments'
             /\ \A x \in LivePayments : payments'[x].order = payments[x].order
             /\ \A x \in LivePayments' : x \in LivePayments \/ payments'[x].order \in LiveOrders
  BY <1>3 DEF LivePayments
<1> QED BY <1>1, <1>2, <1>3 DEF PayStep, PayArrive, PayProgress, PayAbort, CreateRead, CreateNumber, RefundRead,
           RefundUpdate, RefundSum

\* What holds of the orders, the locks and the requests is kept by a payment request.
LEMMA PaymentsMoveKeeps ==
    ASSUME SalesInv, PaymentsMove
    PROVE  SalesInv' /\ Onward
<1>0. /\ StatusInv /\ PayInv /\ RequestsSound /\ OrderRequestsSound /\ OrderRowsSound
      /\ HistoryKept /\ OrdersKnown /\ LocksHeld /\ PaymentHasOrder
      /\ UNCHANGED <<oreq, history, tasked>>
  BY DEF SalesInv, StatusInv, PayInv, PaymentsMove
<1>1. PICK r \in PaySlots : PayStep(r)
  BY DEF PaymentsMove
<1>2. StatusInv'
  BY <1>0, <1>1, StatusStepKeeps
<1>3. \A o \in Orders : /\ orders'[o].status = orders[o].status
                        /\ orders[o].status = "deleted" => orders'[o] = orders[o]
  BY <1>1, PayStepOrders
<1>4. OrderRequestsSound'
  <2>1. \A x \in OrderSlots : oreq[x].pc = "write" => oreq[x].on \subseteq Orders
    BY <1>0, OrderRequestKinds DEF WriteReq
  <2> QED BY <1>0, <1>3, <2>1 DEF OrderRequestsSound
<1>5. HistoryKept'
  BY <1>0, <1>3 DEF HistoryKept, StatusEarned, LiveOrders
<1>6. Onward
  BY <1>0, <1>3 DEF Onward
<1>7. \A x \in PaySlots : x # r => preq'[x] = preq[x]
  BY <1>0, <1>1, PayFrame
<1>8. PaymentHasOrder'
  BY <1>0, <1>1, <1>3, PayStepPayments DEF PaymentHasOrder, LiveOrders
<1>9. OrdersKnown'
  <2>1. ASSUME preq'[r].pc # "idle"
        PROVE  preq'[r].order \in Orders /\ orders[preq'[r].order].status # "fresh"
    <3>1. ASSUME NEW o \in Orders, NEW a \in Amounts, CreateRead(r, o, a)
          PROVE  preq'[r].order \in Orders /\ orders[preq'[r].order].status # "fresh"
      BY <1>0, <3>1 DEF CreateRead, RequestsSound, LiveOrders, OrderStatus
    <3>2. ASSUME NEW p \in Payments, NEW a \in Amounts, RefundRead(r, p, a)
          PROVE  preq'[r].order \in Orders /\ orders[preq'[r].order].status # "fresh"
      <4>1. p \in LivePayments
        BY <3>2 DEF RefundRead, LivePayments, PaymentStatus
      <4>2. payments[p].order \in LiveOrders
        BY <1>0, <4>1 DEF PaymentHasOrder
      <4>3. preq'[r].order = payments[p].order
        BY <1>0, <3>2 DEF RefundRead, RequestsSound
      <4> QED BY <4>2, <4>3 DEF LiveOrders, OrderStatus
    <3>3. CASE CreateNumber(r) \/ RefundUpdate(r) \/ RefundSum(r)
      <4>1. preq'[r].order = preq[r].order /\ preq[r].pc # "idle"
        BY <1>0, <3>3, PayRequestKeeps DEF CreateNumber, RefundUpdate, RefundSum
      <4>2. preq[r].order \in Orders
        BY <1>0, <4>1, PayRequestKinds DEF CreateInFlight, RefundInFlight
      <4> QED BY <1>0, <4>1, <4>2 DEF OrdersKnown
    <3>4. CASE (\E p \in Payments : CreateCommit(r, p)) \/ RefundCommit(r) \/ PayAbort(r)
      BY <1>0, <2>1, <3>4, PayRequestKeeps
    <3> QED BY <1>1, <3>1, <3>2, <3>3, <3>4 DEF PayStep, PayArrive, PayProgress
  <2>2. \A x \in PaySlots : preq[x].pc # "idle" => preq[x].order \in Orders
    BY <1>0, PayRequestKinds DEF CreateInFlight, RefundInFlight
  <2>3. \A x \in PaySlots : preq'[x].pc # "idle" =>
           preq'[x].order \in Orders /\ orders[preq'[x].order].status # "fresh"
    BY <1>0, <1>7, <2>1, <2>2 DEF OrdersKnown
  <2> QED BY <1>3, <2>3 DEF OrdersKnown
<1>10. LocksHeld'
  <2>1. LivePayments \subseteq LivePayments'
    BY <1>1, PayStepPayments
  <2>2. \A x \in PaySlots : x # r => (InRefund(x)' <=> InRefund(x)) /\ preq'[x].payment = preq[x].payment
    BY <1>7 DEF InRefund
  <2>3. CASE (\E o \in Orders, a \in Amounts : CreateRead(r, o, a))
             \/ (\E p \in Payments, a \in Amounts : RefundRead(r, p, a)) \/ CreateNumber(r)
    <3>1. ~InRefund(r)'
      BY <1>0, <2>3, PayRequestKeeps DEF CreateRead, RefundRead, RequestsSound, InRefund
    <3>2. locked' = locked
      BY <2>3 DEF CreateRead, RefundRead, CreateNumber
    <3> QED BY <1>0, <2>1, <2>2, <3>1, <3>2 DEF LocksHeld
  <2>4. CASE RefundUpdate(r)
    <3>1. /\ preq'[r].payment = preq[r].payment /\ preq[r].payment \in LivePayments \ locked
          /\ locked' = locked \cup {preq[r].payment}
      BY <1>0, <2>4, PayRequestKeeps DEF RefundUpdate
    <3>2. \A x \in PaySlots : x # r /\ InRefund(x) => preq[x].payment # preq[r].payment
      BY <1>0, <3>1 DEF LocksHeld
    <3> QED BY <1>0, <2>1, <2>2, <3>1, <3>2 DEF LocksHeld
  <2>5. CASE RefundSum(r)
    <3>1. preq'[r].payment = preq[r].payment /\ InRefund(r) /\ locked' = locked
      BY <1>0, <2>5, PayRequestKeeps DEF RefundSum, InRefund
    <3> QED BY <1>0, <2>1, <2>2, <3>1 DEF LocksHeld
  <2>6. CASE \E p \in Payments : CreateCommit(r, p)
    <3>1. ~InRefund(r)' /\ locked' = locked
      BY <1>0, <2>6, PayRequestKeeps DEF CreateCommit, InRefund
    <3> QED BY <1>0, <2>1, <2>2, <3>1 DEF LocksHeld
  <2>7. CASE RefundCommit(r) \/ PayAbort(r)
    <3>1. ~InRefund(r)'
      BY <1>0, <2>7, PayRequestKeeps DEF InRefund
    <3>2. locked' = IF InRefund(r) THEN locked \ {preq[r].payment} ELSE locked
      BY <2>7 DEF RefundCommit, PayAbort, InRefund
    <3>3. \A x \in PaySlots : x # r /\ InRefund(x) => preq[x].payment \in locked'
      BY <1>0, <3>2 DEF LocksHeld
    <3> QED BY <1>0, <2>1, <2>2, <3>1, <3>3 DEF LocksHeld
  <2> QED BY <1>1, <2>3, <2>4, <2>5, <2>6, <2>7 DEF PayStep, PayArrive, PayProgress
<1> QED BY <1>2, <1>4, <1>5, <1>6, <1>8, <1>9, <1>10 DEF SalesInv

-----------------------------------------------------------------------------
(* Both services together *)

\* Before the first order there is nothing.
LEMMA SalesStart ==
    ASSUME Init
    PROVE  SalesInv
<1>1. OrdersInv /\ PayInv
  BY OrdersStart, PayInitSound DEF Init
<1>2. LivePayments = {} /\ \A o \in Orders : orders[o] = NoOrder
  BY DEF Init, NoPaymentsYet, NoPayment, LivePayments, PaymentStatus, OrderInit
<1>3. \A r \in PaySlots : preq[r].pc = "idle"
  BY DEF Init, PayInit, Idle
<1>4. LiveOrders = {}
  BY <1>2 DEF LiveOrders, NoOrder, OrderStatus
<1> QED BY <1>1, <1>2, <1>3, <1>4 DEF SalesInv, OrdersInv, StatusInv, TotalsCurrent, StatusTellsPaid,
           OrdersKnown, LocksHeld, InRefund, PaymentHasOrder

\* A step that changes nothing keeps the invariant.
LEMMA SalesStutter ==
    ASSUME SalesInv, UNCHANGED vars
    PROVE  SalesInv' /\ Onward
<1>1. PayInv'
  BY PayStutter DEF SalesInv, StatusInv, vars, pvars
<1>2. OrdersInv' /\ Onward
  BY OrdersUntouched DEF SalesInv, StatusInv, OrdersInv, vars
<1>3. TotalsCurrent' /\ StatusTellsPaid' /\ OrdersKnown' /\ LocksHeld' /\ PaymentHasOrder'
  BY DEF SalesInv, StatusInv, vars, TotalsCurrent, StatusTellsPaid, OrdersKnown, LocksHeld, InRefund,
         PaymentHasOrder, LiveOrders, LivePayments
<1> QED BY <1>1, <1>2, <1>3 DEF SalesInv, StatusInv, OrdersInv

\* The invariant of the two services, and what each step of theirs leaves of an order.
LEMMA SalesStepKeeps == SalesInv /\ [Next]_vars => SalesInv' /\ Onward
BY OrdersMoveKeeps, PaymentsMoveKeeps, SalesStutter DEF Next

\* The rows, the requests in flight and the locks of the two services fit together at all times.
THEOREM SalesInvariant == Spec => []SalesInv
BY SalesStart, SalesStepKeeps, PTL DEF Spec

\* Although orders are removed while requests to pay them are in flight, no payment is left
\* without its order.
THEOREM PaymentsHaveOrders == Spec => []PaymentHasOrder
<1>1. SalesInv => PaymentHasOrder
  BY DEF SalesInv
<1> QED BY <1>1, SalesInvariant, PTL

\* The row lock of an open refund keeps its payment, and with it the order, from removal.
THEOREM OpenRefundsKeepTheirRows == Spec => []OpenRefundKeepsItsRows
<1>1. ASSUME SalesInv PROVE OpenRefundKeepsItsRows
  <2>1. ASSUME NEW r \in PaySlots, preq[r].pc \in {"sum", "write"}
        PROVE  preq[r].payment \in LivePayments /\ preq[r].order \in LiveOrders
    <3>1. preq[r].payment \in LivePayments /\ RefundInFlight(preq[r])
      BY <1>1, <2>1, PayRequestKinds DEF SalesInv, StatusInv, PayInv, LocksHeld, InRefund
    <3> QED BY <1>1, <3>1 DEF SalesInv, PaymentHasOrder, RefundInFlight
  <2> QED BY <2>1 DEF OpenRefundKeepsItsRows
<1> QED BY <1>1, SalesInvariant, PTL

\* Neither do the payment requests, which write the same rows, give an order a past it did
\* not have.
THEOREM SharedStatusesAreEarned == Spec => []StatusEarned
<1>1. SalesInv => StatusEarned
  BY DEF SalesInv, HistoryKept
<1> QED BY <1>1, SalesInvariant, PTL

\* Neither do they bring an order back, or write to one that is removed.
THEOREM SharedOrdersGoOnward == Spec => OnlyOnward
<1>1. [Onward]_vars /\ [Next]_vars => [Onward]_ovars
  BY DEF vars, ovars
<1> QED BY SalesInvariant, SalesStepKeeps, PTL DEF Spec, OnlyOnward

\* What PaymentsService promises of its rows it keeps beside OrdersService.
THEOREM PaymentsStaySound == Spec => [](RefundWithinPayment /\ RecordedRefundsMade /\ StatusTellsPaid)
<1>1. SalesInv => RefundWithinPayment /\ RecordedRefundsMade /\ StatusTellsPaid
  BY DEF SalesInv, StatusInv, PayInv, PaymentRowsSound
<1> QED BY <1>1, SalesInvariant, PTL
=============================================================================

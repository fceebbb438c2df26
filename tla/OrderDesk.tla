----------------------------- MODULE OrderDesk -----------------------------
(***************************************************************************)
(* OrdersService: creating an order, moving it through its statuses, one   *)
(* by one or in bulk, editing and assigning it, and removing it.           *)
(*                                                                         *)
(* Like payment requests, an order request reads, validates what it read,  *)
(* awaits, and then writes without looking again. A request is a slot; a   *)
(* rejected one changes nothing and has no step.                           *)
(*   create                     idle -> create -> idle                     *)
(*   update, updateStatus,                                                 *)
(*   bulkAssign, bulkUpdateStatus  idle -> write -> idle                   *)
(*   remove                     idle -> remove -> idle                     *)
(* Every transaction over an item whose product has trackInventory rolls   *)
(* back: the movement row updateInventoryForOrder inserts lacks its        *)
(* mandatory createdBy. So the orders here have untracked items only, and  *)
(* no order touches stock. Replacing the items of an order rolls back too: *)
(* update passes the raw items to order.update.                            *)
(***************************************************************************)
EXTENDS SalesDb

CONSTANTS OrderSlots  \* order requests that may be in flight at once

VARIABLES oreq,     \* oreq[r]: where request r is and what it has read
          history,  \* history[o]: the statuses order o has had
          tasked    \* orders that some task points to

ovars == <<orders, payments, locked, oreq, history, tasked>>

Free == [pc |-> "idle"]

NewReq    == [pc: {"create"}, total: Totals, assignee: Techs \cup {"nobody"}, number: Nat]
WriteReq  == [pc: {"write"}, on: SUBSET Orders, status: OrderStatus \cup {"keep"},
              assignee: Techs \cup {"keep"}, bulk: BOOLEAN]
RemoveReq == [pc: {"remove"}, order: Orders]

OrderTypeOK ==
    /\ DbTypeOK
    /\ oreq \in [OrderSlots -> {Free} \cup NewReq \cup WriteReq \cup RemoveReq]
    /\ history \in [Orders -> SUBSET OrderStatus]
    /\ tasked \subseteq Orders

OrderInit ==
    /\ orders = [o \in Orders |-> NoOrder]
    /\ oreq = [r \in OrderSlots |-> Free]
    /\ history = [o \in Orders |-> {}]
    /\ tasked = {}

Begin(r, q) ==
    /\ oreq[r].pc = "idle"
    /\ oreq' = [oreq EXCEPT ![r] = q]
    /\ UNCHANGED <<orders, payments, locked, history, tasked>>

Finish(r) == oreq' = [oreq EXCEPT ![r] = Free]

-----------------------------------------------------------------------------
(* create, and duplicate, which calls it with the fields of an order it read *)

\* Bound: an order is started only while an unused id is left for it.
OrderIdLeft ==
    Cardinality({o \in Orders : orders[o].status = "fresh"})
      > Cardinality({r \in OrderSlots : oreq[r].pc = "create"})

NextOrderNumber == 1 + Max({orders[o].number : o \in LiveOrders} \cup {0})

CreateOrderRead(r, t, who) ==
    /\ OrderIdLeft
    /\ Begin(r, [pc |-> "create", total |-> t, assignee |-> who, number |-> NextOrderNumber])

OrderNumberFree(n) == \A o \in LiveOrders : orders[o].number # n

CreateOrderCommit(r, o) ==
    LET q == oreq[r] IN
    /\ q.pc = "create"
    /\ orders[o].status = "fresh"
    /\ OrderNumberFree(q.number)
    /\ orders' = [orders EXCEPT ![o] =
           [status |-> "pending", total |-> q.total, paid |-> 0, payStatus |-> "pending",
            number |-> q.number, assignee |-> q.assignee]]
    /\ history' = [history EXCEPT ![o] = {"pending"}]
    /\ Finish(r)
    /\ UNCHANGED <<payments, locked, tasked>>

-----------------------------------------------------------------------------
(* update, updateStatus, bulkUpdateStatus, bulkAssign *)

\* Mutant: confirmation may be skipped.
AllowedSkipping(s) == CASE s = "pending"     -> {"confirmed", "in_progress", "cancelled"}
                        [] s = "confirmed"   -> {"in_progress", "cancelled"}
                        [] s = "in_progress" -> {"completed", "cancelled"}
                        [] OTHER             -> {}

\* Mutant: a cancelled order may be taken up again.
AllowedReopening(s) == CASE s = "pending"     -> {"confirmed", "cancelled"}
                         [] s = "confirmed"   -> {"in_progress", "cancelled"}
                         [] s = "in_progress" -> {"completed", "cancelled"}
                         [] OTHER             -> {"pending"}

\* validateStatusTransition
Allowed(s) == CASE s = "pending"     -> {"confirmed", "cancelled"}
                [] s = "confirmed"   -> {"in_progress", "cancelled"}
                [] s = "in_progress" -> {"completed", "cancelled"}
                [] OTHER             -> {}

\* update: any fields, the assignee standing for those other than the status; only a
\* status that is given is validated. updateStatus is the same with a status alone.
UpdateRead(r, o, s, who) ==
    /\ o \in LiveOrders
    /\ s = "keep" \/ s \in Allowed(orders[o].status)
    /\ Begin(r, [pc |-> "write", on |-> {o}, status |-> s, assignee |-> who, bulk |-> FALSE])

BulkStatusRead(r, S, s) ==
    /\ S \subseteq LiveOrders
    /\ \A o \in S : s \in Allowed(orders[o].status)
    /\ Begin(r, [pc |-> "write", on |-> S, status |-> s, assignee |-> "keep", bulk |-> TRUE])

BulkAssignRead(r, S, who) ==
    /\ S \subseteq LiveOrders
    /\ \A o \in S : orders[o].status \in {"pending", "confirmed"}
    /\ Begin(r, [pc |-> "write", on |-> S, status |-> "keep", assignee |-> who, bulk |-> TRUE])

Put(old, new) == IF new = "keep" THEN old ELSE new

\* update fails on a missing row; updateMany passes over the missing ones.
WriteCommit(r) ==
    LET q == oreq[r]
        Written == q.on \cap LiveOrders
    IN
    /\ q.pc = "write"
    /\ q.bulk \/ q.on \subseteq LiveOrders
    /\ orders' = [o \in Orders |-> IF o \in Written
                      THEN [orders[o] EXCEPT !.status = Put(@, q.status),
                                             !.assignee = Put(@, q.assignee)]
                      ELSE orders[o]]
    /\ history' = [o \in Orders |-> IF o \in Written
                       THEN history[o] \cup {Put(orders[o].status, q.status)} ELSE history[o]]
    /\ Finish(r)
    /\ UNCHANGED <<payments, locked, tasked>>

-----------------------------------------------------------------------------
(* remove *)

Removable(o) ==
    /\ o \in LiveOrders
    /\ orders[o].status \notin {"in_progress", "completed"}
    /\ PaymentsOf(o) = {}
    /\ o \notin tasked

RemoveRead(r, o) == Removable(o) /\ Begin(r, [pc |-> "remove", order |-> o])

\* Payment.order is declared onDelete: Cascade. Mutant: it is not.
NoCascade(o) == {}

Cascade(o) == PaymentsOf(o)

\* Mutant: the delete takes no notice of an open transaction's rows.
NoWait(o) == TRUE

RowsUnlocked(o) == PaymentsOf(o) \cap locked = {}

\* The delete waits for locked payment rows, cascades to the payments and clears the
\* order of its tasks.
RemoveCommit(r) ==
    LET o == oreq[r].order IN
    /\ oreq[r].pc = "remove"
    /\ o \in LiveOrders
    /\ RowsUnlocked(o)
    /\ orders' = [orders EXCEPT ![o].status = "deleted"]
    /\ payments' = [p \in Payments |-> IF p \in Cascade(o)
                        THEN [payments[p] EXCEPT !.status = "deleted"] ELSE payments[p]]
    /\ tasked' = tasked \ {o}
    /\ Finish(r)
    /\ UNCHANGED <<locked, history>>

-----------------------------------------------------------------------------
\* A request fails, of itself or with its process; its transaction leaves no trace.
OrderAbort(r) ==
    /\ oreq[r].pc # "idle"
    /\ Finish(r)
    /\ UNCHANGED <<orders, payments, locked, history, tasked>>

\* TasksService: a task is created for an order, or an order's last task is removed.
TaskLinked(o) ==
    /\ o \in LiveOrders
    /\ tasked' = IF o \in tasked THEN tasked \ {o} ELSE tasked \cup {o}
    /\ UNCHANGED <<orders, payments, locked, oreq, history>>

OrderArrive(r) ==
    \/ \E t \in Totals, who \in Techs \cup {"nobody"} : CreateOrderRead(r, t, who)
    \/ \E o \in Orders, s \in OrderStatus \cup {"keep"}, who \in Techs \cup {"keep"} :
          UpdateRead(r, o, s, who)
    \/ \E S \in (SUBSET Orders) \ {{}}, s \in OrderStatus : BulkStatusRead(r, S, s)
    \/ \E S \in (SUBSET Orders) \ {{}}, who \in Techs : BulkAssignRead(r, S, who)
    \/ \E o \in Orders : RemoveRead(r, o)

OrderCommit(r) ==
    \/ \E o \in Orders : CreateOrderCommit(r, o)
    \/ WriteCommit(r)
    \/ RemoveCommit(r)

OrderStep(r) == OrderArrive(r) \/ OrderCommit(r) \/ OrderAbort(r)

OrderNext == (\E o \in Orders : TaskLinked(o)) \/ \E r \in OrderSlots : OrderStep(r)

OrderStart == OrderInit /\ NoPaymentsYet

OrderSpec == OrderStart /\ [][OrderNext]_ovars

-----------------------------------------------------------------------------
(* Properties *)

\* Requests write statuses they validated against a stale reading, yet none can make up a
\* past: an order that is completed was once started, and a started one once confirmed.
StatusEarned ==
    \A o \in LiveOrders :
        /\ {"pending", orders[o].status} \subseteq history[o]
        /\ "completed" \in history[o] => "in_progress" \in history[o]
        /\ "in_progress" \in history[o] => "confirmed" \in history[o]

\* An order that leaves pending never becomes pending again, and a removed order stays
\* removed, whatever stale request writes last.
Onward ==
    \A o \in Orders :
        /\ orders'[o].status = "pending" => orders[o].status \in {"fresh", "pending"}
        /\ orders[o].status = "deleted" => orders'[o] = orders[o]
        /\ history[o] \subseteq history'[o]
OnlyOnward == [][Onward]_ovars

\* Every change of an order's status is one the status table allows (orders README).
LegalChange ==
    \A o \in LiveOrders :
        orders'[o].status \in Allowed(orders[o].status) \cup {orders[o].status, "deleted"}
OnlyLegalChanges == [][LegalChange]_ovars

\* A completed or cancelled order is not modified any more (orders README).
FinishedUntouched ==
    \A o \in LiveOrders : orders[o].status \in {"completed", "cancelled"} =>
        orders'[o].assignee = orders[o].assignee
FinishedStaysUntouched == [][FinishedUntouched]_ovars
=============================================================================

-------------------------------- MODULE Stock --------------------------------
(***************************************************************************)
(* InventoryService and StockAlertService. A movement starts from the      *)
(* stock it read before its transaction, which adds the movement and       *)
(* writes the new stock; a bulk update runs one such transaction after the *)
(* other, its own transaction holding none of them together. Alerts are    *)
(* looked up and then written. All products track their inventory.         *)
(***************************************************************************)
EXTENDS Requests, Naturals, Sequences

CONSTANTS Products, Variants,  \* what has a stock
          StockMin,            \* the product's column stockMin
          MaxStock             \* bounds the stock that is explored

ASSUME StockAssumption == MaxStock \in Nat

Items   == Products \cup Variants
Amounts == 0..MaxStock
Alerts  == Products \X {"low_stock", "out_of_stock"}

VARIABLES
    stock,      \* stock[i]: stockQuantity
    movements,  \* movements[i]: what the movements of i say, in the order of their commits
    unresolved  \* the rows of alerts that are not resolved, each with the request that made it

ivars == <<stock, movements, unresolved>>

StockSteps == {"idle", "read", "commit", "stocks", "look", "raise", "refresh", "resolve", "done", "lost"}

StockTypeOK ==
    /\ stock \in [Items -> Amounts]
    /\ \A i \in Items : \A k \in DOMAIN movements[i] :
          movements[i][k] \in [previous: Amounts, new: Amounts]
    /\ unresolved \subseteq Requests \X Alerts
    /\ \A r \in Requests : call[r].pc \in StockSteps

StockInit ==
    /\ \E n \in Amounts : stock = [i \in Items |-> n]
    /\ movements = [i \in Items |-> <<>>]
    /\ unresolved = {}

-----------------------------------------------------------------------------
(* createMovement, adjustStock, bulkStockUpdate *)

\* todo: the movements that are left; seen: the stock the first of them starts from.
Move(r, todo) ==
    /\ Begin(r, [pc |-> "read", todo |-> todo, seen |-> 0])
    /\ UNCHANGED ivars

\* The stock after the movement m of an item that has n.
NewQuantity(m, n) ==
    CASE m.type = "in"         -> n + m.quantity
      [] m.type = "out"        -> n - m.quantity
      [] m.type = "adjustment" -> m.quantity

\* Mutant: more than there is goes out.
EnoughAlways(m, n) == TRUE

\* n is enough for the movement m.
Enough(m, n) == m.type = "out" => n >= m.quantity

ReadStock(r) ==
    /\ call[r].pc = "read"
    /\ LET m == Head(call[r].todo)
           n == stock[m.item]
       IN /\ Enough(m, n)
          /\ NewQuantity(m, n) <= MaxStock
          /\ Go(r, "read", [At(r, "commit") EXCEPT !.seen = n])
    /\ UNCHANGED ivars

\* Mutant: a bulk update reads the stock only once, in front of all its movements.
AfterMovementBlind(q) ==
    IF Len(q.todo) = 1 THEN Over ELSE [q EXCEPT !.todo = Tail(@)]

AfterMovement(q) ==
    IF Len(q.todo) = 1 THEN Over ELSE [q EXCEPT !.pc = "read", !.todo = Tail(@), !.seen = 0]

CommitMovement(r) ==
    /\ call[r].pc = "commit"
    /\ Go(r, "commit", AfterMovement(call[r]))
    /\ LET m   == Head(call[r].todo)
           new == NewQuantity(m, call[r].seen)
       IN /\ stock' = [stock EXCEPT ![m.item] = new]
          /\ movements' = [movements EXCEPT ![m.item] =
                              Append(@, [previous |-> call[r].seen, new |-> new])]
    /\ UNCHANGED unresolved

-----------------------------------------------------------------------------
(* createAlert, checkAndCreateAlerts, resolveAlert, bulkResolve *)

\* Mutant: a product at its minimum is not low yet.
NeededAbove == {a \in Alerts :
    IF a[2] = "low_stock" THEN stock[a[1]] \in 1..(StockMin - 1) ELSE stock[a[1]] = 0}

Needed == {a \in Alerts :
    IF a[2] = "low_stock" THEN stock[a[1]] \in 1..StockMin ELSE stock[a[1]] = 0}

\* whole: the alerts are those of a check.
CreateAlert(r, a) ==
    /\ Begin(r, [pc |-> "look", todo |-> {a}, alert |-> <<>>, whole |-> FALSE])
    /\ UNCHANGED ivars

CheckStocks(r) ==
    /\ Begin(r, [pc |-> "stocks", todo |-> {}, alert |-> <<>>, whole |-> TRUE])
    /\ UNCHANGED ivars

\* One query reads all the stocks.
ListAlerts(r) ==
    /\ call[r].pc = "stocks"
    /\ Go(r, "stocks", IF Needed = {} THEN Over ELSE [At(r, "look") EXCEPT !.todo = Needed])
    /\ UNCHANGED ivars

RowsOf(a) == {row \in unresolved : row[2] = a}

LookForAlert(r) ==
    /\ call[r].pc = "look"
    /\ \E a \in call[r].todo :
          Go(r, "look", [At(r, IF RowsOf(a) = {} THEN "raise" ELSE "refresh") EXCEPT !.alert = a])
    /\ UNCHANGED ivars

\* A new row, or new quantities in the row that was found, resolved since or not.
WriteAlert(r) ==
    /\ call[r].pc \in {"raise", "refresh"}
    /\ LET left == call[r].todo \ {call[r].alert}
       IN Go(r, call[r].pc, IF left = {} THEN Over ELSE [At(r, "look") EXCEPT !.todo = left])
    /\ unresolved' = IF call[r].pc = "raise" THEN unresolved \cup {<<r, call[r].alert>>}
                                            ELSE unresolved
    /\ UNCHANGED <<stock, movements>>

\* resolveAlert finds the row, resolved or not, and then writes it.
FindAlert(r, row) ==
    /\ row \in unresolved
    /\ Begin(r, [pc |-> "resolve", row |-> row])
    /\ UNCHANGED ivars

Resolve(r) ==
    /\ call[r].pc = "resolve"
    /\ Go(r, "resolve", Over)
    /\ unresolved' = unresolved \ {call[r].row}
    /\ UNCHANGED <<stock, movements>>

\* bulkResolve is one statement.
BulkResolve(r, rows) ==
    /\ Begin(r, Over)
    /\ unresolved' = unresolved \ rows
    /\ UNCHANGED <<stock, movements>>

MoveValues == [item: Items, type: {"in", "out", "adjustment"}, quantity: Amounts]

\* Bulk updates of two items, or of one twice.
BulkValues == {<<[item |-> i, type |-> "adjustment", quantity |-> n],
                 [item |-> j, type |-> "adjustment", quantity |-> MaxStock]>> :
                    i \in Items, j \in Items, n \in Amounts}

StockStep(r) ==
    \/ \E m \in MoveValues : Move(r, <<m>>)
    \/ \E todo \in BulkValues : Move(r, todo)
    \/ ReadStock(r) \/ CommitMovement(r)
    \/ \E a \in Alerts : CreateAlert(r, a)
    \/ CheckStocks(r) \/ ListAlerts(r)
    \/ \E row \in unresolved : FindAlert(r, row)
    \/ \E rows \in SUBSET unresolved : BulkResolve(r, rows)
    \/ LookForAlert(r) \/ WriteAlert(r) \/ Resolve(r)
    \/ Lose(r) /\ UNCHANGED ivars

StockNext == \E r \in Requests : StockStep(r)

StockSpec == (RequestsInit /\ StockInit) /\ [][StockNext]_<<rvars, ivars>>

-----------------------------------------------------------------------------
(* Properties *)

\* As long as requests come one after the other, also if some are cut off in the middle,
\* each movement of an item starts from the stock the one before it left, and the stock is
\* what the last one left.
StockFollowsMovements ==
    OneByOne => \A i \in Items :
        /\ \A k \in DOMAIN movements[i] :
              k > 1 => movements[i][k].previous = movements[i][k - 1].new
        /\ movements[i] # <<>> => stock[i] = movements[i][Len(movements[i])].new

\* A check of the stocks that nothing overlaps leaves an alert for every product that is out
\* of stock or low, whichever alerts earlier requests raised twice, resolved or left out.
SoloCheckAlerts ==
    [][\A r \in Requests :
          EndsAlone(r) /\ call[r].pc \in {"stocks", "raise", "refresh"} /\ call[r].whole =>
              \A p \in Products :
                  /\ stock[p] = 0 => \E q \in Requests : <<q, <<p, "out_of_stock">>>> \in unresolved'
                  /\ stock[p] \in 1..StockMin =>
                        \E q \in Requests : <<q, <<p, "low_stock">>>> \in unresolved'
      ]_<<rvars, ivars>>

\* A movement starts from the stock that is there (previousQuantity).
MovementsChain ==
    \A i \in Items : \A k \in DOMAIN movements[i] :
        k > 1 => movements[i][k].previous = movements[i][k - 1].new

\* There is one unresolved alert for a product and a reason (createAlert).
OneAlertEach == \A a \in Alerts, v, w \in unresolved : v[2] = a /\ w[2] = a => v = w
=============================================================================

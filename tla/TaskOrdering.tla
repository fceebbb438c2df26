---------------------------- MODULE TaskOrdering ----------------------------
(***************************************************************************)
(* TaskDependencyService.getTaskExecutionOrder: Kahn's algorithm over the  *)
(* dependency rows between the tasks it is asked about, which one query    *)
(* reads in an order the database chooses.                                 *)
(***************************************************************************)
EXTENDS TaskDependencies, SequencesExt

\* The rows the query returns, in any order.
RowsAmong(ids) == {l \in LiveLinks : {links[l].from, links[l].on} \subseteq Range(ids)}

InDegree(t, rows) == Cardinality({k \in DOMAIN rows : links[rows[k]].from = t})

\* A task joins the queue when nothing it needs is left.
Queued(queue, t, left) == IF left = 0 THEN Append(queue, t) ELSE queue

Begun(ids, rows) ==
    [degree |-> [t \in Range(ids) |-> InDegree(t, rows)],
     queue  |-> FoldLeft(LAMBDA queue, t : Queued(queue, t, InDegree(t, rows)), <<>>, ids),
     result |-> <<>>]

CountDown(s, t) ==
    LET left == s.degree[t] - 1
    IN [s EXCEPT !.degree[t] = left, !.queue = Queued(@, t, left)]

\* One pass of the loop: the first task of the queue goes to the result, and the tasks that
\* depend on it are counted down, once per row and in the order of the rows.
Pass(s, rows) ==
    LET t == Head(s.queue) IN
    FoldLeft(LAMBDA p, l : IF links[l].on = t THEN CountDown(p, links[l].from) ELSE p,
             [s EXCEPT !.queue = Tail(@), !.result = Append(@, t)],
             rows)

\* The loop ends with an empty queue. Ids without repetition are queued once each at most,
\* so one pass for each of them is enough.
Ordered(ids, rows) ==
    FoldLeft(LAMBDA s, id : IF s.queue = <<>> THEN s ELSE Pass(s, rows),
             Begun(ids, rows), ids).result

\* Mutant: the lengths are not compared at the end.
CircularUnseen(ids, order) == FALSE

\* The call throws "Circular dependency detected in task list".
Circular(ids, order) == Len(order) # Len(ids)

-----------------------------------------------------------------------------
\* Some order of T puts every task after those it needs.
Orderable(T) == \A S \in (SUBSET T) \ {{}} : \E t \in S : Needs(t) \cap S = {}

\* Whatever racing additions have left in the table, repeated rows and cycles included, and
\* in whatever order the rows are read: the tasks are listed once each and after all they
\* need, or the call reports a cycle, which it does exactly if there is one among them.
\* Every content of the table occurs with no request in flight; it is looked at then.
OrderOrCycle ==
    (\A r \in LinkSlots : lreq[r] = Quiet) =>
        \A ids \in SetToAllKPermutations(Tasks) :
            \A rows \in SetToSeqs(RowsAmong(ids)) :
                LET order == Ordered(ids, rows) IN
                /\ Circular(ids, order) <=> ~Orderable(Range(ids))
                /\ ~Circular(ids, order) =>
                      /\ Range(order) = Range(ids)
                      /\ \A i \in DOMAIN order :
                            Needs(order[i]) \cap Range(ids) \subseteq {order[j] : j \in 1..(i - 1)}
=============================================================================

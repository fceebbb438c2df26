-------------------------- MODULE TaskDependencies --------------------------
(***************************************************************************)
(* TaskDependencyService: adding a dependency between two tasks, with the  *)
(* search for a cycle that precedes it, and removing one.                  *)
(*                                                                         *)
(* The search visits the dependency graph with one query per task, so the  *)
(* graph may change under it; nothing keeps two additions apart.           *)
(*   addDependency   idle -> walk ... walk -> look -> insert -> idle       *)
(* A task that depends on its target makes the request fail, as a row      *)
(* that exists already does.                                               *)
(***************************************************************************)
EXTENDS TaskDb

CONSTANT LinkSlots  \* addDependency requests that may be in flight at once

VARIABLE lreq       \* lreq[r]: where request r is and what it has visited

lvars == <<tasks, links, lreq>>

Quiet == [pc |-> "idle"]

AddReq == [pc: {"walk", "look", "insert"}, from: Tasks, on: Tasks, type: LinkTypes,
           todo: SUBSET Tasks, seen: SUBSET Tasks]

LinkTypeOK ==
    /\ TaskDbTypeOK
    /\ lreq \in [LinkSlots -> {Quiet} \cup AddReq]

-----------------------------------------------------------------------------
AddRead(r, t, u, type) ==
    /\ lreq[r].pc = "idle"
    /\ {t, u} \subseteq LiveTasks
    /\ lreq' = [lreq EXCEPT ![r] = [pc |-> "walk", from |-> t, on |-> u, type |-> type,
                                    todo |-> {u}, seen |-> {}]]
    /\ UNCHANGED <<tasks, links>>

\* Mutant: the set of visited tasks is not kept.
SeenForgotten(q, t) == q.seen

SeenAfter(q, t) == q.seen \cup {t}

\* Mutant: the search follows the rows from a task to those that depend on it.
OnwardBackward(t) == {links[l].from : l \in {m \in LiveLinks : links[m].on = t}}

Onward(t) == Needs(t)

\* checkForCycle at t: the task the search is for ends the request, a visited one is passed
\* over, and of any other one the dependencies are still to be visited.
Visit(r, t) ==
    LET q == lreq[r] IN
    /\ q.pc = "walk"
    /\ t \in q.todo
    /\ lreq' = [lreq EXCEPT ![r] =
           IF t = q.from THEN Quiet
           ELSE IF t \in q.seen THEN [q EXCEPT !.todo = @ \ {t}]
           ELSE [q EXCEPT !.todo = (@ \ {t}) \cup Onward(t), !.seen = SeenAfter(q, t)]]
    /\ UNCHANGED <<tasks, links>>

NoCycleFound(r) ==
    /\ lreq[r].pc = "walk"
    /\ lreq[r].todo = {}
    /\ lreq' = [lreq EXCEPT ![r].pc = "look"]
    /\ UNCHANGED <<tasks, links>>

Exists(q) == q.on \in Needs(q.from)

LookForExisting(r) ==
    /\ lreq[r].pc = "look"
    /\ lreq' = [lreq EXCEPT ![r] =
           IF Exists(lreq[r]) THEN Quiet ELSE [lreq[r] EXCEPT !.pc = "insert"]]
    /\ UNCHANGED <<tasks, links>>

\* The foreign keys make the insert fail if one of the tasks is gone.
Insert(r, l) ==
    LET q == lreq[r] IN
    /\ q.pc = "insert"
    /\ l \in FreshLinks
    /\ {q.from, q.on} \subseteq LiveTasks
    /\ links' = [links EXCEPT ![l] =
           [state |-> "live", from |-> q.from, on |-> q.on, type |-> q.type]]
    /\ lreq' = [lreq EXCEPT ![r] = Quiet]
    /\ UNCHANGED tasks

\* A request fails, by a missing task, an error or the death of its process.
LinkAbort(r) ==
    /\ lreq[r].pc # "idle"
    /\ lreq' = [lreq EXCEPT ![r] = Quiet]
    /\ UNCHANGED <<tasks, links>>

\* removeDependency finds a row and deletes it by its id.
RemoveLink(l) ==
    /\ l \in LiveLinks
    /\ links' = [links EXCEPT ![l].state = "gone"]
    /\ UNCHANGED <<tasks, lreq>>

\* What the next answer of the database makes of a request; no row id being left (a bound
\* of the model) it fails.
LinkProgress(r) ==
    \/ \E t \in Tasks : Visit(r, t)
    \/ NoCycleFound(r)
    \/ LookForExisting(r)
    \/ \E l \in Links : Insert(r, l)
    \/ lreq[r].pc = "insert" /\ FreshLinks = {} /\ LinkAbort(r)

LinkNext ==
    \/ \E r \in LinkSlots :
          \/ \E t, u \in Tasks, type \in LinkTypes : AddRead(r, t, u, type)
          \/ LinkProgress(r)
          \/ LinkAbort(r)
    \/ \E l \in Links : RemoveLink(l)

\* The service alone: the tasks exist, no dependency does.
LinkInit ==
    /\ tasks = [t \in Tasks |-> [NoTask EXCEPT !.status = "pending"]]
    /\ links = [l \in Links |-> NoLink]
    /\ lreq = [r \in LinkSlots |-> Quiet]

LinkSpec == LinkInit /\ [][LinkNext]_lvars

\* A query that was sent is answered.
LinkFairSpec == LinkSpec /\ \A r \in LinkSlots : WF_lvars(LinkProgress(r))

-----------------------------------------------------------------------------
(* Properties; Acyclic is one of them. *)

\* There is at most one dependency row between two tasks (addDependency's second check).
SingleLinks ==
    \A l, m \in LiveLinks :
        links[l].from = links[m].from /\ links[l].on = links[m].on => l = m

\* The search ends even in a graph that racing additions made cyclic and that changes
\* while it is searched: the tasks it has visited are finitely many.
SearchesEnd == \A r \in LinkSlots : (lreq[r].pc = "walk") ~> (lreq[r].pc # "walk")

-----------------------------------------------------------------------------
(* Why one addition at a time keeps the graph acyclic: a search that has not failed has   *)
(* visited tasks whose dependencies are visited or still to be visited, never the task it *)
(* is for; once nothing is left to visit, the visited tasks are closed and hold the new   *)
(* dependency. Removing rows cannot spoil it.                                              *)

SearchSound(q) ==
    /\ q \in AddReq
    /\ q.on \in q.seen \cup q.todo
    /\ q.from \notin q.seen
    /\ \A t \in q.seen : Needs(t) \subseteq q.seen \cup q.todo
    /\ q.pc # "walk" => q.todo = {}
    /\ q.pc = "insert" => ~Exists(q)

\* The inductive invariant while additions are made one at a time: the rows are well formed,
\* a search in flight is sound, and what the service promises holds (addDependency 28-44).
LinkInv ==
    /\ links \in [Links -> LinkRow \cup {NoLink}]
    /\ lreq \in [LinkSlots -> {Quiet} \cup AddReq]
    /\ \A r \in LinkSlots : lreq[r] = Quiet \/ SearchSound(lreq[r])
    /\ Acyclic
    /\ SingleLinks
=============================================================================

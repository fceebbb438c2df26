------------------------------ MODULE TaskProofs ------------------------------
(***************************************************************************)
(* Proofs about the services over the tasks' tables, for any tasks, items  *)
(* and dependency rows. TaskDependencyService: additions made one at a     *)
(* time keep the dependencies acyclic and unique (LinkInv), and whatever   *)
(* additions leave, the order of execution is right or the cycle is        *)
(* reported (LoopInv, of the loop that computes it). TasksService and      *)
(* TaskChecklistService: racing requests leave no row without its task and *)
(* close no cycle, and what each handler keeps when no other request comes *)
(* between its queries.                                                    *)
(***************************************************************************)
EXTENDS TaskWork, TaskOrdering, FiniteSetTheorems, SequenceTheorems, NaturalsInduction,
        WellFoundedInduction, TLAPS

\* What an insert leaves of the direct dependencies of each task: one more for its task.
LEMMA NeedsAfterInsert ==
    ASSUME NEW l \in Links, links[l].state # "live", links \in [Links -> LinkRow \cup {NoLink}],
           NEW a \in Tasks, NEW b \in Tasks, NEW type,
           links' = [links EXCEPT ![l] =
               [state |-> "live", from |-> a, on |-> b, type |-> type]]
    PROVE  \A t \in Tasks : Needs(t)' = IF t = a THEN Needs(t) \cup {b} ELSE Needs(t)
<1> TAKE t \in Tasks
<1> DEFINE row == [state |-> "live", from |-> a, on |-> b, type |-> type]
<1>1. links'[l] = row /\ row.state = "live" /\ row.from = a /\ row.on = b
  OBVIOUS
<1>2. \A m \in Links : m # l => links'[m] = links[m]
  OBVIOUS
<1>3. LinksFrom(t)' = IF t = a THEN LinksFrom(t) \cup {l} ELSE LinksFrom(t)
  BY <1>1, <1>2 DEF LinksFrom, LiveLinks
<1>4. l \notin LinksFrom(t) /\ LinksFrom(t) \subseteq Links
  BY DEF LinksFrom, LiveLinks
<1>5. \A m \in LinksFrom(t) : links'[m].on = links[m].on
  BY <1>2, <1>4
<1> QED BY <1>1, <1>3, <1>5 DEF Needs

\* What a removal leaves of them: none that was not there.
LEMMA NeedsAfterRemove ==
    ASSUME NEW l \in LiveLinks, links \in [Links -> LinkRow \cup {NoLink}],
           links' = [links EXCEPT ![l].state = "gone"]
    PROVE  /\ links' \in [Links -> LinkRow \cup {NoLink}]
           /\ LiveLinks' \subseteq LiveLinks
           /\ \A m \in LiveLinks' : links'[m] = links[m]
           /\ \A t \in Tasks : Needs(t)' \subseteq Needs(t)
<1>1. l \in Links /\ links[l] \in LinkRow
  BY DEF LiveLinks, NoLink
<1>2. links'[l] = [state |-> "gone", from |-> links[l].from, on |-> links[l].on,
                   type |-> links[l].type]
  BY <1>1 DEF LinkRow
<1>3. \A m \in Links : m # l => links'[m] = links[m]
  BY <1>1
<1>4. links'[l] \in LinkRow
  BY <1>1, <1>2 DEF LinkRow
<1>5. links' \in [Links -> LinkRow \cup {NoLink}]
  BY <1>1, <1>4
<1>6. LiveLinks' \subseteq LiveLinks /\ \A m \in LiveLinks' : links'[m] = links[m]
  BY <1>2, <1>3 DEF LiveLinks
<1>7. \A t \in Tasks : Needs(t)' \subseteq Needs(t)
  BY <1>6 DEF Needs, LinksFrom
<1> QED BY <1>5, <1>6, <1>7

\* The dependencies of a task are tasks.
LEMMA NeedsAreTasks ==
    ASSUME links \in [Links -> LinkRow \cup {NoLink}]
    PROVE  \A t \in Tasks : Needs(t) \subseteq Tasks
BY DEF Needs, LinksFrom, LiveLinks, LinkRow, NoLink

\* A dependency from a task outside a closed set to a task in it closes no cycle.
LEMMA ClosedSetMakesNoCycle ==
    ASSUME Acyclic, NEW seen \in SUBSET Tasks, NEW a \in Tasks, NEW b \in seen, a \notin seen,
           \A t \in seen : Needs(t) \subseteq seen,
           \A t \in Tasks : Needs(t)' = IF t = a THEN Needs(t) \cup {b} ELSE Needs(t)
    PROVE  Acyclic'
<1> SUFFICES ASSUME NEW S \in (SUBSET Tasks) \ {{}}
             PROVE  \E t \in S : Needs(t)' \cap S = {}
  BY DEF Acyclic
<1>1. CASE S \cap seen # {}
  <2>1. PICK t \in S \cap seen : Needs(t) \cap (S \cap seen) = {}
    BY <1>1 DEF Acyclic
  <2>2. Needs(t)' = Needs(t) /\ Needs(t) \subseteq seen
    BY <2>1
  <2> QED BY <2>1, <2>2
<1>2. CASE S \cap seen = {}
  <2>1. PICK t \in S : Needs(t) \cap S = {}
    BY DEF Acyclic
  <2>2. Needs(t)' \subseteq Needs(t) \cup {b} /\ b \notin S
    BY <1>2
  <2> QED BY <2>1, <2>2
<1> QED BY <1>1, <1>2

-----------------------------------------------------------------------------
\* The steps of a request keep the invariant, one lemma per handler's step.

\* A request's own steps leave the rows alone: what remains to see is its record.
LEMMA RequestStepKeeps ==
    ASSUME LinkInv, NEW r \in LinkSlots, NEW q, UNCHANGED <<tasks, links>>,
           lreq' = [lreq EXCEPT ![r] = q], q = Quiet \/ SearchSound(q)
    PROVE  LinkInv'
<1>1. Acyclic' /\ SingleLinks' /\ links' \in [Links -> LinkRow \cup {NoLink}]
  BY DEF LinkInv, Acyclic, SingleLinks, Needs, LinksFrom, LiveLinks
<1>2. \A p : SearchSound(p)' <=> SearchSound(p)
  BY DEF SearchSound, Exists, Needs, LinksFrom, LiveLinks
<1>3. q \in {Quiet} \cup AddReq
  BY DEF SearchSound
<1>4. lreq' \in [LinkSlots -> {Quiet} \cup AddReq]
  BY <1>3 DEF LinkInv
<1>5. \A s \in LinkSlots : lreq'[s] = Quiet \/ SearchSound(lreq'[s])
  BY DEF LinkInv
<1> QED BY <1>1, <1>2, <1>4, <1>5 DEF LinkInv

\* A new request has visited nothing and is to visit its target.
LEMMA AddReadKeeps ==
    ASSUME LinkInv, NEW r \in LinkSlots, NEW t \in Tasks, NEW u \in Tasks,
           NEW type \in LinkTypes, AddRead(r, t, u, type)
    PROVE  LinkInv'
<1> DEFINE q == [pc |-> "walk", from |-> t, on |-> u, type |-> type, todo |-> {u}, seen |-> {}]
<1>1. SearchSound(q)
  BY DEF SearchSound, AddReq
<1> QED BY <1>1, RequestStepKeeps DEF AddRead

\* A visit adds a task to the visited ones together with its dependencies to visit.
LEMMA VisitKeeps ==
    ASSUME LinkInv, NEW r \in LinkSlots, NEW t \in Tasks, Visit(r, t)
    PROVE  LinkInv'
<1> DEFINE q == lreq[r]
<1>1. q \in AddReq /\ SearchSound(q) /\ q.pc = "walk" /\ t \in q.todo
  BY DEF LinkInv, Visit, Quiet
<1>2. Needs(t) \subseteq Tasks
  BY NeedsAreTasks DEF LinkInv
<1>3. CASE t = q.from
  BY <1>3, RequestStepKeeps DEF Visit
<1>4. CASE t # q.from /\ t \in q.seen
  <2> DEFINE p == [q EXCEPT !.todo = @ \ {t}]
  <2>1. p = [pc |-> "walk", from |-> q.from, on |-> q.on, type |-> q.type,
             todo |-> q.todo \ {t}, seen |-> q.seen]
    BY <1>1 DEF AddReq
  <2>2. SearchSound(p)
    BY <1>1, <1>4, <2>1 DEF SearchSound, AddReq
  <2>3. lreq' = [lreq EXCEPT ![r] = p] /\ UNCHANGED <<tasks, links>>
    BY <1>4 DEF Visit
  <2> QED BY <2>2, <2>3, RequestStepKeeps
<1>5. CASE t # q.from /\ t \notin q.seen
  <2> DEFINE p == [q EXCEPT !.todo = (@ \ {t}) \cup Onward(t), !.seen = SeenAfter(q, t)]
  <2>1. p = [pc |-> "walk", from |-> q.from, on |-> q.on, type |-> q.type,
             todo |-> (q.todo \ {t}) \cup Needs(t), seen |-> q.seen \cup {t}]
    <3>1. \A x \in {"todo", "seen"} : x \in DOMAIN q
      BY <1>1 DEF AddReq
    <3>2. p = [x \in DOMAIN q |-> IF x = "seen" THEN q.seen \cup {t}
                                 ELSE IF x = "todo" THEN (q.todo \ {t}) \cup Needs(t)
                                 ELSE q[x]]
      BY Zenon DEF Onward, SeenAfter
    <3>3. DOMAIN q = {"pc", "from", "on", "type", "todo", "seen"} /\ q.pc = "walk"
      BY <1>1 DEF AddReq
    <3> HIDE DEF p, q
    <3> QED BY <3>2, <3>3
  <2>2. SearchSound(p)
    <3>1. /\ q.from \in Tasks /\ q.on \in Tasks /\ q.type \in LinkTypes
          /\ q.todo \in SUBSET Tasks /\ q.seen \in SUBSET Tasks
      BY <1>1 DEF AddReq
    <3>2. /\ p.pc = "walk" /\ p.from = q.from /\ p.on = q.on
          /\ p.todo = (q.todo \ {t}) \cup Needs(t) /\ p.seen = q.seen \cup {t}
      BY <2>1
    <3>3. p \in AddReq
      <4> HIDE DEF p, q
      <4>1. (q.todo \ {t}) \cup Needs(t) \in SUBSET Tasks /\ q.seen \cup {t} \in SUBSET Tasks
        BY <1>2, <3>1
      <4> QED BY <2>1, <3>1, <4>1 DEF AddReq
    <3>4. \A x \in q.seen : Needs(x) \subseteq q.seen \cup q.todo
      BY <1>1 DEF SearchSound
    <3>5. q.on \in q.seen \cup q.todo /\ q.from \notin q.seen
      BY <1>1 DEF SearchSound
    <3> HIDE DEF p, q
    <3> QED BY <1>5, <3>2, <3>3, <3>4, <3>5 DEF SearchSound
  <2>3. lreq' = [lreq EXCEPT ![r] = p] /\ UNCHANGED <<tasks, links>>
    BY <1>5 DEF Visit
  <2> QED BY <2>2, <2>3, RequestStepKeeps
<1> QED BY <1>3, <1>4, <1>5

\* Nothing is left to visit when the search has found no cycle.
LEMMA NoCycleFoundKeeps ==
    ASSUME LinkInv, NEW r \in LinkSlots, NoCycleFound(r)
    PROVE  LinkInv'
<1> DEFINE q == lreq[r]
           p == [q EXCEPT !.pc = "look"]
<1>1. q \in AddReq /\ SearchSound(q) /\ q.todo = {}
  BY DEF LinkInv, NoCycleFound, Quiet
<1>2. p = [pc |-> "look", from |-> q.from, on |-> q.on, type |-> q.type,
           todo |-> q.todo, seen |-> q.seen]
  BY <1>1 DEF AddReq
<1>3. SearchSound(p)
  BY <1>1, <1>2 DEF SearchSound, AddReq
<1>4. lreq' = [lreq EXCEPT ![r] = p] /\ UNCHANGED <<tasks, links>>
  BY DEF NoCycleFound
<1> QED BY <1>3, <1>4, RequestStepKeeps

\* A request goes on to its insert when it has seen no row like the one it makes.
LEMMA LookForExistingKeeps ==
    ASSUME LinkInv, NEW r \in LinkSlots, LookForExisting(r)
    PROVE  LinkInv'
<1> DEFINE q == lreq[r]
           p == [q EXCEPT !.pc = "insert"]
<1>1. q \in AddReq /\ SearchSound(q) /\ q.todo = {}
  BY DEF LinkInv, LookForExisting, Quiet, SearchSound
<1>2. p = [pc |-> "insert", from |-> q.from, on |-> q.on, type |-> q.type,
           todo |-> q.todo, seen |-> q.seen]
  BY <1>1 DEF AddReq
<1>3. CASE Exists(q)
  BY <1>3, RequestStepKeeps DEF LookForExisting
<1>4. CASE ~Exists(q)
  <2>1. SearchSound(p)
    BY <1>1, <1>2, <1>4 DEF SearchSound, AddReq, Exists
  <2>2. lreq' = [lreq EXCEPT ![r] = p] /\ UNCHANGED <<tasks, links>>
    BY <1>4 DEF LookForExisting
  <2> QED BY <2>1, <2>2, RequestStepKeeps
<1> QED BY <1>3, <1>4

\* The insert of the only request in flight: its visited tasks are closed and hold the target.
LEMMA InsertKeeps ==
    ASSUME LinkInv, \A r, s \in LinkSlots : r = s,
           NEW r \in LinkSlots, NEW l \in Links, Insert(r, l)
    PROVE  LinkInv'
<1> DEFINE q == lreq[r]
           row == [state |-> "live", from |-> q.from, on |-> q.on, type |-> q.type]
<1>1. q \in AddReq /\ SearchSound(q) /\ q.pc = "insert" /\ q.todo = {}
  BY DEF LinkInv, Insert, Quiet, SearchSound
<1>2. q.from \in Tasks /\ q.on \in Tasks /\ q.type \in LinkTypes /\ q.seen \in SUBSET Tasks
  BY <1>1 DEF AddReq
<1>3. links[l].state # "live" /\ links \in [Links -> LinkRow \cup {NoLink}]
  BY DEF Insert, FreshLinks, LinkInv
<1>4. links' = [links EXCEPT ![l] = row]
  BY DEF Insert
<1>5. links' \in [Links -> LinkRow \cup {NoLink}]
  BY <1>2, <1>3, <1>4 DEF LinkRow
<1>6. \A t \in Tasks : Needs(t)' = IF t = q.from THEN Needs(t) \cup {q.on} ELSE Needs(t)
  BY <1>2, <1>3, <1>4, NeedsAfterInsert
<1>7. Acyclic'
  <2>1. q.on \in q.seen /\ q.from \notin q.seen /\ \A t \in q.seen : Needs(t) \subseteq q.seen
    BY <1>1 DEF SearchSound
  <2>2. Acyclic
    BY DEF LinkInv
  <2> HIDE DEF q
  <2> QED BY <1>2, <1>6, <2>1, <2>2, ClosedSetMakesNoCycle
<1>8. SingleLinks'
  <2>1. q.on \notin Needs(q.from)
    BY <1>1 DEF SearchSound, Exists
  <2>2. \A m \in LiveLinks : links[m].from # q.from \/ links[m].on # q.on
    BY <2>1 DEF Needs, LinksFrom
  <2>3. LiveLinks' \subseteq LiveLinks \cup {l}
    BY <1>3, <1>4 DEF LiveLinks
  <2>4. links'[l] = row /\ row.from = q.from /\ row.on = q.on
    BY <1>3, <1>4
  <2>5. \A m \in LiveLinks : m # l => links'[m] = links[m]
    BY <1>3, <1>4 DEF LiveLinks
  <2>6. SingleLinks
    BY DEF LinkInv
  <2> HIDE DEF row, q
  <2> QED BY <2>2, <2>3, <2>4, <2>5, <2>6 DEF SingleLinks
<1>9. lreq' \in [LinkSlots -> {Quiet} \cup AddReq] /\ \A s \in LinkSlots : lreq'[s] = Quiet
  BY DEF Insert, LinkInv
<1> QED BY <1>5, <1>7, <1>8, <1>9 DEF LinkInv

\* A removal takes rows away from under a search, which stays sound.
LEMMA RemoveLinkKeeps ==
    ASSUME LinkInv, NEW l \in LiveLinks, RemoveLink(l)
    PROVE  LinkInv'
<1>1. /\ links' \in [Links -> LinkRow \cup {NoLink}]
      /\ LiveLinks' \subseteq LiveLinks
      /\ \A m \in LiveLinks' : links'[m] = links[m]
      /\ \A t \in Tasks : Needs(t)' \subseteq Needs(t)
  BY NeedsAfterRemove DEF RemoveLink, LinkInv
<1>2. Acyclic'
  BY <1>1 DEF LinkInv, Acyclic
<1>3. SingleLinks'
  BY <1>1 DEF LinkInv, SingleLinks
<1>4. ASSUME NEW q \in AddReq, SearchSound(q) PROVE SearchSound(q)'
  <2>1. q.from \in Tasks /\ q.seen \subseteq Tasks
    BY DEF AddReq
  <2>2. \A t \in q.seen : Needs(t)' \subseteq q.seen \cup q.todo
    BY <1>1, <1>4, <2>1 DEF SearchSound
  <2>3. q.pc = "insert" => ~Exists(q)'
    BY <1>1, <1>4, <2>1 DEF SearchSound, Exists
  <2> QED BY <1>4, <2>2, <2>3 DEF SearchSound
<1>5. lreq' = lreq
  BY DEF RemoveLink
<1>6. (\A r \in LinkSlots : lreq[r] = Quiet \/ SearchSound(lreq[r]))'
  <2> SUFFICES ASSUME NEW r \in LinkSlots, lreq[r] # Quiet PROVE SearchSound(lreq[r])'
    BY <1>5
  <2>1. lreq[r] \in AddReq /\ SearchSound(lreq[r])
    BY DEF LinkInv
  <2> DEFINE q == lreq[r]
  <2>2. SearchSound(q)' <=> (SearchSound(lreq[r]))'
    OBVIOUS
  <2> QED BY <1>4, <1>5, <2>1 DEF SearchSound, Exists
<1> QED BY <1>1, <1>2, <1>3, <1>5, <1>6 DEF LinkInv

-----------------------------------------------------------------------------
\* Every step of the service keeps the invariant if one request is in flight at most.
LEMMA LinkStepKeeps ==
    ASSUME LinkInv, \A r, s \in LinkSlots : r = s, LinkNext
    PROVE  LinkInv'
<1>1. ASSUME NEW r \in LinkSlots, LinkAbort(r) PROVE LinkInv'
  BY <1>1, RequestStepKeeps DEF LinkAbort
<1>2. ASSUME NEW r \in LinkSlots, NEW t \in Tasks, NEW u \in Tasks, NEW type \in LinkTypes,
             AddRead(r, t, u, type)
      PROVE  LinkInv'
  BY <1>2, AddReadKeeps
<1>3. ASSUME NEW r \in LinkSlots, LinkProgress(r) PROVE LinkInv'
  BY <1>1, <1>3, VisitKeeps, NoCycleFoundKeeps, LookForExistingKeeps, InsertKeeps
     DEF LinkProgress
<1>4. ASSUME NEW l \in Links, RemoveLink(l) PROVE LinkInv'
  BY <1>4, RemoveLinkKeeps DEF RemoveLink
<1> QED BY <1>1, <1>2, <1>3, <1>4 DEF LinkNext

\* While additions are made one at a time, the rows and requests are well formed and a search
\* in flight is sound: it has visited nothing but tasks whose dependencies it has visited or
\* is to visit, and not the task it is for.
THEOREM SearchesAreSound ==
    ASSUME \A r, s \in LinkSlots : r = s
    PROVE  LinkSpec => []LinkInv
<1>1. ASSUME LinkInit PROVE LinkInv
  <2>1. LiveLinks = {} /\ links \in [Links -> LinkRow \cup {NoLink}]
    BY <1>1 DEF LinkInit, LiveLinks, NoLink
  <2>2. \A t \in Tasks : Needs(t) = {}
    BY <2>1 DEF Needs, LinksFrom
  <2>3. Acyclic /\ SingleLinks
    <3>1. ASSUME NEW S \in (SUBSET Tasks) \ {{}} PROVE \E t \in S : Needs(t) \cap S = {}
      <4>1. PICK t \in S : TRUE
        OBVIOUS
      <4> QED BY <2>2, <4>1
    <3> QED BY <2>1, <3>1 DEF Acyclic, SingleLinks
  <2>4. \A r \in LinkSlots : lreq[r] = Quiet
    BY <1>1 DEF LinkInit
  <2>5. lreq \in [LinkSlots -> {Quiet} \cup AddReq]
    BY <1>1 DEF LinkInit
  <2> QED BY <2>1, <2>3, <2>4, <2>5 DEF LinkInv
<1>2. LinkInv /\ [LinkNext]_lvars => LinkInv'
  <2> SUFFICES ASSUME LinkInv, [LinkNext]_lvars PROVE LinkInv'
    OBVIOUS
  <2>1. CASE LinkNext
    BY <2>1, LinkStepKeeps
  <2>2. CASE UNCHANGED lvars
    <3>1. \A p : SearchSound(p)' <=> SearchSound(p)
      BY <2>2 DEF lvars, SearchSound, Exists, Needs, LinksFrom, LiveLinks
    <3>2. Acyclic' /\ SingleLinks'
      BY <2>2 DEF lvars, LinkInv, Acyclic, SingleLinks, Needs, LinksFrom, LiveLinks
    <3> QED BY <2>2, <3>1, <3>2 DEF lvars, LinkInv
  <2> QED BY <2>1, <2>2
<1> QED BY <1>1, <1>2, PTL DEF LinkSpec

\* Additions made one at a time never close a cycle of dependencies and never repeat one:
\* the two refusals of addDependency do what their messages say.
THEOREM OneAdditionAtATime ==
    ASSUME \A r, s \in LinkSlots : r = s
    PROVE  LinkSpec => [](Acyclic /\ SingleLinks)
<1>1. LinkInv => Acyclic /\ SingleLinks
  BY DEF LinkInv
<1> QED BY <1>1, SearchesAreSound, PTL

-----------------------------------------------------------------------------
(* Induction over numbers, and functions defined by recursion over finite sets *)

\* Among any natural numbers, one is below all others: induction over numbers.
LEMMA LeastNumber ==
    \A W \in SUBSET Nat : W # {} => \E m \in W : \A j \in W : m <= j
<1> SUFFICES ASSUME NEW W \in SUBSET Nat, W # {} PROVE \E m \in W : \A j \in W : m <= j
  OBVIOUS
<1>1. PICK m \in W : \A j \in W : <<j, m>> \notin OpToRel(<, Nat)
  BY NatLessThanWellFounded, WFMin
<1>2. \A j \in W : ~(j < m)
  BY <1>1 DEF OpToRel
<1> QED BY <1>2

\* The last place of a set of places, and of the first k.
LEMMA LastPlace ==
    /\ \A n \in Nat : \A s \in (SUBSET (1..n)) \ {{}} : Max(s) \in s
    /\ \A k \in Nat \ {0} : Max(1..k) = k /\ (1..k) \ {k} = 1..(k - 1)
    /\ \A n \in Nat : \A k \in 1..n : 1..k \in SUBSET (1..n) /\ 1..k # {}
<1>1. ASSUME NEW n \in Nat, NEW s \in (SUBSET (1..n)) \ {{}} PROVE Max(s) \in s
  <2> DEFINE W == {m \in Nat : \A y \in s : y <= m}
  <2>1. n \in W
    OBVIOUS
  <2>2. PICK m \in W : \A j \in W : m <= j
    <3> HIDE DEF W
    <3>1. W \in SUBSET Nat
      BY DEF W
    <3> QED BY <2>1, <3>1, LeastNumber
  <2>3. m \in s
    <3>1. SUFFICES ASSUME m \notin s PROVE FALSE
      OBVIOUS
    <3>2. m # 0
      OBVIOUS
    <3>3. m - 1 \in W
      BY <3>1, <3>2
    <3> QED BY <2>2, <3>3
  <2>4. \A y \in s : m >= y
    OBVIOUS
  <2> QED BY <2>3, <2>4 DEF Max
<1>2. ASSUME NEW k \in Nat \ {0} PROVE Max(1..k) = k /\ (1..k) \ {k} = 1..(k - 1)
  BY DEF Max
<1>3. ASSUME NEW n \in Nat, NEW k \in 1..n PROVE 1..k \in SUBSET (1..n) /\ 1..k # {}
  <2>1. k \in 1..k /\ \A x \in 1..k : x \in 1..n
    OBVIOUS
  <2> QED BY <2>1
<1> QED BY <1>1, <1>2, <1>3

\* f goes through the subsets of U, from what it is on a set with one element less.
GoesThrough(f, U, V, base, last, step) ==
    /\ f \in [SUBSET U -> V]
    /\ \A s \in SUBSET U : f[s] = IF s = {} THEN base ELSE step[<<f[s \ {last[s]}], last[s]>>]

\* Such a function exists if the set is finite.
LEMMA RecursionExists ==
    ASSUME NEW U, IsFiniteSet(U), NEW V, NEW base \in V, NEW last,
           \A s \in (SUBSET U) \ {{}} : last[s] \in s,
           NEW step \in [V \X U -> V]
    PROVE  \E f : GoesThrough(f, U, V, base, last, step)
<1> DEFINE After(f, s) == IF s = {} THEN base ELSE step[<<f[s \ {last[s]}], last[s]>>]
           Has(n) == \E f \in [SUBSET U -> V] :
                        \A s \in SUBSET U : Cardinality(s) <= n => f[s] = After(f, s)
           Bad == {n \in Nat : ~Has(n)}
<1>1. \A s \in SUBSET U : IsFiniteSet(s) /\ Cardinality(s) \in Nat
  BY FS_Subset, FS_CardinalityType
<1>2. ASSUME NEW f \in [SUBSET U -> V], NEW s \in SUBSET U PROVE After(f, s) \in V
  OBVIOUS
<1>3. Has(0)
  <2>1. [s \in SUBSET U |-> base] \in [SUBSET U -> V]
    OBVIOUS
  <2>2. ASSUME NEW s \in SUBSET U, Cardinality(s) <= 0 PROVE s = {}
    <3>1. Cardinality(s) = 0
      BY <1>1, <2>2
    <3> QED BY <1>1, <3>1, FS_EmptySet
  <2> QED BY <2>1, <2>2
<1>4. ASSUME NEW n \in Nat, Has(n) PROVE Has(n + 1)
  <2>1. PICK f \in [SUBSET U -> V] :
           \A s \in SUBSET U : Cardinality(s) <= n => f[s] = After(f, s)
    BY <1>4
  <2> DEFINE g == [s \in SUBSET U |-> After(f, s)]
  <2>2. g \in [SUBSET U -> V]
    BY <1>2
  <2>3. ASSUME NEW s \in SUBSET U, Cardinality(s) <= n + 1 PROVE g[s] = After(g, s)
    <3>1. CASE s = {}
      BY <3>1
    <3>2. CASE s # {}
      <4> DEFINE t == s \ {last[s]}
      <4>1. t \in SUBSET U /\ last[s] \in s
        BY <3>2
      <4>2. Cardinality(t) = Cardinality(s) - 1
        BY <1>1, <4>1, FS_RemoveElement
      <4>3. Cardinality(t) <= n
        BY <1>1, <2>3, <4>1, <4>2
      <4>4. f[t] = g[t]
        <5> HIDE DEF t, After
        <5> QED BY <2>1, <4>1, <4>3
      <4>5. g[s] = step[<<f[t], last[s]>>] /\ After(g, s) = step[<<g[t], last[s]>>]
        BY <3>2
      <4> QED BY <4>4, <4>5
    <3> QED BY <3>1, <3>2
  <2> HIDE DEF g, After
  <2> QED BY <2>2, <2>3
<1>5. Bad = {}
  <2>1. SUFFICES ASSUME Bad # {} PROVE FALSE
    OBVIOUS
  <2>2. PICK n \in Bad : \A j \in Bad : n <= j
    <3> HIDE DEF Has
    <3>1. Bad \in SUBSET Nat
      OBVIOUS
    <3> HIDE DEF Bad
    <3> QED BY <2>1, <3>1, LeastNumber
  <2> HIDE DEF Has
  <2>3. n \in Nat /\ n # 0
    BY <1>3
  <2>4. n - 1 \in Nat /\ n - 1 \notin Bad
    BY <2>2, <2>3
  <2>5. Has((n - 1) + 1)
    BY <1>4, <2>4
  <2>6. (n - 1) + 1 = n
    BY <2>3
  <2> QED BY <2>5, <2>6
<1>6. Cardinality(U) \in Nat
  BY FS_CardinalityType
<1>7. Has(Cardinality(U))
  <2> HIDE DEF Has
  <2> QED BY <1>5, <1>6
<1>8. \A s \in SUBSET U : Cardinality(s) <= Cardinality(U)
  BY FS_Subset
<1> QED BY <1>7, <1>8 DEF GoesThrough

\* The same with the last of the first places of a sequence: what FoldLeft goes through.
FoldsPlaces(f, n, V, base, step) ==
    /\ f \in [SUBSET (1..n) -> V]
    /\ \A s \in SUBSET (1..n) :
          f[s] = IF s = {} THEN base ELSE step[<<f[s \ {Max(s)}], Max(s)>>]

\* Such a function exists for every step.
LEMMA FoldExists ==
    ASSUME NEW n \in Nat, NEW V, NEW base \in V, NEW step \in [V \X (1..n) -> V]
    PROVE  \E f : FoldsPlaces(f, n, V, base, step)
<1> DEFINE U == 1..n
           last == [s \in SUBSET U |-> Max(s)]
<1>1. IsFiniteSet(U)
  BY FS_Interval
<1>2. \A s \in (SUBSET U) \ {{}} : last[s] \in s
  BY LastPlace
<1>3. step \in [V \X U -> V]
  OBVIOUS
<1>4. \A s \in SUBSET U : last[s] = Max(s)
  OBVIOUS
<1> HIDE DEF U, last
<1>5. \E f : GoesThrough(f, U, V, base, last, step)
  BY <1>1, <1>2, <1>3, RecursionExists
<1>6. \E f \in [SUBSET U -> V] :
         \A s \in SUBSET U : f[s] = IF s = {} THEN base ELSE step[<<f[s \ {Max(s)}], Max(s)>>]
  BY <1>4, <1>5 DEF GoesThrough
<1> QED BY <1>6 DEF U, FoldsPlaces

-----------------------------------------------------------------------------
(* Sequences of tasks that are listed once each *)

Once(q) == \A i, j \in DOMAIN q : i # j => q[i] # q[j]

\* What a sequence is with an element at its end.
LEMMA AppendFacts ==
    ASSUME NEW T, NEW q \in Seq(T), NEW x \in T
    PROVE  /\ Append(q, x) \in Seq(T) /\ Len(Append(q, x)) = Len(q) + 1
           /\ DOMAIN Append(q, x) = 1..(Len(q) + 1)
           /\ \A i \in 1..Len(q) : Append(q, x)[i] = q[i]
           /\ Append(q, x)[Len(q) + 1] = x
           /\ Range(Append(q, x)) = Range(q) \cup {x}
           /\ Once(q) /\ x \notin Range(q) => Once(Append(q, x))
<1>1. /\ Append(q, x) \in Seq(T) /\ Len(Append(q, x)) = Len(q) + 1
      /\ \A i \in 1..Len(q) : Append(q, x)[i] = q[i]
      /\ Append(q, x)[Len(q) + 1] = x
  BY AppendProperties
<1>2. Len(q) \in Nat /\ DOMAIN q = 1..Len(q) /\ DOMAIN Append(q, x) = 1..(Len(q) + 1)
  BY <1>1, LenProperties
<1>3. Range(Append(q, x)) = Range(q) \cup {x}
  <2>1. \A i \in 1..(Len(q) + 1) : i \in 1..Len(q) \/ i = Len(q) + 1
    BY <1>2
  <2>2. \A i \in 1..Len(q) : i \in 1..(Len(q) + 1)
    BY <1>2
  <2>3. Len(q) + 1 \in 1..(Len(q) + 1)
    BY <1>2
  <2> QED BY <1>1, <1>2, <2>1, <2>2, <2>3 DEF Range
<1>4. ASSUME Once(q), x \notin Range(q) PROVE Once(Append(q, x))
  <2>1. \A i \in 1..(Len(q) + 1) : i \in 1..Len(q) \/ i = Len(q) + 1
    BY <1>2
  <2>2. \A i \in 1..Len(q) : q[i] # x
    BY <1>2, <1>4 DEF Range
  <2> QED BY <1>1, <1>2, <1>4, <2>1, <2>2 DEF Once
<1> QED BY <1>1, <1>2, <1>3, <1>4

\* What a sequence is without its first element.
LEMMA TailFacts ==
    ASSUME NEW T, NEW q \in Seq(T), q # <<>>
    PROVE  /\ Head(q) \in T /\ Tail(q) \in Seq(T)
           /\ Range(q) = Range(Tail(q)) \cup {Head(q)}
           /\ Once(q) => Head(q) \notin Range(Tail(q)) /\ Once(Tail(q))
<1>1. Len(q) \in Nat \ {0} /\ DOMAIN q = 1..Len(q)
  BY EmptySeq, LenProperties
<1>2. /\ Head(q) \in T /\ Tail(q) \in Seq(T) /\ Head(q) = q[1]
      /\ Len(Tail(q)) = Len(q) - 1
      /\ \A i \in 1..(Len(q) - 1) : Tail(q)[i] = q[i + 1]
  BY <1>1, HeadTailProperties
<1>3. DOMAIN Tail(q) = 1..(Len(q) - 1)
  BY <1>2, LenProperties
<1>4. /\ \A i \in 1..Len(q) : i = 1 \/ (i - 1 \in 1..(Len(q) - 1) /\ (i - 1) + 1 = i)
      /\ \A i \in 1..(Len(q) - 1) : i + 1 \in 1..Len(q) /\ i + 1 # 1
      /\ \A i, j \in 1..(Len(q) - 1) : i # j => i + 1 # j + 1
      /\ 1 \in 1..Len(q)
  BY <1>1
<1>5. \A i \in 1..Len(q) : i = 1 \/ (i - 1 \in 1..(Len(q) - 1) /\ Tail(q)[i - 1] = q[i])
  BY <1>2, <1>4
<1>6. Range(q) = Range(Tail(q)) \cup {Head(q)}
  <2>1. ASSUME NEW i \in 1..Len(q) PROVE q[i] \in Range(Tail(q)) \cup {Head(q)}
    BY <1>2, <1>3, <1>5 DEF Range
  <2>2. ASSUME NEW i \in 1..(Len(q) - 1) PROVE Tail(q)[i] \in Range(q)
    BY <1>1, <1>2, <1>4 DEF Range
  <2>3. Head(q) \in Range(q)
    BY <1>1, <1>2, <1>4 DEF Range
  <2>4. Range(q) \subseteq Range(Tail(q)) \cup {Head(q)}
    BY <1>1, <2>1 DEF Range
  <2>5. Range(Tail(q)) \subseteq Range(q)
    BY <1>3, <2>2 DEF Range
  <2> QED BY <2>3, <2>4, <2>5
<1>7. ASSUME Once(q) PROVE Head(q) \notin Range(Tail(q)) /\ Once(Tail(q))
  BY <1>1, <1>2, <1>3, <1>4, <1>7 DEF Once, Range
<1> QED BY <1>2, <1>6, <1>7

\* A sequence that lists tasks once each is as long as they are many.
LEMMA OnceIsCounted ==
    ASSUME NEW T, IsFiniteSet(T), NEW q \in Seq(T), Once(q)
    PROVE  /\ IsFiniteSet(Range(q)) /\ Cardinality(Range(q)) = Len(q)
           /\ Len(q) = Cardinality(T) <=> Range(q) = T
<1>1. Len(q) \in Nat /\ DOMAIN q = 1..Len(q) /\ q \in [1..Len(q) -> T]
  BY LenProperties
<1>2. q \in Bijection(1..Len(q), Range(q))
  <2>1. q \in [1..Len(q) -> Range(q)]
    BY <1>1 DEF Range
  <2>2. \A x \in Range(q) : \E i \in 1..Len(q) : q[i] = x
    BY <1>1 DEF Range
  <2>3. \A i, j \in 1..Len(q) : q[i] = q[j] => i = j
    BY <1>1 DEF Once
  <2> QED BY <2>1, <2>2, <2>3 DEF Bijection, Injection, Surjection, IsInjective
<1>3. IsFiniteSet(1..Len(q)) /\ Cardinality(1..Len(q)) = Len(q)
  BY <1>1, FS_Interval
<1>4. IsFiniteSet(Range(q)) /\ Cardinality(Range(q)) = Len(q)
  BY <1>2, <1>3, FS_Bijection DEF ExistsBijection
<1>5. Range(q) \subseteq T
  BY <1>1 DEF Range
<1> QED BY <1>4, <1>5, FS_Subset

-----------------------------------------------------------------------------
(* The loops as sequences of states: one before the first element and one after each. *)

RowFrom(rows, k) == links[rows[k]].from
RowOn(rows, k)   == links[rows[k]].on

\* The states of the loop: what is known of its three variables.
States(T) == [degree: [T -> Int], queue: Seq(T), result: Seq(T)]

\* The functions that the folds of Begun, Pass and Ordered go through.
QueuesFrom(f, ids, rows) ==
    [s \in SUBSET DOMAIN ids |->
        IF s = {} THEN <<>>
        ELSE Queued(f[s \ {Max(s)}], ids[Max(s)], InDegree(ids[Max(s)], rows))]

Counted(p, l, t) == IF links[l].on = t THEN CountDown(p, links[l].from) ELSE p

CountsFrom(f, base, t, rows) ==
    [s \in SUBSET DOMAIN rows |->
        IF s = {} THEN base ELSE Counted(f[s \ {Max(s)}], rows[Max(s)], t)]

Passed(s, rows) == IF s.queue = <<>> THEN s ELSE Pass(s, rows)

PassesFrom(f, base, ids, rows) ==
    [s \in SUBSET DOMAIN ids |-> IF s = {} THEN base ELSE Passed(f[s \ {Max(s)}], rows)]

Taken(s) == [s EXCEPT !.queue = Tail(@), !.result = Append(@, Head(s.queue))]

\* The folds by their definitions.
LEMMA FoldsUnfolded ==
    ASSUME NEW ids, NEW rows, NEW s
    PROVE  /\ Begun(ids, rows).queue
                = (CHOOSE f : f = QueuesFrom(f, ids, rows))[DOMAIN ids]
           /\ Pass(s, rows)
                = (CHOOSE f : f = CountsFrom(f, Taken(s), Head(s.queue), rows))[DOMAIN rows]
           /\ Ordered(ids, rows)
                = (CHOOSE f : f = PassesFrom(f, Begun(ids, rows), ids, rows))[DOMAIN ids].result
<1>1. Begun(ids, rows).queue = FoldLeft(LAMBDA queue, t : Queued(queue, t, InDegree(t, rows)), <<>>, ids)
  BY DEF Begun
<1>2. FoldLeft(LAMBDA queue, t : Queued(queue, t, InDegree(t, rows)), <<>>, ids)
        = (CHOOSE f : f = QueuesFrom(f, ids, rows))[DOMAIN ids]
  BY Zenon DEF FoldLeft, MapThenFoldSet, QueuesFrom
<1>3. Pass(s, rows)
        = (CHOOSE f : f = CountsFrom(f, Taken(s), Head(s.queue), rows))[DOMAIN rows]
  BY Zenon DEF Pass, FoldLeft, MapThenFoldSet, CountsFrom, Counted, Taken
<1>4. Ordered(ids, rows)
        = (CHOOSE f : f = PassesFrom(f, Begun(ids, rows), ids, rows))[DOMAIN ids].result
  BY Zenon DEF Ordered, FoldLeft, MapThenFoldSet, PassesFrom, Passed
<1> QED BY <1>1, <1>2, <1>3, <1>4

\* Begun's queue is built task by task.
LEMMA QueueStates ==
    ASSUME NEW T, NEW ids \in Seq(T), NEW rows
    PROVE  \E acc : /\ acc[0] = <<>>
                    /\ \A k \in 1..Len(ids) :
                          acc[k] = Queued(acc[k - 1], ids[k], InDegree(ids[k], rows))
                    /\ Begun(ids, rows).queue = acc[Len(ids)]
<1> DEFINE n == Len(ids)
           V == Seq(T)
           step == [p \in V \X (1..n) |-> Queued(p[1], ids[p[2]], InDegree(ids[p[2]], rows))]
           g == CHOOSE f : f = QueuesFrom(f, ids, rows)
           acc == [k \in 0..n |-> g[1..k]]
<1>1. n \in Nat /\ DOMAIN ids = 1..n /\ \A k \in 1..n : ids[k] \in T
  BY LenProperties
<1>2. <<>> \in V
  BY EmptySeq
<1>3. step \in [V \X (1..n) -> V]
  <2>1. ASSUME NEW q \in V, NEW k \in 1..n PROVE Queued(q, ids[k], InDegree(ids[k], rows)) \in V
    BY <1>1, AppendProperties DEF Queued
  <2> HIDE DEF V
  <2> QED BY <2>1
<1>4. \A q \in V, k \in 1..n : step[<<q, k>>] = Queued(q, ids[k], InDegree(ids[k], rows))
  <2> HIDE DEF V
  <2> QED OBVIOUS
<1> HIDE DEF step, V
<1>5. PICK f : FoldsPlaces(f, n, V, <<>>, step)
  BY <1>1, <1>2, <1>3, FoldExists
<1>6. f = QueuesFrom(f, ids, rows)
  <2>1. ASSUME NEW s \in SUBSET (1..n), s # {}
        PROVE  f[s] = Queued(f[s \ {Max(s)}], ids[Max(s)], InDegree(ids[Max(s)], rows))
    <3>1. Max(s) \in 1..n
      BY <1>1, <2>1, LastPlace
    <3>2. f[s \ {Max(s)}] \in V /\ f[s] = step[<<f[s \ {Max(s)}], Max(s)>>]
      BY <1>5, <2>1 DEF FoldsPlaces
    <3> QED BY <1>4, <3>1, <3>2
  <2>2. f[{}] = <<>>
    BY <1>5 DEF FoldsPlaces
  <2> QED BY <1>1, <1>5, <2>1, <2>2 DEF QueuesFrom, FoldsPlaces
<1>7. g = QueuesFrom(g, ids, rows)
  BY <1>6
<1>8. Begun(ids, rows).queue = g[1..n]
  <2>1. Begun(ids, rows).queue = g[DOMAIN ids]
    BY FoldsUnfolded, Zenon
  <2> QED BY <1>1, <2>1
<1> HIDE DEF g, n
<1>9. \A s \in SUBSET (1..n) :
         g[s] = IF s = {} THEN <<>>
                ELSE Queued(g[s \ {Max(s)}], ids[Max(s)], InDegree(ids[Max(s)], rows))
  BY <1>1, <1>7 DEF QueuesFrom
<1>10. acc[0] = <<>>
  <2>1. 1..0 = {} /\ 0 \in 0..n
    BY <1>1
  <2> QED BY <1>9, <2>1
<1>11. ASSUME NEW k \in 1..n
       PROVE  acc[k] = Queued(acc[k - 1], ids[k], InDegree(ids[k], rows))
  <2>1. Max(1..k) = k /\ (1..k) \ {k} = 1..(k - 1)
    BY <1>1, LastPlace
  <2>2. 1..k \in SUBSET (1..n) /\ 1..k # {}
    BY <1>1, LastPlace
  <2>3. g[1..k] = Queued(g[1..(k - 1)], ids[k], InDegree(ids[k], rows))
    BY <1>9, <2>1, <2>2
  <2>4. k \in 0..n /\ k - 1 \in 0..n
    BY <1>1
  <2> QED BY <2>3, <2>4
<1>12. Begun(ids, rows).queue = acc[n]
  BY <1>1, <1>8
<1> HIDE DEF acc
<1> QED BY <1>10, <1>11, <1>12 DEF n

\* Counting a task down, as a record.
LEMMA CountDownState ==
    ASSUME NEW T, NEW p \in States(T), NEW u \in T
    PROVE  /\ CountDown(p, u) = [degree |-> [p.degree EXCEPT ![u] = @ - 1],
                                 queue  |-> Queued(p.queue, u, p.degree[u] - 1),
                                 result |-> p.result]
           /\ CountDown(p, u) \in States(T)
           /\ p.degree[u] - 1 \in Int
<1>1. p.degree \in [T -> Int] /\ p.queue \in Seq(T) /\ p.result \in Seq(T)
  BY DEF States
<1> DEFINE left == p.degree[u] - 1
<1>2. left \in Int
  BY <1>1
<1>3. CountDown(p, u) = [p EXCEPT !.degree[u] = left, !.queue = Queued(@, u, left)]
  BY Zenon DEF CountDown
<1>4. [p.degree EXCEPT ![u] = @ - 1] = [p.degree EXCEPT ![u] = left]
  OBVIOUS
<1>5. [p.degree EXCEPT ![u] = left] \in [T -> Int]
  BY <1>1, <1>2
<1>6. Queued(p.queue, u, left) \in Seq(T)
  BY <1>1, AppendProperties DEF Queued
<1> HIDE DEF left
<1>7. CountDown(p, u) = [degree |-> [p.degree EXCEPT ![u] = left],
                         queue |-> Queued(p.queue, u, left), result |-> p.result]
  BY <1>1, <1>3 DEF States
<1>8. CountDown(p, u) \in States(T)
  BY <1>1, <1>5, <1>6, <1>7 DEF States
<1> QED BY <1>2, <1>4, <1>7, <1>8 DEF left

\* Taking the first task of the queue, as a record.
LEMMA TakenState ==
    ASSUME NEW T, NEW s \in States(T), s.queue # <<>>
    PROVE  /\ Taken(s) = [degree |-> s.degree, queue |-> Tail(s.queue),
                          result |-> Append(s.result, Head(s.queue))]
           /\ Taken(s) \in States(T)
           /\ Head(s.queue) \in T
<1>1. s.degree \in [T -> Int] /\ s.queue \in Seq(T) /\ s.result \in Seq(T)
  BY DEF States
<1>2. Head(s.queue) \in T /\ Tail(s.queue) \in Seq(T)
  BY <1>1, TailFacts
<1>3. Append(s.result, Head(s.queue)) \in Seq(T)
  BY <1>1, <1>2, AppendProperties
<1>4. Taken(s) = [degree |-> s.degree, queue |-> Tail(s.queue),
                  result |-> Append(s.result, Head(s.queue))]
  <2> DEFINE q == Tail(s.queue)
             o == Append(s.result, Head(s.queue))
  <2>1. Taken(s) = [s EXCEPT !.queue = q, !.result = o]
    BY Zenon DEF Taken
  <2> HIDE DEF q, o
  <2>2. Taken(s) = [degree |-> s.degree, queue |-> q, result |-> o]
    BY <2>1 DEF States
  <2> QED BY <2>2 DEF q, o
<1> QED BY <1>1, <1>2, <1>3, <1>4 DEF States

\* One pass is made row by row.
LEMMA PassStates ==
    ASSUME NEW T, NEW s \in States(T), s.queue # <<>>, NEW rows,
           Len(rows) \in Nat, DOMAIN rows = 1..Len(rows),
           \A k \in DOMAIN rows : RowFrom(rows, k) \in T
    PROVE  \E acc : /\ acc[0] = Taken(s)
                    /\ \A k \in 1..Len(rows) :
                          acc[k] = Counted(acc[k - 1], rows[k], Head(s.queue))
                    /\ \A k \in 0..Len(rows) : acc[k] \in States(T)
                    /\ Pass(s, rows) = acc[Len(rows)]
<1> DEFINE m == Len(rows)
           V == States(T)
           t == Head(s.queue)
           step == [p \in V \X (1..m) |-> Counted(p[1], rows[p[2]], t)]
           g == CHOOSE f : f = CountsFrom(f, Taken(s), t, rows)
           acc == [k \in 0..m |-> g[1..k]]
<1>1. m \in Nat /\ DOMAIN rows = 1..m /\ \A k \in 1..m : links[rows[k]].from \in T
  BY DEF RowFrom
<1>2. Taken(s) \in V
  BY TakenState
<1>3. \A p \in V, k \in 1..m : Counted(p, rows[k], t) \in V
  BY <1>1, CountDownState DEF Counted
<1>4. Pass(s, rows) = g[1..m]
  <2>1. Pass(s, rows) = g[DOMAIN rows]
    BY FoldsUnfolded, Zenon
  <2> QED BY <1>1, <2>1
<1> HIDE DEF V
<1>5. step \in [V \X (1..m) -> V] /\ \A p \in V, k \in 1..m : step[<<p, k>>] = Counted(p, rows[k], t)
  BY <1>3
<1> HIDE DEF step
<1>6. PICK f : FoldsPlaces(f, m, V, Taken(s), step)
  BY <1>1, <1>2, <1>5, FoldExists
<1>7. f = CountsFrom(f, Taken(s), t, rows)
  <2>1. ASSUME NEW x \in SUBSET (1..m), x # {}
        PROVE  f[x] = Counted(f[x \ {Max(x)}], rows[Max(x)], t)
    <3>1. Max(x) \in 1..m
      BY <1>1, <2>1, LastPlace
    <3>2. f[x \ {Max(x)}] \in V /\ f[x] = step[<<f[x \ {Max(x)}], Max(x)>>]
      BY <1>6, <2>1 DEF FoldsPlaces
    <3> QED BY <1>5, <3>1, <3>2
  <2>2. f[{}] = Taken(s)
    BY <1>6 DEF FoldsPlaces
  <2> QED BY <1>1, <1>6, <2>1, <2>2 DEF CountsFrom, FoldsPlaces
<1>8. g = CountsFrom(g, Taken(s), t, rows)
  BY <1>7
<1> HIDE DEF g, m, t
<1>9. \A x \in SUBSET (1..m) :
         g[x] = IF x = {} THEN Taken(s) ELSE Counted(g[x \ {Max(x)}], rows[Max(x)], t)
  BY <1>1, <1>8 DEF CountsFrom
<1>10. acc[0] = Taken(s)
  <2>1. 1..0 = {} /\ 0 \in 0..m
    BY <1>1
  <2> QED BY <1>9, <2>1
<1>11. ASSUME NEW k \in 1..m PROVE acc[k] = Counted(acc[k - 1], rows[k], t)
  <2>1. Max(1..k) = k /\ (1..k) \ {k} = 1..(k - 1)
    BY <1>1, LastPlace
  <2>2. 1..k \in SUBSET (1..m) /\ 1..k # {}
    BY <1>1, LastPlace
  <2>3. g[1..k] = Counted(g[1..(k - 1)], rows[k], t)
    BY <1>9, <2>1, <2>2
  <2>4. k \in 0..m /\ k - 1 \in 0..m
    BY <1>1
  <2> QED BY <2>3, <2>4
<1>12. Pass(s, rows) = acc[m]
  BY <1>1, <1>4
<1> HIDE DEF acc
<1>13. \A k \in 0..m : acc[k] \in V
  <2> DEFINE W == {k \in 0..m : acc[k] \notin V}
  <2>1. SUFFICES ASSUME W # {} PROVE FALSE
    OBVIOUS
  <2>2. PICK k \in W : \A j \in W : k <= j
    <3>1. W \in SUBSET Nat
      BY <1>1
    <3> HIDE DEF W
    <3> QED BY <2>1, <3>1, LeastNumber
  <2>3. k \in 0..m /\ k # 0
    BY <1>2, <1>10
  <2>4. k \in 1..m /\ k - 1 \in 0..m /\ ~(k <= k - 1)
    BY <1>1, <2>3
  <2>5. acc[k - 1] \in V
    BY <2>2, <2>4
  <2> QED BY <1>3, <1>11, <2>4, <2>5
<1> QED BY <1>10, <1>11, <1>12, <1>13 DEF m, t, V

\* The execution order is made pass by pass, one for each task that was asked for.
LEMMA OrderStates ==
    ASSUME NEW T, NEW ids \in Seq(T), NEW rows,
           Len(rows) \in Nat, DOMAIN rows = 1..Len(rows),
           \A k \in DOMAIN rows : RowFrom(rows, k) \in T,
           Begun(ids, rows) \in States(T)
    PROVE  \E acc : /\ acc[0] = Begun(ids, rows)
                    /\ \A k \in 1..Len(ids) : acc[k] = Passed(acc[k - 1], rows)
                    /\ Ordered(ids, rows) = acc[Len(ids)].result
<1> DEFINE n == Len(ids)
           V == States(T)
           base == Begun(ids, rows)
           step == [p \in V \X (1..n) |-> Passed(p[1], rows)]
           g == CHOOSE f : f = PassesFrom(f, base, ids, rows)
           acc == [k \in 0..n |-> g[1..k]]
<1>1. n \in Nat /\ DOMAIN ids = 1..n
  BY LenProperties
<1>2. \A p \in V : Passed(p, rows) \in V
  <2>1. ASSUME NEW p \in V, p.queue # <<>> PROVE Pass(p, rows) \in V
    <3>1. Len(rows) \in 0..Len(rows)
      OBVIOUS
    <3> QED BY <2>1, <3>1, PassStates
  <2> HIDE DEF V
  <2> QED BY <2>1 DEF Passed
<1>3. Ordered(ids, rows) = g[1..n].result
  <2>1. Ordered(ids, rows) = g[DOMAIN ids].result
    BY FoldsUnfolded, Zenon
  <2> QED BY <1>1, <2>1
<1>4. base \in V
  OBVIOUS
<1> HIDE DEF V, base
<1>5. step \in [V \X (1..n) -> V] /\ \A p \in V, k \in 1..n : step[<<p, k>>] = Passed(p, rows)
  BY <1>2
<1> HIDE DEF step
<1>6. PICK f : FoldsPlaces(f, n, V, base, step)
  BY <1>1, <1>4, <1>5, FoldExists
<1>7. f = PassesFrom(f, base, ids, rows)
  <2>1. ASSUME NEW x \in SUBSET (1..n), x # {} PROVE f[x] = Passed(f[x \ {Max(x)}], rows)
    <3>1. Max(x) \in 1..n
      BY <1>1, <2>1, LastPlace
    <3>2. f[x \ {Max(x)}] \in V /\ f[x] = step[<<f[x \ {Max(x)}], Max(x)>>]
      BY <1>6, <2>1 DEF FoldsPlaces
    <3> QED BY <1>5, <3>1, <3>2
  <2>2. f[{}] = base
    BY <1>6 DEF FoldsPlaces
  <2> QED BY <1>1, <1>6, <2>1, <2>2 DEF PassesFrom, FoldsPlaces
<1>8. g = PassesFrom(g, base, ids, rows)
  BY <1>7
<1> HIDE DEF g, n
<1>9. \A x \in SUBSET (1..n) :
         g[x] = IF x = {} THEN base ELSE Passed(g[x \ {Max(x)}], rows)
  BY <1>1, <1>8 DEF PassesFrom
<1>10. acc[0] = base
  <2>1. 1..0 = {} /\ 0 \in 0..n
    BY <1>1
  <2> QED BY <1>9, <2>1
<1>11. ASSUME NEW k \in 1..n PROVE acc[k] = Passed(acc[k - 1], rows)
  <2>1. Max(1..k) = k /\ (1..k) \ {k} = 1..(k - 1)
    BY <1>1, LastPlace
  <2>2. 1..k \in SUBSET (1..n) /\ 1..k # {}
    BY <1>1, LastPlace
  <2>3. g[1..k] = Passed(g[1..(k - 1)], rows)
    BY <1>9, <2>1, <2>2
  <2>4. k \in 0..n /\ k - 1 \in 0..n
    BY <1>1
  <2> QED BY <2>3, <2>4
<1>12. Ordered(ids, rows) = acc[n].result
  BY <1>1, <1>3
<1> HIDE DEF acc
<1> QED BY <1>10, <1>11, <1>12 DEF n, base

-----------------------------------------------------------------------------
(* What holds between two iterations: W are the rows that have been counted. *)

Uncounted(rows, W, u) == {k \in DOMAIN rows \ W : RowFrom(rows, k) = u}

\* Each task of the result comes after the tasks it needs.
InOrder(result, rows) ==
    \A i \in DOMAIN result, k \in DOMAIN rows :
        RowFrom(rows, k) = result[i] => \E j \in 1..(i - 1) : result[j] = RowOn(rows, k)

LoopInv(s, W, rows, T) ==
    /\ s \in States(T)
    /\ \A u \in T : s.degree[u] = Cardinality(Uncounted(rows, W, u))
    /\ \A u \in T : Uncounted(rows, W, u) = {} <=> u \in Range(s.queue) \cup Range(s.result)
    /\ Once(s.queue) /\ Once(s.result)
    /\ Range(s.queue) \cap Range(s.result) = {}
    /\ InOrder(s.result, rows)

\* A row that is counted takes one from its task, which joins the queue with its last one.
LEMMA CountKeeps ==
    ASSUME NEW T, NEW rows, IsFiniteSet(DOMAIN rows), NEW W, NEW s, LoopInv(s, W, rows, T),
           NEW k \in DOMAIN rows \ W, RowFrom(rows, k) \in T
    PROVE  LoopInv(CountDown(s, RowFrom(rows, k)), W \cup {k}, rows, T)
<1> DEFINE u == RowFrom(rows, k)
           X == W \cup {k}
           p == CountDown(s, u)
           left == s.degree[u] - 1
<1>1. s \in States(T) /\ u \in T
  BY DEF LoopInv
<1>2. /\ p = [degree |-> [s.degree EXCEPT ![u] = @ - 1], queue |-> Queued(s.queue, u, left),
              result |-> s.result]
      /\ p \in States(T) /\ left \in Int
  BY <1>1, CountDownState
<1>3. Uncounted(rows, X, u) = Uncounted(rows, W, u) \ {k} /\ k \in Uncounted(rows, W, u)
  BY DEF Uncounted
<1>4. \A x \in T \ {u} : Uncounted(rows, X, x) = Uncounted(rows, W, x)
  BY DEF Uncounted
<1>5. IsFiniteSet(Uncounted(rows, W, u)) /\ IsFiniteSet(Uncounted(rows, X, u))
  BY FS_Subset DEF Uncounted
<1>6. Cardinality(Uncounted(rows, X, u)) = Cardinality(Uncounted(rows, W, u)) - 1
  <2> DEFINE A == Uncounted(rows, W, u)
             B == Uncounted(rows, X, u)
  <2>1. IsFiniteSet(A) /\ B = A \ {k} /\ k \in A
    BY <1>3, <1>5
  <2> HIDE DEF A, B
  <2>2. Cardinality(B) = Cardinality(A) - 1
    BY <2>1, FS_RemoveElement
  <2> QED BY <2>2 DEF A, B
<1>7. left = Cardinality(Uncounted(rows, X, u))
  BY <1>1, <1>6 DEF LoopInv
<1>8. left = 0 <=> Uncounted(rows, X, u) = {}
  BY <1>5, <1>7, FS_EmptySet
<1>9. u \notin Range(s.queue) \cup Range(s.result)
  BY <1>1, <1>3 DEF LoopInv
<1>10. /\ p.degree[u] = left /\ \A x \in T \ {u} : p.degree[x] = s.degree[x]
       /\ p.queue = Queued(s.queue, u, left) /\ p.result = s.result
  BY <1>1, <1>2 DEF States
<1>11. s.queue \in Seq(T)
  BY <1>1 DEF States
<1>12. /\ left = 0 => Range(p.queue) = Range(s.queue) \cup {u} /\ Once(p.queue)
       /\ left # 0 => p.queue = s.queue
  BY <1>1, <1>9, <1>10, <1>11, AppendFacts DEF LoopInv, Queued
<1> HIDE DEF u, X, p, left
<1>13. \A x \in T : p.degree[x] = Cardinality(Uncounted(rows, X, x))
  BY <1>4, <1>7, <1>10 DEF LoopInv
<1>14. \A x \in T : Uncounted(rows, X, x) = {} <=> x \in Range(p.queue) \cup Range(p.result)
  <2>1. ASSUME NEW x \in T, x # u
        PROVE  Uncounted(rows, X, x) = {} <=> x \in Range(p.queue) \cup Range(p.result)
    BY <1>4, <1>10, <1>12, <2>1 DEF LoopInv
  <2>2. Uncounted(rows, X, u) = {} <=> u \in Range(p.queue) \cup Range(p.result)
    BY <1>8, <1>9, <1>10, <1>12
  <2> QED BY <2>1, <2>2
<1>15. Once(p.queue) /\ Once(p.result) /\ Range(p.queue) \cap Range(p.result) = {}
       /\ InOrder(p.result, rows)
  BY <1>9, <1>10, <1>12 DEF LoopInv
<1>16. LoopInv(p, X, rows, T)
  BY <1>2, <1>13, <1>14, <1>15 DEF LoopInv
<1> QED BY <1>16 DEF p, X, u

\* The rows of the tasks in the result.
Done(rows, s) == {k \in DOMAIN rows : RowOn(rows, k) \in Range(s.result)}

\* The first task of the queue has nothing left to wait for and may follow the result.
LEMMA TakeKeeps ==
    ASSUME NEW T, NEW rows, NEW s, LoopInv(s, Done(rows, s), rows, T), s.queue # <<>>
    PROVE  LoopInv(Taken(s), Done(rows, s), rows, T)
<1> DEFINE W == Done(rows, s)
           t == Head(s.queue)
           p == Taken(s)
<1>1. s \in States(T) /\ s.queue \in Seq(T) /\ s.result \in Seq(T)
  BY DEF LoopInv, States
<1>2. /\ p = [degree |-> s.degree, queue |-> Tail(s.queue), result |-> Append(s.result, t)]
      /\ p \in States(T) /\ t \in T
  BY <1>1, TakenState
<1>3. p.degree = s.degree /\ p.queue = Tail(s.queue) /\ p.result = Append(s.result, t)
  BY <1>2
<1>4. Once(s.queue) /\ Once(s.result) /\ Range(s.queue) \cap Range(s.result) = {}
  BY DEF LoopInv
<1>5. /\ Range(s.queue) = Range(p.queue) \cup {t}
      /\ t \notin Range(p.queue) /\ Once(p.queue)
  BY <1>1, <1>3, <1>4, TailFacts
<1>6. /\ Range(p.result) = Range(s.result) \cup {t} /\ Once(p.result)
      /\ DOMAIN p.result = 1..(Len(s.result) + 1)
      /\ \A i \in 1..Len(s.result) : p.result[i] = s.result[i]
      /\ p.result[Len(s.result) + 1] = t
  <2>1. t \notin Range(s.result)
    BY <1>4, <1>5
  <2> QED BY <1>1, <1>2, <1>3, <1>4, <2>1, AppendFacts
<1>7. Len(s.result) \in Nat /\ DOMAIN s.result = 1..Len(s.result)
  BY <1>1, LenProperties
<1>8. InOrder(p.result, rows)
  <2>1. ASSUME NEW i \in DOMAIN p.result, NEW k \in DOMAIN rows, RowFrom(rows, k) = p.result[i]
        PROVE  \E j \in 1..(i - 1) : p.result[j] = RowOn(rows, k)
    <3>1. CASE i \in 1..Len(s.result)
      <4>1. RowFrom(rows, k) = s.result[i]
        BY <1>6, <2>1, <3>1
      <4>2. PICK j \in 1..(i - 1) : s.result[j] = RowOn(rows, k)
        BY <1>7, <3>1, <4>1 DEF LoopInv, InOrder
      <4>3. j \in 1..Len(s.result)
        BY <1>7, <3>1
      <4> QED BY <1>6, <4>2, <4>3
    <3>2. CASE i \notin 1..Len(s.result)
      <4>1. i = Len(s.result) + 1
        BY <1>6, <1>7, <3>2
      <4>2. RowFrom(rows, k) = t
        BY <1>6, <2>1, <4>1
      <4>3. Uncounted(rows, W, t) = {}
        <5> HIDE DEF t, W
        <5>1. t \in Range(s.queue)
          BY <1>5
        <5> QED BY <1>2, <5>1 DEF LoopInv, W
      <4>4. k \in W
        BY <4>2, <4>3 DEF Uncounted
      <4>5. RowOn(rows, k) \in Range(s.result)
        BY <4>4 DEF Done
      <4>6. PICK j \in 1..Len(s.result) : s.result[j] = RowOn(rows, k)
        BY <1>7, <4>5 DEF Range
      <4>7. i - 1 = Len(s.result)
        BY <1>7, <4>1
      <4> QED BY <1>6, <4>6, <4>7
    <3> QED BY <3>1, <3>2
  <2> QED BY <2>1 DEF InOrder
<1> HIDE DEF p, t, W
<1>9. \A u \in T : p.degree[u] = Cardinality(Uncounted(rows, W, u))
  BY <1>3 DEF LoopInv, W
<1>10. \A u \in T : Uncounted(rows, W, u) = {} <=> u \in Range(p.queue) \cup Range(p.result)
  BY <1>5, <1>6 DEF LoopInv, W
<1>11. Range(p.queue) \cap Range(p.result) = {}
  BY <1>4, <1>5, <1>6
<1>12. LoopInv(p, W, rows, T)
  BY <1>2, <1>5, <1>6, <1>8, <1>9, <1>10, <1>11 DEF LoopInv
<1> QED BY <1>12 DEF p, W

\* One pass takes the first task of the queue and counts the rows that wait for it.
LEMMA PassKeeps ==
    ASSUME NEW T, NEW rows, Len(rows) \in Nat, DOMAIN rows = 1..Len(rows),
           \A k \in DOMAIN rows : RowFrom(rows, k) \in T,
           NEW s, LoopInv(s, Done(rows, s), rows, T), s.queue # <<>>
    PROVE  /\ LoopInv(Pass(s, rows), Done(rows, Pass(s, rows)), rows, T)
           /\ Len(Pass(s, rows).result) = Len(s.result) + 1
<1> DEFINE m == Len(rows)
           t == Head(s.queue)
           W(k) == Done(rows, s) \cup {j \in 1..k : RowOn(rows, j) = t}
           o == Append(s.result, t)
<1>1. s \in States(T) /\ s.queue \in Seq(T) /\ s.result \in Seq(T)
  BY DEF LoopInv, States
<1>2. PICK acc : /\ acc[0] = Taken(s)
                 /\ \A k \in 1..m : acc[k] = Counted(acc[k - 1], rows[k], t)
                 /\ \A k \in 0..m : acc[k] \in States(T)
                 /\ Pass(s, rows) = acc[m]
  BY <1>1, PassStates
<1>3. t \in Range(s.queue) /\ t \notin Range(s.result) /\ t \in T
  <2>1. t \in T /\ Range(s.queue) = Range(Tail(s.queue)) \cup {t}
    BY <1>1, TailFacts
  <2> HIDE DEF t
  <2> QED BY <2>1 DEF LoopInv
<1>4. Taken(s).result = o /\ Len(o) = Len(s.result) + 1 /\ Range(o) = Range(s.result) \cup {t}
  BY <1>1, <1>3, TakenState, AppendFacts
<1>5. LoopInv(Taken(s), Done(rows, s), rows, T)
  BY TakeKeeps
<1>6. m \in Nat /\ DOMAIN rows = 1..m /\ IsFiniteSet(DOMAIN rows)
  BY FS_Interval
<1> DEFINE P(k) == LoopInv(acc[k], W(k), rows, T) /\ acc[k].result = o
<1> HIDE DEF t, o, m
<1>7. P(0)
  <2>1. W(0) = Done(rows, s)
    <3>1. 1..0 = {}
      OBVIOUS
    <3> QED BY <3>1
  <2> HIDE DEF W
  <2> QED BY <1>2, <1>4, <1>5, <2>1
<1>8. ASSUME NEW k \in 1..m, P(k - 1) PROVE P(k)
  <2>1. /\ k \in DOMAIN rows /\ k - 1 \in 0..m /\ k \notin 1..(k - 1)
        /\ \A j : j \in 1..k <=> j \in 1..(k - 1) \/ j = k
    BY <1>6
  <2>2. acc[k] = IF RowOn(rows, k) = t THEN CountDown(acc[k - 1], RowFrom(rows, k)) ELSE acc[k - 1]
    BY <1>2 DEF Counted, RowOn, RowFrom
  <2>3. CASE RowOn(rows, k) = t
    <3>1. W(k) = W(k - 1) \cup {k}
      BY <2>1, <2>3
    <3>2. k \notin W(k - 1)
      BY <1>3, <2>1, <2>3 DEF Done
    <3>3. RowFrom(rows, k) \in T
      BY <2>1
    <3> HIDE DEF W
    <3>4. LoopInv(CountDown(acc[k - 1], RowFrom(rows, k)), W(k - 1) \cup {k}, rows, T)
      BY <1>6, <1>8, <2>1, <3>2, <3>3, CountKeeps
    <3>5. CountDown(acc[k - 1], RowFrom(rows, k)).result = acc[k - 1].result
      BY <1>2, <2>1, <3>3, CountDownState
    <3> QED BY <1>8, <2>2, <2>3, <3>1, <3>4, <3>5
  <2>4. CASE RowOn(rows, k) # t
    <3>1. W(k) = W(k - 1)
      BY <2>1, <2>4
    <3> HIDE DEF W
    <3> QED BY <1>8, <2>2, <2>4, <3>1
  <2> QED BY <2>3, <2>4
<1>9. P(m)
  <2> DEFINE B == {k \in 0..m : ~P(k)}
  <2> HIDE DEF P
  <2>1. SUFFICES ASSUME B # {} PROVE FALSE
    BY <1>6
  <2>2. PICK k \in B : \A j \in B : k <= j
    <3>1. B \in SUBSET Nat
      BY <1>6
    <3> HIDE DEF B
    <3> QED BY <2>1, <3>1, LeastNumber
  <2>3. k \in 0..m /\ k # 0
    BY <1>7
  <2>4. k \in 1..m /\ k - 1 \in 0..m /\ ~(k <= k - 1)
    BY <1>6, <2>3
  <2>5. P(k - 1)
    BY <2>2, <2>4
  <2> QED BY <1>8, <2>4, <2>5
<1>10. W(m) = Done(rows, Pass(s, rows))
  <2>1. Range(Pass(s, rows).result) = Range(s.result) \cup {t}
    BY <1>2, <1>4, <1>9
  <2> QED BY <1>6, <2>1 DEF Done
<1> HIDE DEF W
<1> QED BY <1>2, <1>4, <1>9, <1>10

\* Before the first pass, the tasks that wait for nothing are queued, once each.
LEMMA BegunKeeps ==
    ASSUME NEW T, NEW ids \in Seq(T), Once(ids), Range(ids) = T, NEW rows,
           IsFiniteSet(DOMAIN rows)
    PROVE  LoopInv(Begun(ids, rows), {}, rows, T) /\ Begun(ids, rows).result = <<>>
<1> DEFINE n == Len(ids)
           b == Begun(ids, rows)
           Free(u) == InDegree(u, rows) = 0
<1>1. n \in Nat /\ DOMAIN ids = 1..n /\ \A k \in 1..n : ids[k] \in T
  BY LenProperties
<1>2. PICK acc : /\ acc[0] = <<>>
                 /\ \A k \in 1..n : acc[k] = Queued(acc[k - 1], ids[k], InDegree(ids[k], rows))
                 /\ b.queue = acc[n]
  BY QueueStates
<1>3. \A u \in T : Uncounted(rows, {}, u) = {k \in DOMAIN rows : links[rows[k]].from = u}
  BY DEF Uncounted, RowFrom
<1>4. \A u \in T : InDegree(u, rows) = Cardinality(Uncounted(rows, {}, u))
  BY <1>3 DEF InDegree
<1>5. \A u \in T : InDegree(u, rows) \in Nat /\ (Free(u) <=> Uncounted(rows, {}, u) = {})
  <2>1. ASSUME NEW u \in T PROVE IsFiniteSet(Uncounted(rows, {}, u))
    BY FS_Subset DEF Uncounted
  <2> QED BY <1>4, <2>1, FS_CardinalityType, FS_EmptySet
<1>6. b.degree = [u \in T |-> InDegree(u, rows)] /\ b.result = <<>>
  BY DEF Begun
<1> DEFINE P(k) == /\ acc[k] \in Seq(T) /\ Once(acc[k])
                   /\ \A u : u \in Range(acc[k]) <=> \E i \in 1..k : ids[i] = u /\ Free(u)
<1>7. P(0)
  <2>1. 1..0 = {} /\ DOMAIN <<>> = {}
    OBVIOUS
  <2>2. Range(<<>>) = {} /\ Once(<<>>)
    BY <2>1 DEF Range, Once
  <2> QED BY <1>2, <2>1, <2>2, EmptySeq
<1> HIDE DEF n, b, Free
<1>8. ASSUME NEW k \in 1..n, P(k - 1) PROVE P(k)
  <2>1. /\ k \notin 1..(k - 1) /\ k \in DOMAIN ids /\ 1..(k - 1) \subseteq DOMAIN ids
        /\ \A i : i \in 1..k <=> i \in 1..(k - 1) \/ i = k
    BY <1>1
  <2>2. ids[k] \in T /\ ids[k] \notin Range(acc[k - 1])
    <3>1. \A i \in 1..(k - 1) : ids[i] # ids[k]
      BY <2>1 DEF Once
    <3> QED BY <1>1, <1>8, <3>1
  <2>3. CASE Free(ids[k])
    <3>1. acc[k] = Append(acc[k - 1], ids[k])
      BY <1>2, <2>3 DEF Queued, Free
    <3>2. acc[k] \in Seq(T) /\ Once(acc[k]) /\ Range(acc[k]) = Range(acc[k - 1]) \cup {ids[k]}
      BY <1>8, <2>2, <3>1, AppendFacts
    <3> QED BY <1>8, <2>1, <2>3, <3>2
  <2>4. CASE ~Free(ids[k])
    <3>1. acc[k] = acc[k - 1]
      BY <1>2, <2>4 DEF Queued, Free
    <3> QED BY <1>8, <2>1, <2>4, <3>1
  <2> QED BY <2>3, <2>4
<1>9. P(n)
  <2> DEFINE B == {k \in 0..n : ~P(k)}
  <2> HIDE DEF P
  <2>1. SUFFICES ASSUME B # {} PROVE FALSE
    BY <1>1
  <2>2. PICK k \in B : \A j \in B : k <= j
    <3>1. B \in SUBSET Nat
      BY <1>1
    <3> HIDE DEF B
    <3> QED BY <2>1, <3>1, LeastNumber
  <2>3. k \in 0..n /\ k # 0
    BY <1>7
  <2>4. k \in 1..n /\ k - 1 \in 0..n /\ ~(k <= k - 1)
    BY <1>1, <2>3
  <2>5. P(k - 1)
    BY <2>2, <2>4
  <2> QED BY <1>8, <2>4, <2>5
<1>10. \A u \in T : u \in Range(b.queue) <=> Free(u)
  <2>1. \A u \in T : \E i \in 1..n : ids[i] = u
    BY <1>1 DEF Range
  <2> QED BY <1>2, <1>9, <2>1
<1>11. b \in States(T)
  <2>1. b.degree \in [T -> Int] /\ b.queue \in Seq(T) /\ b.result \in Seq(T)
    BY <1>2, <1>5, <1>6, <1>9, EmptySeq
  <2>2. b = [degree |-> b.degree, queue |-> b.queue, result |-> b.result]
    BY DEF b, Begun
  <2> QED BY <2>1, <2>2 DEF States
<1>12. DOMAIN b.result = {} /\ Range(b.result) = {}
  <2>1. DOMAIN <<>> = {}
    OBVIOUS
  <2> QED BY <1>6, <2>1 DEF Range
<1>13. InOrder(b.result, rows) /\ Once(b.result)
  BY <1>12 DEF InOrder, Once
<1>14. \A u \in T : b.degree[u] = Cardinality(Uncounted(rows, {}, u))
  BY <1>4, <1>6
<1>15. Once(b.queue) /\ \A u \in T : Uncounted(rows, {}, u) = {} <=> u \in Range(b.queue) \cup Range(b.result)
  BY <1>2, <1>5, <1>9, <1>10, <1>12
<1>16. LoopInv(b, {}, rows, T)
  BY <1>11, <1>12, <1>13, <1>14, <1>15 DEF LoopInv
<1> QED BY <1>6, <1>16 DEF b

\* When as many passes are made as tasks are listed, the queue is empty.
LEMMA OrderKeeps ==
    ASSUME NEW T, NEW ids \in Seq(T), Once(ids), Range(ids) = T, IsFiniteSet(T),
           NEW rows, Len(rows) \in Nat, DOMAIN rows = 1..Len(rows),
           \A k \in DOMAIN rows : RowFrom(rows, k) \in T
    PROVE  \E s : /\ Ordered(ids, rows) = s.result /\ s.queue = <<>>
                  /\ LoopInv(s, Done(rows, s), rows, T)
<1> DEFINE n == Len(ids)
<1>1. n \in Nat /\ n = Cardinality(T)
  BY LenProperties, OnceIsCounted
<1>2. IsFiniteSet(DOMAIN rows)
  BY FS_Interval
<1>3. LoopInv(Begun(ids, rows), {}, rows, T) /\ Begun(ids, rows).result = <<>>
  BY <1>2, BegunKeeps
<1>4. Done(rows, Begun(ids, rows)) = {}
  <2>1. DOMAIN <<>> = {}
    OBVIOUS
  <2> QED BY <1>3, <2>1 DEF Done, Range
<1>5. Begun(ids, rows) \in States(T)
  BY <1>3 DEF LoopInv
<1>6. PICK acc : /\ acc[0] = Begun(ids, rows)
                 /\ \A k \in 1..n : acc[k] = Passed(acc[k - 1], rows)
                 /\ Ordered(ids, rows) = acc[n].result
  BY <1>5, OrderStates
<1> DEFINE P(k) == /\ LoopInv(acc[k], Done(rows, acc[k]), rows, T)
                   /\ acc[k].queue = <<>> \/ Len(acc[k].result) = k
<1> HIDE DEF n
<1>7. P(0)
  BY <1>3, <1>4, <1>6, EmptySeq
<1>8. ASSUME NEW k \in 1..n, P(k - 1) PROVE P(k)
  <2>1. acc[k] = Passed(acc[k - 1], rows)
    BY <1>6
  <2>2. CASE acc[k - 1].queue = <<>>
    BY <1>8, <2>1, <2>2 DEF Passed
  <2>3. CASE acc[k - 1].queue # <<>>
    <3>1. acc[k] = Pass(acc[k - 1], rows)
      BY <2>1, <2>3 DEF Passed
    <3>2. /\ LoopInv(Pass(acc[k - 1], rows), Done(rows, Pass(acc[k - 1], rows)), rows, T)
          /\ Len(Pass(acc[k - 1], rows).result) = Len(acc[k - 1].result) + 1
      BY <1>8, <2>3, PassKeeps
    <3>3. Len(acc[k - 1].result) = k - 1
      BY <1>8, <2>3
    <3>4. (k - 1) + 1 = k
      BY <1>1
    <3> QED BY <3>1, <3>2, <3>3, <3>4
  <2> QED BY <2>2, <2>3
<1>9. P(n)
  <2> DEFINE B == {k \in 0..n : ~P(k)}
  <2> HIDE DEF P
  <2>1. SUFFICES ASSUME B # {} PROVE FALSE
    BY <1>1
  <2>2. PICK k \in B : \A j \in B : k <= j
    <3>1. B \in SUBSET Nat
      BY <1>1
    <3> HIDE DEF B
    <3> QED BY <2>1, <3>1, LeastNumber
  <2>3. k \in 0..n /\ k # 0
    BY <1>7
  <2>4. k \in 1..n /\ k - 1 \in 0..n /\ ~(k <= k - 1)
    BY <1>1, <2>3
  <2>5. P(k - 1)
    BY <2>2, <2>4
  <2> QED BY <1>8, <2>4, <2>5
<1>10. acc[n].queue = <<>>
  <2> DEFINE s == acc[n]
  <2>1. SUFFICES ASSUME s.queue # <<>> PROVE FALSE
    OBVIOUS
  <2>2. /\ s.result \in Seq(T) /\ s.queue \in Seq(T) /\ Once(s.result)
        /\ Range(s.queue) \cap Range(s.result) = {} /\ Len(s.result) = n
    BY <1>9, <2>1 DEF LoopInv, States
  <2> HIDE DEF s
  <2>3. Range(s.result) = T
    BY <1>1, <2>2, OnceIsCounted
  <2>4. Head(s.queue) \in T /\ Head(s.queue) \in Range(s.queue)
    BY <2>1, <2>2, TailFacts
  <2> QED BY <2>2, <2>3, <2>4
<1> QED BY <1>6, <1>9, <1>10

-----------------------------------------------------------------------------
(* The algorithm on any rows. *)

\* The places of a list of n elements of S without repetition hold each element of S if S
\* has n elements.
LEMMA ListedOnce ==
    ASSUME NEW S, IsFiniteSet(S), NEW q \in SetToSeqs(S)
    PROVE  /\ q \in Seq(S) /\ Once(q) /\ Range(q) = S
           /\ Len(q) \in Nat /\ DOMAIN q = 1..Len(q)
<1>1. Cardinality(S) \in Nat
  BY FS_CardinalityType
<1>2. q \in [1..Cardinality(S) -> S] /\ Once(q)
  BY DEF SetToSeqs, Once
<1>3. q \in Seq(S) /\ Len(q) = Cardinality(S)
  BY <1>1, <1>2
<1> QED BY <1>2, <1>3, LenProperties, OnceIsCounted

\* Whatever tasks are asked about, whatever rows there are and in whatever order they are
\* read, the tasks are listed once each, after all they need, or have a cycle among them.
LEMMA KahnIsRight ==
    ASSUME links \in [Links -> LinkRow \cup {NoLink}],
           NEW ids \in SetToAllKPermutations(Tasks), NEW rows \in SetToSeqs(RowsAmong(ids))
    PROVE  LET order == Ordered(ids, rows) IN
           /\ Circular(ids, order) <=> ~Orderable(Range(ids))
           /\ ~Circular(ids, order) =>
                 /\ Range(order) = Range(ids)
                 /\ \A i \in DOMAIN order :
                       Needs(order[i]) \cap Range(ids) \subseteq {order[j] : j \in 1..(i - 1)}
<1> DEFINE order == Ordered(ids, rows)
           T == Range(ids)
<1>1. /\ ids \in Seq(T) /\ Once(ids) /\ IsFiniteSet(T) /\ T \subseteq Tasks
      /\ Len(ids) = Cardinality(T)
  <2>1. PICK S \in SUBSET Tasks : ids \in SetToSeqs(S)
    BY DEF SetToAllKPermutations
  <2>2. IsFiniteSet(S)
    BY TaskAssumption, FS_Subset
  <2>3. ids \in Seq(S) /\ Once(ids) /\ T = S
    BY <2>1, <2>2, ListedOnce
  <2>4. Len(ids) = Cardinality(S)
    BY <2>2, <2>3, OnceIsCounted
  <2> HIDE DEF T
  <2> QED BY <2>2, <2>3, <2>4
<1> DEFINE R == RowsAmong(ids)
<1>2. /\ R \subseteq Links
      /\ \A l \in R : links[l].from \in T /\ links[l].on \in T
      /\ \A l \in LiveLinks : links[l].from \in T /\ links[l].on \in T => l \in R
  BY DEF RowsAmong, LiveLinks
<1>3. Range(rows) = R /\ Len(rows) \in Nat /\ DOMAIN rows = 1..Len(rows)
  <2>1. IsFiniteSet(R)
    BY <1>2, TaskAssumption, FS_Subset
  <2>2. rows \in SetToSeqs(R)
    OBVIOUS
  <2> HIDE DEF R
  <2> QED BY <2>1, <2>2, ListedOnce
<1> HIDE DEF R, T
<1>4. \A k \in DOMAIN rows : /\ rows[k] \in R
                             /\ RowFrom(rows, k) \in T /\ RowOn(rows, k) \in T
  BY <1>2, <1>3 DEF Range, RowFrom, RowOn
<1>5. PICK s : /\ order = s.result /\ s.queue = <<>>
               /\ LoopInv(s, Done(rows, s), rows, T)
  <2>1. \E s : /\ Ordered(ids, rows) = s.result /\ s.queue = <<>>
               /\ LoopInv(s, Done(rows, s), rows, T)
    BY <1>1, <1>3, <1>4, OrderKeeps DEF T
  <2> QED BY <2>1
<1> HIDE DEF order
<1>6. order \in Seq(T) /\ Once(order) /\ InOrder(order, rows)
  BY <1>5 DEF LoopInv, States
<1>7. Len(order) \in Nat /\ DOMAIN order = 1..Len(order)
  BY <1>6, LenProperties
<1>8. ~Circular(ids, order) <=> Range(order) = T
  BY <1>1, <1>6, OnceIsCounted DEF Circular
\* A dependency between tasks that were asked about is one of the rows.
<1>9. ASSUME NEW a \in T, NEW b \in Needs(a) \cap T
      PROVE  \E k \in DOMAIN rows : RowFrom(rows, k) = a /\ RowOn(rows, k) = b
  <2>1. PICK l \in LiveLinks : links[l].from = a /\ links[l].on = b
    BY <1>9 DEF Needs, LinksFrom
  <2>2. l \in R
    BY <1>2, <2>1
  <2>3. PICK k \in DOMAIN rows : rows[k] = l
    BY <1>3, <2>2 DEF Range
  <2> QED BY <2>1, <2>3 DEF RowFrom, RowOn
<1>10. \A k \in DOMAIN rows : RowOn(rows, k) \in Needs(RowFrom(rows, k))
  BY <1>2, <1>4 DEF Needs, LinksFrom, RowsAmong, R, RowFrom, RowOn
<1>11. ASSUME Range(order) = T, NEW i \in DOMAIN order
       PROVE  Needs(order[i]) \cap T \subseteq {order[j] : j \in 1..(i - 1)}
  <2> SUFFICES ASSUME NEW b \in Needs(order[i]) \cap T
               PROVE  b \in {order[j] : j \in 1..(i - 1)}
    OBVIOUS
  <2>1. order[i] \in T
    BY <1>11 DEF Range
  <2>2. PICK k \in DOMAIN rows : RowFrom(rows, k) = order[i] /\ RowOn(rows, k) = b
    BY <1>9, <2>1
  <2>3. PICK j \in 1..(i - 1) : order[j] = b
    BY <1>6, <2>2 DEF InOrder
  <2> QED BY <2>3
<1>12. ASSUME Range(order) = T PROVE Orderable(T)
  <2> SUFFICES ASSUME NEW S \in (SUBSET T) \ {{}} PROVE \E a \in S : Needs(a) \cap S = {}
    BY DEF Orderable
  <2> DEFINE P == {i \in DOMAIN order : order[i] \in S}
  <2>1. P \in SUBSET Nat /\ P # {}
    BY <1>7, <1>12 DEF Range
  <2>2. PICK i \in P : \A j \in P : i <= j
    <3> HIDE DEF P
    <3> QED BY <2>1, LeastNumber
  <2>3. ASSUME NEW b \in Needs(order[i]) \cap S PROVE FALSE
    <3>1. b \in Needs(order[i]) \cap T
      OBVIOUS
    <3>2. PICK j \in 1..(i - 1) : order[j] = b
      BY <1>11, <1>12, <3>1
    <3>3. j \in DOMAIN order /\ ~(i <= j)
      BY <1>7
    <3> QED BY <2>2, <2>3, <3>2, <3>3
  <2>4. Needs(order[i]) \cap S = {}
    BY <2>3
  <2> QED BY <2>4
<1>13. ASSUME Range(order) # T PROVE ~Orderable(T)
  <2> DEFINE S == T \ Range(order)
  <2>1. Range(order) \subseteq T
    BY <1>6, <1>7 DEF Range
  <2>2. S \in (SUBSET T) \ {{}}
    BY <1>13, <2>1
  <2>3. ASSUME NEW a \in S PROVE Needs(a) \cap S # {}
    <3>1. Range(s.queue) = {}
      <4>1. DOMAIN <<>> = {}
        OBVIOUS
      <4> QED BY <1>5, <4>1 DEF Range
    <3>2. Uncounted(rows, Done(rows, s), a) # {}
      BY <1>5, <3>1 DEF LoopInv
    <3>3. PICK k \in DOMAIN rows : k \notin Done(rows, s) /\ RowFrom(rows, k) = a
      BY <3>2 DEF Uncounted
    <3>4. RowOn(rows, k) \in T /\ RowOn(rows, k) \notin Range(order)
      BY <1>4, <1>5, <3>3 DEF Done
    <3> QED BY <1>10, <3>3, <3>4
  <2> HIDE DEF S
  <2> QED BY <2>2, <2>3 DEF Orderable
<1>14. /\ Circular(ids, order) <=> ~Orderable(T)
       /\ ~Circular(ids, order) =>
             /\ Range(order) = T
             /\ \A i \in DOMAIN order :
                   Needs(order[i]) \cap T \subseteq {order[j] : j \in 1..(i - 1)}
  BY <1>8, <1>11, <1>12, <1>13
<1> QED BY <1>14 DEF order, T

\* Rows and requests are well formed however additions race.
LinksTyped ==
    /\ links \in [Links -> LinkRow \cup {NoLink}]
    /\ lreq \in [LinkSlots -> {Quiet} \cup AddReq]

\* Every step keeps them so.
LEMMA LinkTypesStay ==
    ASSUME LinksTyped, [LinkNext]_lvars
    PROVE  LinksTyped'
<1>1. ASSUME NEW r \in LinkSlots, NEW q \in {Quiet} \cup AddReq, links' = links,
             lreq' = [lreq EXCEPT ![r] = q]
      PROVE  LinksTyped'
  BY <1>1 DEF LinksTyped
<1>2. ASSUME NEW r \in LinkSlots, NEW t \in Tasks, NEW u \in Tasks, NEW type \in LinkTypes,
             AddRead(r, t, u, type)
      PROVE  LinksTyped'
  <2>1. [pc |-> "walk", from |-> t, on |-> u, type |-> type, todo |-> {u}, seen |-> {}] \in AddReq
    BY DEF AddReq
  <2> QED BY <1>1, <1>2, <2>1 DEF AddRead
<1>3. ASSUME NEW r \in LinkSlots, lreq[r] # Quiet
      PROVE  /\ lreq[r] = [pc |-> lreq[r].pc, from |-> lreq[r].from, on |-> lreq[r].on,
                           type |-> lreq[r].type, todo |-> lreq[r].todo, seen |-> lreq[r].seen]
             /\ lreq[r].from \in Tasks /\ lreq[r].on \in Tasks /\ lreq[r].type \in LinkTypes
             /\ lreq[r].todo \in SUBSET Tasks /\ lreq[r].seen \in SUBSET Tasks
             /\ lreq[r] \in AddReq
  BY <1>3 DEF LinksTyped, AddReq
<1>4. ASSUME NEW r \in LinkSlots, NEW t \in Tasks, Visit(r, t) PROVE LinksTyped'
  <2> DEFINE q == lreq[r]
             v == IF t = q.from THEN Quiet
                  ELSE IF t \in q.seen THEN [q EXCEPT !.todo = @ \ {t}]
                  ELSE [q EXCEPT !.todo = (@ \ {t}) \cup Onward(t), !.seen = SeenAfter(q, t)]
  <2>1. lreq' = [lreq EXCEPT ![r] = v] /\ links' = links /\ q # Quiet
    BY <1>4 DEF Visit, Quiet
  <2>2. q \in AddReq /\ q.todo \in SUBSET Tasks /\ q.seen \in SUBSET Tasks
    BY <1>3, <2>1
  <2>3. Onward(t) \in SUBSET Tasks
    BY NeedsAreTasks DEF Onward, LinksTyped
  <2>4. (q.todo \ {t}) \cup Onward(t) \in SUBSET Tasks /\ SeenAfter(q, t) \in SUBSET Tasks
    BY <2>2, <2>3 DEF SeenAfter
  <2> HIDE DEF q
  <2>5. v \in {Quiet} \cup AddReq
    <3>1. ASSUME NEW todo \in SUBSET Tasks, NEW seen \in SUBSET Tasks
          PROVE  [q EXCEPT !.todo = todo, !.seen = seen] \in AddReq
      BY <2>2 DEF AddReq
    <3>2. [q EXCEPT !.todo = @ \ {t}] \in AddReq
      BY <2>2 DEF AddReq
    <3>3. [q EXCEPT !.todo = (@ \ {t}) \cup Onward(t), !.seen = SeenAfter(q, t)]
            = [q EXCEPT !.todo = (q.todo \ {t}) \cup Onward(t), !.seen = SeenAfter(q, t)]
      OBVIOUS
    <3> QED BY <2>4, <3>1, <3>2, <3>3
  <2> HIDE DEF v
  <2> QED BY <1>1, <2>1, <2>5
<1>5. ASSUME NEW r \in LinkSlots, NoCycleFound(r) \/ LookForExisting(r) \/ LinkAbort(r)
      PROVE  LinksTyped'
  <2>1. lreq[r] # Quiet /\ links' = links
    BY <1>5 DEF NoCycleFound, LookForExisting, LinkAbort, Quiet
  <2>2. lreq[r] \in AddReq
    BY <1>3, <2>1
  <2>3. [lreq[r] EXCEPT !.pc = "look"] \in AddReq /\ [lreq[r] EXCEPT !.pc = "insert"] \in AddReq
    BY <2>2 DEF AddReq
  <2>4. \E q \in {Quiet} \cup AddReq : lreq' = [lreq EXCEPT ![r] = q]
    <3>1. CASE NoCycleFound(r)
      <4>1. lreq' = [lreq EXCEPT ![r] = [lreq[r] EXCEPT !.pc = "look"]]
        BY <3>1 DEF NoCycleFound
      <4> QED BY <2>3, <4>1
    <3>2. CASE LookForExisting(r)
      BY <2>3, <3>2 DEF LookForExisting
    <3>3. CASE LinkAbort(r)
      BY <3>3 DEF LinkAbort
    <3> QED BY <1>5, <3>1, <3>2, <3>3
  <2> QED BY <1>1, <2>1, <2>4
<1>6. ASSUME NEW r \in LinkSlots, NEW l \in Links, Insert(r, l) PROVE LinksTyped'
  <2> DEFINE q == lreq[r]
             row == [state |-> "live", from |-> q.from, on |-> q.on, type |-> q.type]
  <2>1. q # Quiet /\ links' = [links EXCEPT ![l] = row] /\ lreq' = [lreq EXCEPT ![r] = Quiet]
    BY <1>6 DEF Insert, Quiet
  <2>2. row \in LinkRow
    BY <1>3, <2>1 DEF LinkRow
  <2> HIDE DEF row, q
  <2> QED BY <2>1, <2>2 DEF LinksTyped
<1>7. ASSUME NEW l \in Links, RemoveLink(l) PROVE LinksTyped'
  BY <1>7, NeedsAfterRemove DEF RemoveLink, LinksTyped
<1>8. CASE UNCHANGED lvars
  BY <1>8 DEF lvars, LinksTyped
<1> QED BY <1>2, <1>4, <1>5, <1>6, <1>7, <1>8 DEF LinkNext, LinkProgress

\* However many additions race, and whatever rows and cycles they leave: the tasks that are
\* asked about are listed once each and after all they need, or the call reports a cycle, which
\* it does exactly if there is one among them.
THEOREM OrdersAreRight == LinkSpec => []OrderOrCycle
<1>1. LinkInit => LinksTyped
  BY DEF LinkInit, LinksTyped
<1>2. LinksTyped /\ [LinkNext]_lvars => LinksTyped'
  BY LinkTypesStay
<1>3. LinksTyped => OrderOrCycle
  BY KahnIsRight DEF LinksTyped, OrderOrCycle
<1> QED BY <1>1, <1>2, <1>3, PTL DEF LinkSpec

-----------------------------------------------------------------------------
(* TasksService and TaskChecklistService *)

ItemRows == ItemRow \cup {NoItem}

\* The requests in flight are of the kinds their steps make.
RequestsTyped == treq \in [WorkSlots -> {Quiet} \cup WorkReq]

RowsTyped ==
    /\ tasks \in [Tasks -> TaskRow]
    /\ links \in [Links -> LinkRow \cup {NoLink}]
    /\ items \in [Items -> ItemRows]

WorkInv == WorkTypeOK /\ RowsHaveTasks

-----------------------------------------------------------------------------
(* What the steps make of single rows and requests *)

\* The program counter tells the kind of a request.
LEMMA RequestKinds ==
    ASSUME RequestsTyped, NEW w \in WorkSlots
    PROVE  /\ treq[w].pc \in {"deps", "write"} => treq[w] \in ChangeReq
           /\ treq[w].pc = "create" =>
                 treq[w] \in [pc: {"create"}, deps: SUBSET Tasks, who: Users \cup {"nobody"}, count: Nat]
           /\ treq[w].pc \in {"remove", "add"} => treq[w] \in [pc: {"remove", "add"}, task: Tasks]
           /\ treq[w].pc = "mark" => treq[w] \in [pc: {"mark"}, item: Items, done: BOOLEAN]
           /\ treq[w].pc = "drop" => treq[w] \in [pc: {"drop"}, item: Items]
<1> USE DEF RequestsTyped, WorkReq, ChangeReq, Quiet
<1>1. treq[w] \in {Quiet} \cup WorkReq
  OBVIOUS
<1> QED BY <1>1

\* A change of a row leaves a row, and one that is there is still there.
LEMMA WrittenRow ==
    ASSUME NEW row \in TaskRow, NEW q \in ChangeReq
    PROVE  /\ row.status \in TaskStatus => Written(row, q) \in TaskRow /\ Written(row, q).status \in TaskStatus
           /\ Written(row, q).photos \in SUBSET Photos
<1>1. Written(row, q).photos \in SUBSET Photos
  BY DEF Written, ChangeReq, TaskRow
<1>2. Written(row, q).who \in Users \cup {"nobody"}
  BY DEF Written, ChangeReq, TaskRow
<1>3. row.status \in TaskStatus => Written(row, q).status \in TaskStatus
  BY DEF Written, ChangeReq, TaskRow
<1>4. Written(row, q) = [status |-> Written(row, q).status, who |-> Written(row, q).who,
                         photos |-> Written(row, q).photos]
  BY DEF Written
<1> QED BY <1>1, <1>2, <1>3, <1>4 DEF TaskRow

\* Rows that are taken away stay well formed.
LEMMA GoneRows ==
    /\ \A row \in LinkRow : LET r == [row EXCEPT !.state = "gone"] IN
          r \in LinkRow /\ r.state = "gone" /\ r.from = row.from /\ r.on = row.on
    /\ \A row \in ItemRow : LET r == [row EXCEPT !.state = "gone"] IN
          r \in ItemRow /\ r.state = "gone"
    /\ \A row \in ItemRow : \A b \in BOOLEAN : LET r == [row EXCEPT !.done = b] IN
          r \in ItemRow /\ r.task = row.task /\ r.state = row.state
<1>1. ASSUME NEW row \in LinkRow PROVE LET r == [row EXCEPT !.state = "gone"] IN
          r \in LinkRow /\ r.state = "gone" /\ r.from = row.from /\ r.on = row.on
  BY DEF LinkRow
<1>2. ASSUME NEW row \in ItemRow PROVE LET r == [row EXCEPT !.state = "gone"] IN
          r \in ItemRow /\ r.state = "gone"
  BY DEF ItemRow
<1>3. ASSUME NEW row \in ItemRow, NEW b \in BOOLEAN PROVE LET r == [row EXCEPT !.done = b] IN
          r \in ItemRow /\ r.task = row.task /\ r.state = row.state
  BY DEF ItemRow
<1> QED BY <1>1, <1>2, <1>3

\* A row that is live is not one that has not been used.
LEMMA LiveRows ==
    ASSUME RowsTyped
    PROVE  /\ \A l \in LiveLinks : links[l] \in LinkRow
           /\ \A i \in LiveItems : items[i] \in ItemRow
BY DEF RowsTyped, LiveLinks, LiveItems, ItemRows, NoLink, NoItem

\* What a change is allowed to make of the status of its task still holds when no other request
\* has come between.
ChangeStands(q) == q.status # "keep" => q.status \in Allowed(tasks[q.task].status)

DependenciesDone(t) ==
    \A l \in LinksFrom(t) : links[l].type = "finish_to_start" => tasks[links[l].on].status = "completed"

SerialInv ==
    /\ WorkTypeOK
    /\ \A w \in WorkSlots :
          /\ treq[w].pc \in {"deps", "write"} => ChangeStands(treq[w])
          /\ treq[w].pc = "remove" => tasks[treq[w].task].status \notin {"in_progress", "completed"}

StartInv ==
    \A w \in WorkSlots : treq[w].pc = "write" /\ treq[w].status = "in_progress" =>
        DependenciesDone(treq[w].task)

\* A search goes through tasks that were there, not through ids to come.
SearchesKnown ==
    \A r \in LinkSlots : lreq[r] # Quiet =>
        \A t \in lreq[r].seen \cup lreq[r].todo \cup {lreq[r].from, lreq[r].on} :
            tasks[t].status # "fresh"

GraphInv == WorkInv /\ LinkInv /\ SearchesKnown

-----------------------------------------------------------------------------
(* Rows and requests stay well formed *)

\* What a request of TaskDependencyService does to its own record and to the rows.
LEMMA LinkTypingKept ==
    ASSUME LinkTypeOK, LinkNext
    PROVE  LinkTypeOK'
<1>0. links \in [Links -> LinkRow \cup {NoLink}] /\ lreq \in [LinkSlots -> {Quiet} \cup AddReq]
  BY DEF LinkTypeOK, TaskDbTypeOK
<1>1. ASSUME NEW r \in LinkSlots, NEW q \in {Quiet} \cup AddReq, lreq' = [lreq EXCEPT ![r] = q],
             UNCHANGED <<tasks, links>>
      PROVE  LinkTypeOK'
  BY <1>0, <1>1 DEF LinkTypeOK, TaskDbTypeOK
<1>2. ASSUME NEW r \in LinkSlots, NEW t \in Tasks, NEW u \in Tasks, NEW type \in LinkTypes,
             AddRead(r, t, u, type)
      PROVE  LinkTypeOK'
  <2>1. [pc |-> "walk", from |-> t, on |-> u, type |-> type, todo |-> {u}, seen |-> {}] \in AddReq
    BY DEF AddReq
  <2> QED BY <1>1, <1>2, <2>1 DEF AddRead
<1>3. ASSUME NEW q \in AddReq, NEW t \in Tasks
      PROVE  /\ [q EXCEPT !.todo = @ \ {t}] \in AddReq
             /\ [q EXCEPT !.todo = (@ \ {t}) \cup Onward(t), !.seen = SeenAfter(q, t)] \in AddReq
             /\ [q EXCEPT !.pc = "look"] \in AddReq /\ [q EXCEPT !.pc = "insert"] \in AddReq
  <2>1. Onward(t) \in SUBSET Tasks
    BY <1>0, NeedsAreTasks DEF Onward
  <2>2. SeenAfter(q, t) \in SUBSET Tasks
    BY DEF SeenAfter, AddReq
  <2> QED BY <2>1, <2>2 DEF AddReq
<1>4. ASSUME NEW r \in LinkSlots, NEW t \in Tasks, Visit(r, t) PROVE LinkTypeOK'
  <2>1. lreq[r] \in AddReq
    BY <1>0, <1>4 DEF Visit, Quiet
  <2> QED BY <1>1, <1>3, <1>4, <2>1 DEF Visit
<1>5. ASSUME NEW r \in LinkSlots, NoCycleFound(r) \/ LookForExisting(r) PROVE LinkTypeOK'
  <2>1. lreq[r] \in AddReq
    BY <1>0, <1>5 DEF NoCycleFound, LookForExisting, Quiet
  <2>2. \A t : t \in Tasks => [lreq[r] EXCEPT !.pc = "look"] \in AddReq
    BY <1>3, <2>1
  <2>3. lreq[r].from \in Tasks
    BY <2>1 DEF AddReq
  <2> QED BY <1>1, <1>3, <1>5, <2>1, <2>3 DEF NoCycleFound, LookForExisting
<1>6. ASSUME NEW r \in LinkSlots, NEW l \in Links, Insert(r, l) PROVE LinkTypeOK'
  <2>1. lreq[r] \in AddReq
    BY <1>0, <1>6 DEF Insert, Quiet
  <2>2. [state |-> "live", from |-> lreq[r].from, on |-> lreq[r].on, type |-> lreq[r].type] \in LinkRow
    BY <2>1 DEF AddReq, LinkRow
  <2>3. links' \in [Links -> LinkRow \cup {NoLink}]
    BY <1>0, <1>6, <2>2 DEF Insert
  <2>4. lreq' \in [LinkSlots -> {Quiet} \cup AddReq]
    BY <1>0, <1>6 DEF Insert
  <2> QED BY <1>6, <2>3, <2>4 DEF Insert, LinkTypeOK, TaskDbTypeOK
<1>7. ASSUME NEW r \in LinkSlots, LinkAbort(r) PROVE LinkTypeOK'
  BY <1>1, <1>7 DEF LinkAbort
<1>8. ASSUME NEW l \in Links, RemoveLink(l) PROVE LinkTypeOK'
  <2>1. links' \in [Links -> LinkRow \cup {NoLink}]
    BY <1>0, <1>8, NeedsAfterRemove DEF RemoveLink
  <2> QED BY <1>8, <2>1 DEF RemoveLink, LinkTypeOK, TaskDbTypeOK
<1> QED BY <1>2, <1>4, <1>5, <1>6, <1>7, <1>8 DEF LinkNext, LinkProgress

\* A request that comes in, and one that goes on to its write, is of its kind.
LEMMA RequestsKept ==
    ASSUME RequestsTyped, RowsTyped, NEW w \in WorkSlots, WorkArrive(w) \/ WorkStep(w) \/ WorkAbort(w)
    PROVE  RequestsTyped'
<1>1. ASSUME NEW q \in {Quiet} \cup WorkReq, treq' = [treq EXCEPT ![w] = q]
      PROVE  RequestsTyped'
  BY <1>1 DEF RequestsTyped
<1>2. ASSUME Answer(w) PROVE RequestsTyped'
  BY <1>1, <1>2 DEF Answer
<1>3. ASSUME NEW q \in WorkReq, Ask(w, q) PROVE RequestsTyped'
  BY <1>1, <1>3 DEF Ask
<1>4. ASSUME NEW pc \in {"deps", "write"}, NEW op \in {"update", "checkin", "checkout", "assign", "upload"},
             NEW t \in Tasks, NEW s \in TaskStatus \cup {"keep"}, NEW who \in Users \cup {"keep"},
             NEW photos \in SUBSET SUBSET Photos
      PROVE  Change(pc, op, t, s, who, photos) \in WorkReq
  BY DEF Change, WorkReq, ChangeReq
<1>6. ASSUME NEW i \in Items, NEW b \in BOOLEAN
      PROVE  [pc |-> "mark", item |-> i, done |-> b] \in WorkReq /\ [pc |-> "drop", item |-> i] \in WorkReq
  BY DEF WorkReq
<1>7. ASSUME NEW t \in Tasks, RemoveRead(w, t) \/ AddItemRead(w, t) PROVE RequestsTyped'
  <2>1. [pc |-> "remove", task |-> t] \in WorkReq /\ [pc |-> "add", task |-> t] \in WorkReq
    BY DEF WorkReq
  <2> QED BY <1>3, <1>7, <2>1 DEF RemoveRead, AddItemRead
<1>8. ASSUME NEW t \in Tasks, NEW s \in TaskStatus \cup {"keep"}, NEW who \in Users \cup {"keep"},
             NEW photos \in {{}} \cup {{P} : P \in SUBSET Photos}, UpdateRead(w, t, s, who, photos)
      PROVE  RequestsTyped'
  <2>1. photos \in SUBSET SUBSET Photos
    OBVIOUS
  <2>2. \A pc \in {"deps", "write"} : Change(pc, "update", t, s, who, photos) \in WorkReq
    BY <1>4, <2>1
  <2>3. PICK pc \in {"deps", "write"} : Ask(w, Change(pc, "update", t, s, who, photos))
    BY <1>8 DEF UpdateRead
  <2> QED BY <1>3, <2>2, <2>3
<1>9. ASSUME NEW t \in Tasks, NEW u \in Users, CheckInRead(w, t, u) \/ AssignRead(w, t, u)
      PROVE  RequestsTyped'
  <2>1. /\ Change("deps", "checkin", t, "in_progress", "keep", {}) \in WorkReq
        /\ Change("write", "assign", t, "assigned", u, {}) \in WorkReq
    BY <1>4 DEF TaskStatus
  <2> QED BY <1>3, <1>9, <2>1 DEF CheckInRead, AssignRead
<1>10. ASSUME NEW t \in Tasks, NEW u \in Users, NEW P \in SUBSET Photos,
              CheckOutRead(w, t, u, P) \/ UploadRead(w, t, u, P)
       PROVE  RequestsTyped'
  <2>1. PhotosWith(t, P) \in SUBSET Photos
    BY DEF PhotosWith, RowsTyped, TaskRow
  <2>2. /\ Change("write", "checkout", t, "completed", "keep", {P}) \in WorkReq
        /\ Change("write", "upload", t, "keep", "keep", {PhotosWith(t, P)}) \in WorkReq
    BY <1>4, <2>1 DEF TaskStatus
  <2> QED BY <1>3, <1>10, <2>2 DEF CheckOutRead, UploadRead
<1>11. ASSUME NEW i \in Items, NEW u \in Users, NEW b \in BOOLEAN, MarkItemRead(w, i, u, b)
       PROVE  RequestsTyped'
  BY <1>3, <1>6, <1>11 DEF MarkItemRead
<1>12. ASSUME NEW i \in Items, DropItemRead(w, i) PROVE RequestsTyped'
  <2>1. [pc |-> "drop", item |-> i] \in WorkReq
    BY DEF WorkReq
  <2> QED BY <1>3, <1>12, <2>1 DEF DropItemRead
<1>13. CASE MayStart(w)
  <2>1. treq[w] \in ChangeReq
    BY <1>13, RequestKinds DEF MayStart
  <2>2. [treq[w] EXCEPT !.pc = "write"] \in WorkReq
    BY <2>1 DEF ChangeReq, WorkReq
  <2>3. treq' = [treq EXCEPT ![w] = [treq[w] EXCEPT !.pc = "write"]]
    BY <1>13 DEF MayStart
  <2> QED BY <1>1, <2>2, <2>3
<1>14. CASE (WorkStep(w) /\ ~MayStart(w)) \/ WorkAbort(w)
  BY <1>2, <1>14 DEF WorkStep, WorkAbort, CreateCommit, WriteTask, RemoveCommit, AddItem, MarkItem, DropItem
<1>15. ASSUME NEW deps \in SUBSET Tasks, NEW who \in Users \cup {"nobody"}, NEW n \in 0..Cardinality(Items),
              CreateRead(w, deps, who, n)
       PROVE  RequestsTyped'
  <2>1. n \in Nat
    OBVIOUS
  <2>2. [pc |-> "create", deps |-> deps, who |-> who, count |-> n] \in WorkReq
    BY <2>1 DEF WorkReq
  <2> QED BY <1>3, <1>15, <2>2 DEF CreateRead
<1>16. ASSUME NEW t \in Tasks, DuplicateRead(w, t) PROVE RequestsTyped'
  <2>1. Cardinality(ItemsOf(t)) \in Nat
    BY WorkAssumption, FS_Subset, FS_CardinalityType DEF ItemsOf, LiveItems
  <2>2. [pc |-> "create", deps |-> {}, who |-> "nobody", count |-> Cardinality(ItemsOf(t))] \in WorkReq
    BY <2>1 DEF WorkReq
  <2> QED BY <1>3, <1>16, <2>2 DEF DuplicateRead
<1> QED BY <1>7, <1>8, <1>9, <1>10, <1>11, <1>12, <1>13, <1>14, <1>15, <1>16 DEF WorkArrive

\* What a new task's transaction makes of each row.
Created(w, t, I, R) ==
    /\ treq[w].deps \subseteq LiveTasks /\ Cardinality(R) = Cardinality(treq[w].deps)
    /\ tasks[t].status = "fresh" /\ tasks'[t].status = "pending"
    /\ tasks' \in [Tasks -> TaskRow] /\ \A u \in Tasks : u # t => tasks'[u] = tasks[u]
    /\ \A i \in I : items'[i] = [state |-> "live", task |-> t, done |-> FALSE]
    /\ \A i \in Items : i \notin I => items'[i] = items[i]
    /\ items' \in [Items -> ItemRows]
    /\ links' \in [Links -> LinkRow \cup {NoLink}]
    /\ \A l \in Links : l \notin R => links'[l] = links[l]
    /\ \A l \in R : links'[l].state = "live" /\ links'[l].from = t /\ links'[l].on \in treq[w].deps
    /\ \A u \in treq[w].deps : \E l \in R : links'[l].on = u

\* A new task is pending, its items are open and its dependencies are those it was made with.
LEMMA CreatedRows ==
    ASSUME RequestsTyped, RowsTyped, NEW w \in WorkSlots, NEW t \in Tasks,
           NEW I \in SUBSET FreshItems, NEW R \in SUBSET FreshLinks, CreateCommit(w, t, I, R)
    PROVE  Created(w, t, I, R)
<1> DEFINE q == treq[w]
<1>0. tasks \in [Tasks -> TaskRow] /\ links \in [Links -> LinkRow \cup {NoLink}] /\ items \in [Items -> ItemRows]
  BY DEF RowsTyped
<1>1. /\ q.deps \in SUBSET Tasks /\ q.who \in Users \cup {"nobody"} /\ q.deps \subseteq LiveTasks
      /\ Cardinality(R) = Cardinality(q.deps)
  BY RequestKinds DEF CreateCommit, TasksThere
<1>2. /\ tasks[t].status = "fresh" /\ tasks'[t].status = "pending"
      /\ tasks' \in [Tasks -> TaskRow] /\ \A u \in Tasks : u # t => tasks'[u] = tasks[u]
  <2>1. tasks' = [tasks EXCEPT ![t].status = "pending", ![t].who = q.who] /\ tasks[t].status = "fresh"
    BY DEF CreateCommit
  <2>2. tasks'[t] = [status |-> "pending", who |-> q.who, photos |-> tasks[t].photos]
    BY <1>0, <2>1 DEF TaskRow
  <2>3. tasks'[t] \in TaskRow
    BY <1>0, <1>1, <2>2 DEF TaskRow, TaskStatus
  <2> QED BY <1>0, <2>1, <2>2, <2>3
<1>3. /\ items' \in [Items -> ItemRows]
      /\ \A i \in I : items'[i] = [state |-> "live", task |-> t, done |-> FALSE]
      /\ \A i \in Items : i \notin I => items'[i] = items[i]
  <2> DEFINE row == [state |-> "live", task |-> t, done |-> FALSE]
  <2>1. row \in ItemRows
    BY DEF ItemRow, ItemRows
  <2>2. items' = [i \in Items |-> IF i \in I THEN row ELSE items[i]]
    BY DEF CreateCommit
  <2>3. I \subseteq Items
    BY DEF FreshItems
  <2> HIDE DEF row
  <2>4. /\ items' \in [Items -> ItemRows] /\ \A i \in I : items'[i] = row
        /\ \A i \in Items : i \notin I => items'[i] = items[i]
    BY <1>0, <2>1, <2>2, <2>3
  <2> QED BY <2>4 DEF row
<1>4. PICK on \in [R -> q.deps] :
          /\ \A u \in q.deps : \E l \in R : on[l] = u
          /\ links' = [l \in Links |->
                 IF l \in R THEN [state |-> "live", from |-> t, on |-> on[l], type |-> "finish_to_start"]
                 ELSE links[l]]
  BY DEF CreateCommit
<1>5. ASSUME NEW l \in R
      PROVE  /\ links'[l] \in LinkRow /\ links'[l].state = "live" /\ links'[l].from = t
             /\ links'[l].on = on[l] /\ on[l] \in q.deps
  <2>1. l \in Links
    BY DEF FreshLinks
  <2>2. links'[l] = [state |-> "live", from |-> t, on |-> on[l], type |-> "finish_to_start"]
    BY <1>4, <2>1
  <2>3. on[l] \in q.deps
    BY <1>4
  <2> QED BY <1>1, <2>2, <2>3, WorkAssumption DEF LinkRow
<1>6. \A l \in Links : l \notin R => links'[l] = links[l]
  BY <1>4
<1>7. links' \in [Links -> LinkRow \cup {NoLink}]
  <2>1. \A l \in Links : links'[l] \in LinkRow \cup {NoLink}
    BY <1>0, <1>5, <1>6
  <2>2. links' = [l \in Links |-> links'[l]]
    BY <1>4
  <2> QED BY <2>1, <2>2
<1>8. \A u \in q.deps : \E l \in R : links'[l].on = u
  BY <1>4, <1>5
<1> QED BY <1>1, <1>2, <1>3, <1>4, <1>5, <1>6, <1>7, <1>8 DEF Created

\* What the removal of a task makes of each row.
LEMMA RemovedRows ==
    ASSUME RequestsTyped, RowsTyped, NEW w \in WorkSlots, RemoveCommit(w), NEW t, t = treq[w].task
    PROVE  /\ t \in LiveTasks /\ t \in Tasks /\ treq[w].pc = "remove"
           /\ tasks' \in [Tasks -> TaskRow] /\ \A u \in Tasks : u # t => tasks'[u] = tasks[u]
           /\ tasks'[t].status = "deleted"
           /\ links' \in [Links -> LinkRow \cup {NoLink}] /\ items' \in [Items -> ItemRows]
           /\ \A l \in LiveLinks' : l \in LiveLinks /\ links'[l] = links[l] /\ links[l].from # t /\ links[l].on # t
           /\ \A i \in LiveItems' : i \in LiveItems /\ items'[i] = items[i] /\ items[i].task # t
<1>0. /\ tasks \in [Tasks -> TaskRow] /\ links \in [Links -> LinkRow \cup {NoLink}] /\ items \in [Items -> ItemRows]
      /\ \A l \in LiveLinks : links[l] \in LinkRow
      /\ \A i \in LiveItems : items[i] \in ItemRow
  BY LiveRows DEF RowsTyped
<1>1. /\ t \in LiveTasks /\ t \in Tasks
      /\ ~ \E l \in LiveLinks \ LinksFrom(t) : links[l].on = t
      /\ tasks' = [tasks EXCEPT ![t] = [NoTask EXCEPT !.status = "deleted"]]
      /\ links' = [l \in Links |->
             IF l \in LinksFrom(t) THEN [links[l] EXCEPT !.state = "gone"] ELSE links[l]]
      /\ items' = [i \in Items |->
             IF i \in ItemsOf(t) THEN [items[i] EXCEPT !.state = "gone"] ELSE items[i]]
  BY DEF RemoveCommit, LiveTasks
<1>2. /\ tasks' \in [Tasks -> TaskRow] /\ \A u \in Tasks : u # t => tasks'[u] = tasks[u]
      /\ tasks'[t].status = "deleted"
  <2>1. [NoTask EXCEPT !.status = "deleted"] = [status |-> "deleted", who |-> "nobody", photos |-> {}]
    BY DEF NoTask
  <2>2. [NoTask EXCEPT !.status = "deleted"] \in TaskRow
    BY <2>1 DEF TaskRow
  <2> QED BY <1>0, <1>1, <2>1, <2>2
<1>3. ASSUME NEW l \in Links
      PROVE  /\ links'[l] \in LinkRow \cup {NoLink}
             /\ links'[l].state = "live" =>
                   l \in LiveLinks /\ links'[l] = links[l] /\ links[l].from # t /\ links[l].on # t
  <2>1. CASE l \in LinksFrom(t)
    <3>1. links'[l] = [links[l] EXCEPT !.state = "gone"] /\ links[l] \in LinkRow
      BY <1>0, <1>1, <2>1 DEF LinksFrom
    <3> QED BY <3>1, GoneRows
  <2>2. CASE l \notin LinksFrom(t)
    BY <1>0, <1>1, <2>2 DEF LinksFrom, LiveLinks
  <2> QED BY <2>1, <2>2
<1>4. ASSUME NEW i \in Items
      PROVE  /\ items'[i] \in ItemRows
             /\ items'[i].state = "live" => i \in LiveItems /\ items'[i] = items[i] /\ items[i].task # t
  <2>1. CASE i \in ItemsOf(t)
    <3>1. items'[i] = [items[i] EXCEPT !.state = "gone"] /\ items[i] \in ItemRow
      BY <1>0, <1>1, <2>1 DEF ItemsOf
    <3> QED BY <3>1, GoneRows DEF ItemRows
  <2>2. CASE i \notin ItemsOf(t)
    BY <1>0, <1>1, <2>2 DEF ItemsOf, LiveItems
  <2> QED BY <2>1, <2>2
<1>5. links' \in [Links -> LinkRow \cup {NoLink}] /\ items' \in [Items -> ItemRows]
  BY <1>1, <1>3, <1>4
<1>6. /\ \A l \in LiveLinks' : l \in LiveLinks /\ links'[l] = links[l] /\ links[l].from # t /\ links[l].on # t
      /\ \A i \in LiveItems' : i \in LiveItems /\ items'[i] = items[i] /\ items[i].task # t
  BY <1>3, <1>4 DEF LiveLinks, LiveItems
<1>7. treq[w].pc = "remove"
  BY DEF RemoveCommit
<1> QED BY <1>1, <1>2, <1>5, <1>6, <1>7

\* What a write of one task makes of the task rows.
LEMMA ChangedRows ==
    ASSUME RequestsTyped, RowsTyped, NEW w \in WorkSlots, WriteTask(w), NEW t, t = treq[w].task
    PROVE  /\ treq[w] \in ChangeReq /\ t \in LiveTasks /\ t \in Tasks
           /\ tasks' \in [Tasks -> TaskRow] /\ \A u \in Tasks : u # t => tasks'[u] = tasks[u]
           /\ tasks'[t] = Written(tasks[t], treq[w]) /\ tasks'[t].status \in TaskStatus
           /\ UNCHANGED <<links, items, lreq>> /\ treq' = [treq EXCEPT ![w] = Quiet]
<1>1. /\ treq[w] \in ChangeReq /\ t \in LiveTasks /\ t \in Tasks /\ tasks[t].status \in TaskStatus
      /\ tasks \in [Tasks -> TaskRow]
  BY RequestKinds DEF WriteTask, LiveTasks, RowsTyped
<1>2. Written(tasks[t], treq[w]) \in TaskRow /\ Written(tasks[t], treq[w]).status \in TaskStatus
  BY <1>1, WrittenRow
<1>3. tasks' = [tasks EXCEPT ![t] = Written(tasks[t], treq[w])]
  BY DEF WriteTask
<1> QED BY <1>1, <1>2, <1>3 DEF WriteTask, Answer

\* What the checklist's writes make of the items: one that is new on a task that is there,
\* one ticked off or not any more, one that is gone.
LEMMA ItemSteps ==
    ASSUME RequestsTyped, RowsTyped, NEW w \in WorkSlots,
           MarkItem(w) \/ DropItem(w) \/ \E i \in Items : AddItem(w, i)
    PROVE  /\ UNCHANGED <<tasks, links, lreq>> /\ treq' = [treq EXCEPT ![w] = Quiet]
           /\ items' \in [Items -> ItemRows]
           /\ \A i \in LiveItems' : \/ i \in LiveItems /\ items'[i].task = items[i].task
                                    \/ items'[i].task \in LiveTasks
<1>0. items \in [Items -> ItemRows] /\ \A i \in LiveItems : items[i] \in ItemRow
  BY LiveRows DEF RowsTyped
<1>1. UNCHANGED <<tasks, links, lreq>> /\ treq' = [treq EXCEPT ![w] = Quiet]
  BY DEF MarkItem, DropItem, AddItem, Answer
<1>2. ASSUME NEW i \in Items, NEW row \in ItemRow, items' = [items EXCEPT ![i] = row],
             row.state = "live" => row.task \in LiveTasks \/ (i \in LiveItems /\ row.task = items[i].task)
      PROVE  /\ items' \in [Items -> ItemRows]
             /\ \A j \in LiveItems' : \/ j \in LiveItems /\ items'[j].task = items[j].task
                                      \/ items'[j].task \in LiveTasks
  <2>1. items' \in [Items -> ItemRows]
    BY <1>0, <1>2 DEF ItemRows
  <2>2. \A j \in LiveItems' : j \in Items /\ items'[j].state = "live"
    BY DEF LiveItems
  <2> QED BY <1>0, <1>2, <2>1, <2>2 DEF LiveItems
<1>3. CASE MarkItem(w)
  <2> DEFINE i == treq[w].item
             row == [items[i] EXCEPT !.done = treq[w].done]
  <2>1. i \in LiveItems /\ treq[w].done \in BOOLEAN /\ i \in Items
    BY <1>3, RequestKinds DEF MarkItem, LiveItems
  <2>2. items' = [items EXCEPT ![i] = row]
    BY <1>3 DEF MarkItem
  <2>3. row \in ItemRow /\ row.task = items[i].task
    BY <1>0, <2>1, GoneRows
  <2> QED BY <1>1, <1>2, <2>1, <2>2, <2>3
<1>4. CASE DropItem(w)
  <2> DEFINE i == treq[w].item
             row == [items[i] EXCEPT !.state = "gone"]
  <2>1. i \in LiveItems /\ i \in Items
    BY <1>4 DEF DropItem, LiveItems
  <2>2. items' = [items EXCEPT ![i] = row]
    BY <1>4 DEF DropItem
  <2>3. row \in ItemRow /\ row.state = "gone"
    BY <1>0, <2>1, GoneRows
  <2> QED BY <1>1, <1>2, <2>1, <2>2, <2>3
<1>5. ASSUME NEW i \in Items, AddItem(w, i) PROVE items' \in [Items -> ItemRows] /\
             \A j \in LiveItems' : \/ j \in LiveItems /\ items'[j].task = items[j].task
                                   \/ items'[j].task \in LiveTasks
  <2> DEFINE row == [state |-> "live", task |-> treq[w].task, done |-> FALSE]
  <2>1. treq[w].task \in LiveTasks /\ treq[w].task \in Tasks
    BY <1>5 DEF AddItem, TasksThere, LiveTasks
  <2>2. items' = [items EXCEPT ![i] = row]
    BY <1>5 DEF AddItem
  <2>3. row \in ItemRow /\ row.task = treq[w].task
    BY <2>1 DEF ItemRow
  <2>4. row.state = "live" => row.task \in LiveTasks \/ (i \in LiveItems /\ row.task = items[i].task)
    BY <2>1, <2>3
  <2> HIDE DEF row
  <2> QED BY <1>2, <2>2, <2>3, <2>4
<1> QED BY <1>1, <1>3, <1>4, <1>5

-----------------------------------------------------------------------------
(* Every row has its tasks, whatever requests are in flight *)

\* What a handler reads and what it decides on leave the rows alone.
LEMMA ReadsWriteNothing ==
    ASSUME NEW w \in WorkSlots, WorkArrive(w) \/ WorkAbort(w) \/ MayStart(w)
    PROVE  UNCHANGED <<tasks, links, lreq, items>>
<1>1. ASSUME NEW q, Ask(w, q) PROVE UNCHANGED <<tasks, links, lreq, items>>
  BY <1>1 DEF Ask
<1>2. CASE WorkAbort(w) \/ MayStart(w)
  BY <1>2 DEF WorkAbort, MayStart
<1>3. ASSUME NEW t \in Tasks, NEW s, NEW who, NEW photos, UpdateRead(w, t, s, who, photos)
      PROVE  UNCHANGED <<tasks, links, lreq, items>>
  BY <1>1, <1>3 DEF UpdateRead
<1>4. ASSUME NEW t \in Tasks, NEW u, NEW P,
             \/ CheckInRead(w, t, u) \/ AssignRead(w, t, u) \/ CheckOutRead(w, t, u, P)
             \/ UploadRead(w, t, u, P)
      PROVE  UNCHANGED <<tasks, links, lreq, items>>
  BY <1>1, <1>4 DEF CheckInRead, AssignRead, CheckOutRead, UploadRead
<1>5. ASSUME NEW t \in Tasks, DuplicateRead(w, t) \/ RemoveRead(w, t) \/ AddItemRead(w, t)
      PROVE  UNCHANGED <<tasks, links, lreq, items>>
  BY <1>1, <1>5 DEF DuplicateRead, RemoveRead, AddItemRead
<1>6. ASSUME NEW i \in Items, NEW u, NEW b, DropItemRead(w, i) \/ MarkItemRead(w, i, u, b)
      PROVE  UNCHANGED <<tasks, links, lreq, items>>
  BY <1>1, <1>6 DEF DropItemRead, MarkItemRead
<1>7. ASSUME NEW deps, NEW who, NEW n, CreateRead(w, deps, who, n)
      PROVE  UNCHANGED <<tasks, links, lreq, items>>
  BY <1>1, <1>7 DEF CreateRead
<1> QED BY <1>2, <1>3, <1>4, <1>5, <1>6, <1>7 DEF WorkArrive

\* Every step of every request keeps the kinds of the rows and requests.
LEMMA WorkTypingKept ==
    ASSUME WorkTypeOK, WorkNext
    PROVE  WorkTypeOK'
<1>0. RequestsTyped /\ RowsTyped /\ LinkTypeOK
  BY DEF WorkTypeOK, RequestsTyped, RowsTyped, ItemRows, LinkTypeOK, TaskDbTypeOK
<1>1. CASE LinkNext /\ UNCHANGED <<items, treq>>
  BY <1>1, LinkTypingKept DEF WorkTypeOK
<1>2. ASSUME NEW w \in WorkSlots, WorkArrive(w) \/ WorkStep(w) \/ WorkAbort(w)
      PROVE  WorkTypeOK'
  <2>1. RequestsTyped'
    BY <1>0, <1>2, RequestsKept
  <2>2. RowsTyped' /\ lreq' = lreq
    <3>1. CASE WorkArrive(w) \/ WorkAbort(w) \/ MayStart(w)
      BY <1>0, <3>1, ReadsWriteNothing DEF RowsTyped
    <3>2. ASSUME NEW t \in Tasks, NEW I \in SUBSET FreshItems, NEW R \in SUBSET FreshLinks,
                 CreateCommit(w, t, I, R)
          PROVE  RowsTyped' /\ lreq' = lreq
      <4>1. Created(w, t, I, R)
        BY <1>0, <3>2, CreatedRows
      <4> QED BY <3>2, <4>1 DEF RowsTyped, CreateCommit, Created
    <3>4. CASE WriteTask(w)
      BY <1>0, <3>4, ChangedRows DEF RowsTyped
    <3>5. CASE RemoveCommit(w)
      BY <1>0, <3>5, RemovedRows DEF RowsTyped, RemoveCommit
    <3>6. CASE MarkItem(w) \/ DropItem(w) \/ \E i \in Items : AddItem(w, i)
      BY <1>0, <3>6, ItemSteps DEF RowsTyped
    <3> QED BY <1>2, <3>1, <3>2, <3>4, <3>5, <3>6 DEF WorkStep
  <2> QED BY <1>0, <2>1, <2>2 DEF WorkTypeOK, RequestsTyped, RowsTyped, ItemRows, LinkTypeOK, TaskDbTypeOK
<1> QED BY <1>1, <1>2 DEF WorkNext

\* What dependency requests do leaves every row with its tasks: an insert needs both.
LEMMA LinkRowsHaveTasks ==
    ASSUME WorkInv, LinkNext, UNCHANGED <<items, treq>>
    PROVE  RowsHaveTasks'
<1>0. links \in [Links -> LinkRow \cup {NoLink}] /\ RowsHaveTasks
  BY DEF WorkInv, WorkTypeOK, LinkTypeOK, TaskDbTypeOK
<1>1. CASE UNCHANGED <<tasks, links>>
  BY <1>0, <1>1 DEF RowsHaveTasks, LiveLinks, LiveItems, LiveTasks
<1>2. ASSUME NEW r \in LinkSlots, NEW l \in Links, Insert(r, l) PROVE RowsHaveTasks'
  <2> DEFINE row == [state |-> "live", from |-> lreq[r].from, on |-> lreq[r].on, type |-> lreq[r].type]
  <2>1. {row.from, row.on} \subseteq LiveTasks /\ links' = [links EXCEPT ![l] = row] /\ tasks' = tasks
    BY <1>2 DEF Insert
  <2>2. links'[l] = row /\ \A m \in Links : m # l => links'[m] = links[m]
    BY <1>0, <2>1
  <2>3. ASSUME NEW m \in LiveLinks' PROVE {links'[m].from, links'[m].on} \subseteq LiveTasks
    BY <1>0, <2>1, <2>2, <2>3 DEF RowsHaveTasks, LiveLinks
  <2> QED BY <1>0, <2>1, <2>3 DEF RowsHaveTasks, LiveItems, LiveTasks
<1>3. ASSUME NEW l \in Links, RemoveLink(l) PROVE RowsHaveTasks'
  <2>1. LiveLinks' \subseteq LiveLinks /\ (\A m \in LiveLinks' : links'[m] = links[m]) /\ tasks' = tasks
    BY <1>0, <1>3, NeedsAfterRemove DEF RemoveLink
  <2> QED BY <1>0, <2>1 DEF RowsHaveTasks, LiveItems, LiveTasks
<1> QED BY <1>1, <1>2, <1>3 DEF LinkNext, LinkProgress, AddRead, Visit, NoCycleFound, LookForExisting, LinkAbort

\* What the tasks' requests do leaves every row with its tasks: new rows are of tasks that
\* are there, and a task goes with its own rows, unless rows of others hold it.
LEMMA WorkRowsHaveTasks ==
    ASSUME WorkInv, NEW w \in WorkSlots, WorkArrive(w) \/ WorkStep(w) \/ WorkAbort(w)
    PROVE  RowsHaveTasks'
<1>0. /\ RequestsTyped /\ RowsTyped /\ RowsHaveTasks
      /\ \A l \in LiveLinks : links[l] \in LinkRow
      /\ \A i \in LiveItems : items[i] \in ItemRow
  BY LiveRows DEF WorkInv, WorkTypeOK, RequestsTyped, RowsTyped, ItemRows, LinkTypeOK, TaskDbTypeOK
<1>1. CASE WorkArrive(w) \/ WorkAbort(w) \/ MayStart(w)
  <2>1. UNCHANGED <<tasks, links, items>>
    BY <1>1, ReadsWriteNothing
  <2> QED BY <1>0, <2>1 DEF RowsHaveTasks, LiveLinks, LiveItems, LiveTasks
<1>2. ASSUME NEW t \in Tasks, NEW I \in SUBSET FreshItems, NEW R \in SUBSET FreshLinks,
             CreateCommit(w, t, I, R)
      PROVE  RowsHaveTasks'
  <2> DEFINE deps == treq[w].deps
  <2>0. Created(w, t, I, R)
    BY <1>0, <1>2, CreatedRows
  <2>5. /\ tasks[t].status = "fresh" /\ tasks'[t].status = "pending"
        /\ \A u \in Tasks : u # t => tasks'[u] = tasks[u]
    BY <2>0 DEF Created
  <2>6. (\A i \in I : items'[i].task = t) /\ \A i \in Items : i \notin I => items'[i] = items[i]
    BY <2>0 DEF Created
  <2>7. /\ \A l \in Links : l \notin R => links'[l] = links[l]
        /\ \A l \in R : links'[l].state = "live" /\ links'[l].from = t /\ links'[l].on \in deps
        /\ deps \subseteq LiveTasks
    BY <2>0 DEF Created
  <2> HIDE DEF deps
  <2>1. LiveTasks \subseteq LiveTasks' /\ t \in LiveTasks'
    BY <2>5 DEF LiveTasks, TaskStatus
  <2>2. ASSUME NEW l \in LiveLinks' PROVE {links'[l].from, links'[l].on} \subseteq LiveTasks'
    <3>1. CASE l \in R
      BY <2>7, <2>1, <3>1
    <3>2. CASE l \notin R
      BY <1>0, <2>7, <2>1, <3>2 DEF RowsHaveTasks, LiveLinks
    <3> QED BY <3>1, <3>2
  <2>3. ASSUME NEW i \in LiveItems' PROVE items'[i].task \in LiveTasks'
    <3>1. CASE i \in I
      BY <2>6, <2>1, <3>1
    <3>2. CASE i \notin I
      BY <1>0, <2>6, <2>1, <3>2 DEF RowsHaveTasks, LiveItems
    <3> QED BY <3>1, <3>2
  <2> QED BY <2>2, <2>3 DEF RowsHaveTasks
<1>3. CASE WriteTask(w)
  <2>1. /\ treq[w].task \in LiveTasks /\ tasks'[treq[w].task].status \in TaskStatus
        /\ \A u \in Tasks : u # treq[w].task => tasks'[u] = tasks[u]
        /\ UNCHANGED <<links, items>>
    BY <1>0, <1>3, ChangedRows
  <2>2. LiveTasks \subseteq LiveTasks'
    BY <2>1 DEF LiveTasks
  <2> QED BY <1>0, <2>1, <2>2 DEF RowsHaveTasks, LiveLinks, LiveItems
<1>4. CASE RemoveCommit(w)
  <2> DEFINE t == treq[w].task
  <2>1. /\ \A u \in Tasks : u # t => tasks'[u] = tasks[u]
        /\ \A l \in LiveLinks' : l \in LiveLinks /\ links'[l] = links[l] /\ links[l].from # t /\ links[l].on # t
        /\ \A i \in LiveItems' : i \in LiveItems /\ items'[i] = items[i] /\ items[i].task # t
    BY <1>0, <1>4, RemovedRows
  <2>2. \A u \in LiveTasks : u # t => u \in LiveTasks'
    BY <2>1 DEF LiveTasks
  <2> HIDE DEF t
  <2> QED BY <1>0, <2>1, <2>2 DEF RowsHaveTasks
<1>5. CASE MarkItem(w) \/ DropItem(w) \/ \E i \in Items : AddItem(w, i)
  <2>1. /\ UNCHANGED <<tasks, links>>
        /\ \A i \in LiveItems' : \/ i \in LiveItems /\ items'[i].task = items[i].task
                                 \/ items'[i].task \in LiveTasks
    BY <1>0, <1>5, ItemSteps
  <2> QED BY <1>0, <2>1 DEF RowsHaveTasks, LiveLinks, LiveTasks
<1> QED BY <1>1, <1>2, <1>3, <1>4, <1>5 DEF WorkStep

\* Rows and requests are well formed and every row has its tasks, from the first state on.
LEMMA WorkInvariant == WorkSpec => []WorkInv
<1>1. WorkInit => WorkInv
  <2> SUFFICES ASSUME WorkInit PROVE WorkInv
    OBVIOUS
  <2>1. PICK T \in SUBSET Tasks :
           tasks = [t \in Tasks |-> IF t \in T THEN [NoTask EXCEPT !.status = "pending"] ELSE NoTask]
    BY DEF WorkInit
  <2>2. NoTask \in TaskRow /\ [NoTask EXCEPT !.status = "pending"] \in TaskRow
    BY DEF NoTask, TaskRow, TaskStatus
  <2>3. tasks \in [Tasks -> TaskRow]
    BY <2>1, <2>2
  <2>4. LiveLinks = {} /\ LiveItems = {}
    BY DEF WorkInit, LiveLinks, LiveItems, NoLink, NoItem
  <2> QED BY <2>3, <2>4 DEF WorkInit, WorkInv, WorkTypeOK, LinkTypeOK, TaskDbTypeOK, RowsHaveTasks
<1>2. WorkInv /\ [WorkNext]_wvars => WorkInv'
  <2> SUFFICES ASSUME WorkInv, [WorkNext]_wvars PROVE WorkInv'
    OBVIOUS
  <2>1. CASE WorkNext
    BY <2>1, WorkTypingKept, LinkRowsHaveTasks, WorkRowsHaveTasks DEF WorkNext, WorkInv
  <2>2. CASE UNCHANGED wvars
    BY <2>2 DEF wvars, WorkInv, WorkTypeOK, LinkTypeOK, TaskDbTypeOK, RowsHaveTasks, LiveLinks,
          LiveItems, LiveTasks
  <2> QED BY <2>1, <2>2
<1> QED BY <1>1, <1>2, PTL DEF WorkSpec

\* However removals race with new dependencies, new items and new tasks, no dependency and no
\* checklist item refers to a task that is gone.
THEOREM RowsKeepTheirTasks == WorkSpec => []RowsHaveTasks
<1>1. WorkInv => RowsHaveTasks
  BY DEF WorkInv
<1> QED BY <1>1, WorkInvariant, PTL

\* On every graph that created, duplicated and removed tasks leave together with racing additions,
\* the order of execution is right or the cycle is reported.
THEOREM OrdersStayRight == WorkSpec => []OrderOrCycle
<1>1. WorkInv => OrderOrCycle
  BY KahnIsRight DEF WorkInv, WorkTypeOK, LinkTypeOK, TaskDbTypeOK, OrderOrCycle
<1> QED BY <1>1, WorkInvariant, PTL

-----------------------------------------------------------------------------
(* What the handlers keep when one request of these services is in flight at most *)

\* What comes in: a request in the idle slot, about what its handler has read.
LEMMA ArrivalStands ==
    ASSUME RequestsTyped, RowsTyped, NEW w \in WorkSlots, WorkArrive(w)
    PROVE  /\ treq[w].pc = "idle" /\ UNCHANGED <<tasks, links, lreq, items>>
           /\ \A v \in WorkSlots : v # w => treq'[v] = treq[v]
           /\ treq'[w].pc \in {"deps", "write"} => ChangeStands(treq'[w])
           /\ treq'[w].pc = "remove" => tasks[treq'[w].task].status \notin {"in_progress", "completed"}
           /\ treq'[w].pc = "write" => treq'[w].status # "in_progress"
<1> DEFINE Fits(q) == /\ q.pc \in {"deps", "write"} => ChangeStands(q)
                      /\ q.pc = "remove" => tasks[q.task].status \notin {"in_progress", "completed"}
                      /\ q.pc = "write" => q.status # "in_progress"
           Goal == /\ treq[w].pc = "idle" /\ UNCHANGED <<tasks, links, lreq, items>>
                   /\ \A v \in WorkSlots : v # w => treq'[v] = treq[v]
                   /\ Fits(treq'[w])
<1>1. ASSUME NEW q, Ask(w, q), Fits(q) PROVE Goal
  <2>1. treq'[w] = q
    BY <1>1 DEF Ask, RequestsTyped
  <2> HIDE DEF Fits
  <2> QED BY <1>1, <2>1 DEF Ask, RequestsTyped
<1>2. ASSUME NEW deps, NEW who, NEW n, CreateRead(w, deps, who, n) PROVE Goal
  <2>1. Fits([pc |-> "create", deps |-> deps, who |-> who, count |-> n])
    OBVIOUS
  <2> HIDE DEF Goal, Fits
  <2> QED BY <1>1, <1>2, <2>1 DEF CreateRead
<1>3. ASSUME NEW t \in Tasks, DuplicateRead(w, t) \/ RemoveRead(w, t) \/ AddItemRead(w, t) PROVE Goal
  <2>1. \A n : Fits([pc |-> "create", deps |-> {}, who |-> "nobody", count |-> n])
    OBVIOUS
  <2>2. Fits([pc |-> "add", task |-> t])
    OBVIOUS
  <2>3. tasks[t].status \notin {"in_progress", "completed"} => Fits([pc |-> "remove", task |-> t])
    OBVIOUS
  <2> HIDE DEF Goal, Fits
  <2> QED BY <1>1, <1>3, <2>1, <2>2, <2>3 DEF DuplicateRead, RemoveRead, AddItemRead
<1>4. ASSUME NEW i \in Items, NEW u, NEW b, DropItemRead(w, i) \/ MarkItemRead(w, i, u, b) PROVE Goal
  <2>1. Fits([pc |-> "mark", item |-> i, done |-> b]) /\ Fits([pc |-> "drop", item |-> i])
    OBVIOUS
  <2> HIDE DEF Goal, Fits
  <2> QED BY <1>1, <1>4, <2>1 DEF DropItemRead, MarkItemRead
<1>5. ASSUME NEW t \in Tasks, NEW s \in TaskStatus \cup {"keep"}, NEW who, NEW photos,
             UpdateRead(w, t, s, who, photos)
      PROVE  Goal
  <2>1. s # "keep" => s \in Allowed(tasks[t].status)
    BY <1>5 DEF UpdateRead
  <2>2. /\ s = "in_progress" => Fits(Change("deps", "update", t, s, who, photos))
        /\ s # "in_progress" => Fits(Change("write", "update", t, s, who, photos))
    BY <2>1 DEF ChangeStands, Change
  <2> HIDE DEF Goal, Fits
  <2> QED BY <1>1, <1>5, <2>2 DEF UpdateRead
<1>6. ASSUME NEW t \in Tasks, NEW u, NEW P,
             \/ CheckInRead(w, t, u) \/ AssignRead(w, t, u) \/ CheckOutRead(w, t, u, P)
             \/ UploadRead(w, t, u, P)
      PROVE  Goal
  <2>1. tasks[t].status = "assigned" => Fits(Change("deps", "checkin", t, "in_progress", "keep", {}))
    BY DEF ChangeStands, Change, Allowed
  <2>2. tasks[t].status = "pending" => Fits(Change("write", "assign", t, "assigned", u, {}))
    BY DEF ChangeStands, Change, Allowed
  <2>3. tasks[t].status = "in_progress" => Fits(Change("write", "checkout", t, "completed", "keep", {P}))
    BY DEF ChangeStands, Change, Allowed
  <2>4. Fits(Change("write", "upload", t, "keep", "keep", {PhotosWith(t, P)}))
    BY DEF ChangeStands, Change
  <2> HIDE DEF Goal, Fits
  <2> QED BY <1>1, <1>6, <2>1, <2>2, <2>3, <2>4 DEF CheckInRead, AssignRead, CheckOutRead, UploadRead
<1> HIDE DEF Fits
<1>7. Goal
  <2> HIDE DEF Goal
  <2> QED BY <1>2, <1>3, <1>4, <1>5, <1>6 DEF WorkArrive
<1> QED BY <1>7 DEF Fits

\* Steps that write answer their request.
LEMMA WritesAnswer ==
    ASSUME RequestsTyped, NEW w \in WorkSlots, WorkStep(w), ~MayStart(w)
    PROVE  treq' = [treq EXCEPT ![w] = Quiet] /\ treq'[w] = Quiet
BY DEF RequestsTyped, WorkStep, CreateCommit, WriteTask, RemoveCommit, AddItem, MarkItem, DropItem, Answer

\* Adding and removing dependencies changes no task.
LEMMA LinksLeaveTasks == LinkNext => tasks' = tasks
BY DEF LinkNext, LinkProgress, AddRead, Visit, NoCycleFound, LookForExisting, Insert, LinkAbort, RemoveLink

\* With one request at a time, what it decided still stands when it writes.
LEMMA SerialStepKeeps ==
    ASSUME SerialInv, \A v, w \in WorkSlots : v = w, [WorkNext]_wvars
    PROVE  SerialInv'
<1> DEFINE Stands(w) == /\ treq[w].pc \in {"deps", "write"} => ChangeStands(treq[w])
                        /\ treq[w].pc = "remove" =>
                              tasks[treq[w].task].status \notin {"in_progress", "completed"}
<1>0. WorkTypeOK /\ RequestsTyped /\ RowsTyped /\ \A w \in WorkSlots : Stands(w)
  BY DEF SerialInv, WorkTypeOK, RequestsTyped, RowsTyped, ItemRows, LinkTypeOK, TaskDbTypeOK
<1>1. ASSUME UNCHANGED <<tasks, treq>> PROVE \A w \in WorkSlots : Stands(w)'
  BY <1>0, <1>1 DEF ChangeStands
<1>2. WorkTypeOK'
  <2>1. CASE WorkNext
    BY <1>0, <2>1, WorkTypingKept
  <2>2. CASE UNCHANGED wvars
    BY <1>0, <2>2 DEF wvars, WorkTypeOK, LinkTypeOK, TaskDbTypeOK
  <2> QED BY <2>1, <2>2
<1>3. ASSUME NEW w \in WorkSlots, WorkArrive(w) PROVE Stands(w)'
  BY <1>0, <1>3, ArrivalStands DEF ChangeStands
<1>4. ASSUME NEW w \in WorkSlots, MayStart(w) PROVE Stands(w)'
  <2> DEFINE q == treq[w]
  <2>1. q \in ChangeReq /\ q.pc = "deps" /\ ChangeStands(q)
    BY <1>0, <1>4, RequestKinds DEF MayStart
  <2>2. treq'[w] = [q EXCEPT !.pc = "write"] /\ tasks' = tasks
    BY <1>0, <1>4 DEF MayStart, RequestsTyped
  <2>3. /\ treq'[w].pc = "write" /\ treq'[w].op = q.op /\ treq'[w].status = q.status
        /\ treq'[w].task = q.task
    BY <2>1, <2>2 DEF ChangeReq
  <2> HIDE DEF q
  <2> QED BY <2>1, <2>2, <2>3 DEF ChangeStands
<1>5. ASSUME NEW w \in WorkSlots, (WorkStep(w) /\ ~MayStart(w)) \/ WorkAbort(w) PROVE Stands(w)'
  BY <1>0, <1>5, WritesAnswer DEF WorkAbort, Answer, Quiet, RequestsTyped
<1>6. \A w \in WorkSlots : Stands(w)'
  <2>1. CASE UNCHANGED wvars
    BY <1>1, <2>1 DEF wvars
  <2>2. CASE LinkNext /\ UNCHANGED <<items, treq>>
    <3>1. tasks' = tasks
      BY <2>2, LinksLeaveTasks
    <3> QED BY <1>1, <2>2, <3>1
  <2>3. CASE \E w \in WorkSlots : WorkArrive(w) \/ WorkStep(w) \/ WorkAbort(w)
    <3>1. PICK w \in WorkSlots : WorkArrive(w) \/ WorkStep(w) \/ WorkAbort(w)
      BY <2>3
    <3>2. Stands(w)'
      <4> HIDE DEF Stands
      <4> QED BY <1>3, <1>4, <1>5, <3>1
    <3> QED BY <3>2
  <2> QED BY <2>1, <2>2, <2>3 DEF WorkNext
<1> QED BY <1>2, <1>6 DEF SerialInv

\* No request is in flight at first.
LEMMA SerialInvariant ==
    ASSUME \A v, w \in WorkSlots : v = w
    PROVE  WorkSpec => []SerialInv
<1>1. WorkInit => \A w \in WorkSlots : treq[w] = Quiet
  BY DEF WorkInit
<1>2. (\A w \in WorkSlots : treq[w] = Quiet) /\ WorkTypeOK => SerialInv
  BY DEF SerialInv, Quiet
<1>3. WorkInv => WorkTypeOK
  BY DEF WorkInv
<1>4. SerialInv /\ [WorkNext]_wvars => SerialInv'
  BY SerialStepKeeps
<1> QED BY <1>1, <1>2, <1>3, <1>4, WorkInvariant, PTL DEF WorkSpec

\* What a step does to one task when its request's decision stands: a new task gets its
\* first status, a live one a status that follows its own, and one that may be removed goes.
LEMMA TaskMoves ==
    ASSUME SerialInv, \A v, w \in WorkSlots : v = w, [WorkNext]_wvars, NEW t \in Tasks
    PROVE  \/ tasks'[t] = tasks[t]
           \/ tasks[t].status = "fresh"
           \/ /\ tasks[t].status \in TaskStatus
              /\ tasks'[t].status \in Allowed(tasks[t].status) \cup {tasks[t].status}
           \/ tasks[t].status \notin {"in_progress", "completed"} /\ tasks'[t].status = "deleted"
<1>0. WorkTypeOK /\ RequestsTyped /\ RowsTyped
  BY DEF SerialInv, WorkTypeOK, RequestsTyped, RowsTyped, ItemRows, LinkTypeOK, TaskDbTypeOK
<1>1. CASE tasks' = tasks
  BY <1>1
<1>2. ASSUME NEW w \in WorkSlots, NEW u \in Tasks, NEW I \in SUBSET FreshItems,
             NEW R \in SUBSET FreshLinks, CreateCommit(w, u, I, R), tasks'[t] # tasks[t]
      PROVE  tasks[t].status = "fresh"
  <2>1. Created(w, u, I, R)
    BY <1>0, <1>2, CreatedRows
  <2> QED BY <1>2, <2>1 DEF Created
<1>3. ASSUME NEW w \in WorkSlots, WriteTask(w), tasks'[t] # tasks[t]
      PROVE  /\ tasks[t].status \in TaskStatus
             /\ tasks'[t].status \in Allowed(tasks[t].status) \cup {tasks[t].status}
  <2> DEFINE q == treq[w]
  <2>1. /\ t = q.task /\ q \in ChangeReq /\ tasks'[t] = Written(tasks[t], q)
        /\ tasks[t].status \in TaskStatus
    BY <1>0, <1>3, ChangedRows DEF LiveTasks
  <2>2. q.status # "keep" => q.status \in Allowed(tasks[t].status)
    BY <1>3, <2>1 DEF SerialInv, ChangeStands, WriteTask
  <2>3. tasks'[t].status = IF q.status = "keep" THEN tasks[t].status ELSE q.status
    BY <2>1 DEF Written
  <2> QED BY <2>1, <2>2, <2>3
<1>4. ASSUME NEW w \in WorkSlots, RemoveCommit(w), tasks'[t] # tasks[t]
      PROVE  tasks[t].status \notin {"in_progress", "completed"} /\ tasks'[t].status = "deleted"
  <2>1. t = treq[w].task /\ treq[w].pc = "remove" /\ tasks'[t].status = "deleted"
    BY <1>0, <1>4, RemovedRows
  <2> QED BY <2>1 DEF SerialInv
<1>5. ASSUME NEW w \in WorkSlots,
             WorkArrive(w) \/ WorkAbort(w) \/ MayStart(w) \/ MarkItem(w) \/ DropItem(w) \/ \E i \in Items : AddItem(w, i)
      PROVE  tasks' = tasks
  BY <1>0, <1>5, ReadsWriteNothing, ItemSteps
<1>6. CASE UNCHANGED wvars \/ LinkNext
  BY <1>6, LinksLeaveTasks DEF wvars
<1> QED BY <1>1, <1>2, <1>3, <1>4, <1>5, <1>6 DEF WorkNext, WorkStep

\* When the requests for tasks come one after another, a completed task stays completed, a
\* cancelled one is removed at most, and one in progress is not removed.
THEOREM FinishedTasksStay ==
    ASSUME \A v, w \in WorkSlots : v = w
    PROVE  WorkSpec => FinishedTaskStays
<1>1. SerialInv /\ [WorkNext]_wvars => \A t \in Tasks :
          /\ tasks[t].status = "completed" => tasks'[t].status = "completed"
          /\ tasks[t].status = "cancelled" => tasks'[t].status \in {"cancelled", "deleted"}
          /\ tasks[t].status = "in_progress" => tasks'[t].status # "deleted"
  <2> SUFFICES ASSUME SerialInv, [WorkNext]_wvars, NEW t \in Tasks
               PROVE  /\ tasks[t].status = "completed" => tasks'[t].status = "completed"
                      /\ tasks[t].status = "cancelled" => tasks'[t].status \in {"cancelled", "deleted"}
                      /\ tasks[t].status = "in_progress" => tasks'[t].status # "deleted"
    OBVIOUS
  <2> QED BY TaskMoves DEF Allowed
<1> QED BY <1>1, SerialInvariant, PTL DEF WorkSpec, FinishedTaskStays

\* A request cleared to start its task finds what the task depends on done, as long as nothing
\* adds dependencies meanwhile.
LEMMA StartStepKeeps ==
    ASSUME WorkTypeOK, StartInv, \A v, w \in WorkSlots : v = w, LinkSlots = {}, [WorkNext]_wvars
    PROVE  StartInv'
<1> DEFINE Cleared(w) == treq[w].pc = "write" /\ treq[w].status = "in_progress" => DependenciesDone(treq[w].task)
<1>0. RequestsTyped /\ RowsTyped /\ \A w \in WorkSlots : Cleared(w)
  BY DEF StartInv, WorkTypeOK, RequestsTyped, RowsTyped, ItemRows, LinkTypeOK, TaskDbTypeOK
<1>1. ASSUME UNCHANGED <<tasks, treq>>, LiveLinks' \subseteq LiveLinks, \A l \in LiveLinks' : links'[l] = links[l]
      PROVE  \A w \in WorkSlots : Cleared(w)'
  BY <1>0, <1>1 DEF DependenciesDone, LinksFrom
<1>2. CASE UNCHANGED wvars
  <2>1. \A w \in WorkSlots : Cleared(w)'
    BY <1>1, <1>2 DEF wvars, LiveLinks
  <2> QED BY <2>1 DEF StartInv
<1>3. CASE LinkNext /\ UNCHANGED <<items, treq>>
  <2>1. PICK l \in Links : RemoveLink(l)
    BY <1>3 DEF LinkNext
  <2>2. LiveLinks' \subseteq LiveLinks /\ (\A m \in LiveLinks' : links'[m] = links[m]) /\ tasks' = tasks
    BY <1>0, <2>1, NeedsAfterRemove DEF RemoveLink, RowsTyped
  <2>3. \A w \in WorkSlots : Cleared(w)'
    <3> HIDE DEF Cleared
    <3> QED BY <1>1, <1>3, <2>2
  <2> QED BY <2>3 DEF StartInv
<1>4. ASSUME NEW w \in WorkSlots, WorkArrive(w) \/ WorkStep(w) \/ WorkAbort(w) PROVE Cleared(w)'
  <2>1. CASE WorkArrive(w)
    BY <1>0, <2>1, ArrivalStands
  <2>2. CASE MayStart(w)
    <3> DEFINE q == treq[w]
    <3>1. q \in ChangeReq /\ ~ \E l \in LinksFrom(q.task) : WaitsFor(l)
      BY <1>0, <2>2, RequestKinds DEF MayStart
    <3>2. treq'[w] = [q EXCEPT !.pc = "write"] /\ UNCHANGED <<tasks, links>>
      BY <1>0, <2>2 DEF MayStart, RequestsTyped
    <3>3. treq'[w].task = q.task
      BY <3>1, <3>2 DEF ChangeReq
    <3> HIDE DEF q
    <3> QED BY <3>1, <3>2, <3>3 DEF DependenciesDone, WaitsFor, LinksFrom, LiveLinks
  <2>3. CASE (WorkStep(w) /\ ~MayStart(w)) \/ WorkAbort(w)
    <3>1. treq'[w] = Quiet
      BY <1>0, <2>3, WritesAnswer DEF WorkAbort, Answer, RequestsTyped
    <3> QED BY <3>1 DEF Quiet
  <2> QED BY <1>4, <2>1, <2>2, <2>3
<1>5. CASE \E w \in WorkSlots : WorkArrive(w) \/ WorkStep(w) \/ WorkAbort(w)
  <2>1. PICK w \in WorkSlots : WorkArrive(w) \/ WorkStep(w) \/ WorkAbort(w)
    BY <1>5
  <2>2. Cleared(w)'
    <3> HIDE DEF Cleared
    <3> QED BY <1>4, <2>1
  <2> QED BY <2>2 DEF StartInv
<1> QED BY <1>2, <1>3, <1>5 DEF WorkNext

\* When the requests for tasks come one after another and none adds a dependency, a task is
\* started only while every task it is to be started after is completed.
THEOREM StartsFollowDependencies ==
    ASSUME \A v, w \in WorkSlots : v = w, LinkSlots = {}
    PROVE  WorkSpec => StartsAfterDependencies
<1>1. WorkInit => StartInv
  BY DEF WorkInit, StartInv, Quiet
<1>2. WorkInv => WorkTypeOK
  BY DEF WorkInv
<1>3. WorkTypeOK /\ StartInv /\ [WorkNext]_wvars => StartInv'
  BY StartStepKeeps
<1>4. WorkTypeOK /\ SerialInv /\ StartInv /\ [WorkNext]_wvars => \A t \in Tasks : Starts(t) =>
          \A l \in LinksFrom(t) :
              links[l].type = "finish_to_start" => tasks[links[l].on].status = "completed"
  <2> SUFFICES ASSUME WorkTypeOK, SerialInv, StartInv, [WorkNext]_wvars, NEW t \in Tasks, Starts(t)
               PROVE  DependenciesDone(t)
    BY DEF DependenciesDone
  <2>0. RequestsTyped /\ RowsTyped
    BY DEF WorkTypeOK, RequestsTyped, RowsTyped, ItemRows, LinkTypeOK, TaskDbTypeOK
  <2>1. ASSUME NEW w \in WorkSlots, WriteTask(w) PROVE DependenciesDone(t)
    <3> DEFINE q == treq[w]
    <3>1. t = q.task /\ tasks'[t] = Written(tasks[t], q)
      BY <2>0, <2>1, ChangedRows DEF Starts
    <3>2. q.status = "in_progress"
      BY <3>1 DEF Written, Starts
    <3> QED BY <2>1, <3>1, <3>2 DEF StartInv, WriteTask
  <2>2. ASSUME NEW w \in WorkSlots, NEW u \in Tasks, NEW I \in SUBSET FreshItems,
               NEW R \in SUBSET FreshLinks, CreateCommit(w, u, I, R)
        PROVE  FALSE
    <3>1. Created(w, u, I, R)
      BY <2>0, <2>2, CreatedRows
    <3> QED BY <3>1 DEF Created, Starts
  <2>3. ASSUME NEW w \in WorkSlots, RemoveCommit(w) PROVE FALSE
    <3>1. /\ \A u \in Tasks : u # treq[w].task => tasks'[u] = tasks[u]
          /\ tasks'[treq[w].task].status = "deleted"
      BY <2>0, <2>3, RemovedRows
    <3> QED BY <3>1 DEF Starts
  <2>4. ASSUME NEW w \in WorkSlots,
               \/ WorkArrive(w) \/ WorkAbort(w) \/ MayStart(w) \/ MarkItem(w) \/ DropItem(w)
               \/ \E i \in Items : AddItem(w, i)
        PROVE  FALSE
    BY <2>0, <2>4, ReadsWriteNothing, ItemSteps DEF Starts
  <2>5. ASSUME UNCHANGED wvars \/ LinkNext PROVE FALSE
    BY <2>5, LinksLeaveTasks DEF wvars, Starts
  <2> QED BY <2>1, <2>2, <2>3, <2>4, <2>5 DEF WorkNext, WorkStep
<1> QED BY <1>1, <1>2, <1>3, <1>4, WorkInvariant, SerialInvariant, PTL DEF WorkSpec, StartsAfterDependencies

-----------------------------------------------------------------------------
(* One dependency request at a time keeps the graph acyclic, whatever else is in flight *)

\* Rows that go away spoil neither the graph nor a search.
LEMMA FewerRowsKeep ==
    ASSUME LinkInv, lreq' = lreq, links' \in [Links -> LinkRow \cup {NoLink}],
           LiveLinks' \subseteq LiveLinks, \A l \in LiveLinks' : links'[l] = links[l]
    PROVE  LinkInv'
<1>1. \A t \in Tasks : Needs(t)' \subseteq Needs(t)
  BY DEF Needs, LinksFrom
<1>2. Acyclic'
  BY <1>1 DEF LinkInv, Acyclic
<1>3. SingleLinks'
  BY DEF LinkInv, SingleLinks
<1>4. ASSUME NEW r \in LinkSlots, lreq[r] # Quiet PROVE SearchSound(lreq[r])'
  <2> DEFINE q == lreq[r]
  <2>1. SearchSound(q) /\ q \in AddReq
    BY <1>4 DEF LinkInv, SearchSound
  <2>2. q.from \in Tasks /\ q.seen \subseteq Tasks
    BY <2>1 DEF AddReq
  <2>3. \A t \in q.seen : Needs(t)' \subseteq q.seen \cup q.todo
    BY <1>1, <2>1, <2>2 DEF SearchSound
  <2>4. q.pc = "insert" => q.on \notin Needs(q.from)'
    BY <1>1, <2>1, <2>2 DEF SearchSound, Exists
  <2>5. lreq'[r] = q
    OBVIOUS
  <2> QED BY <2>1, <2>3, <2>4, <2>5 DEF SearchSound, Exists
<1> QED BY <1>2, <1>3, <1>4 DEF LinkInv

\* A task that has just been made is in no row: its rows close no cycle and repeat none.
LEMMA CreatedGraph ==
    ASSUME GraphInv, NEW w \in WorkSlots, NEW t \in Tasks, NEW I, NEW R \in SUBSET FreshLinks,
           Created(w, t, I, R), treq[w].deps \in SUBSET Tasks, lreq' = lreq
    PROVE  LinkInv'
<1> DEFINE deps == treq[w].deps
<1>0. /\ deps \in SUBSET Tasks /\ deps \subseteq LiveTasks /\ Cardinality(R) = Cardinality(deps)
      /\ t \notin LiveTasks /\ R \subseteq Links
      /\ links' \in [Links -> LinkRow \cup {NoLink}]
      /\ \A l \in Links : l \notin R => links'[l] = links[l]
      /\ \A l \in R : links'[l].state = "live" /\ links'[l].from = t /\ links'[l].on \in deps
      /\ \A u \in deps : \E l \in R : links'[l].on = u
  BY DEF Created, LiveTasks, TaskStatus, FreshLinks
<1>1. \A l \in LiveLinks : l \notin R /\ links[l].from # t /\ links[l].on # t
  BY <1>0 DEF GraphInv, WorkInv, RowsHaveTasks, LiveLinks, FreshLinks
<1> HIDE DEF deps
<1>2. LiveLinks' = LiveLinks \cup R
  BY <1>0, <1>1 DEF LiveLinks, FreshLinks
<1>3. \A u \in Tasks : u # t => Needs(u)' = Needs(u)
  <2>1. \A u \in Tasks : u # t => LinksFrom(u)' = LinksFrom(u)
    BY <1>0, <1>1, <1>2 DEF LinksFrom, LiveLinks
  <2>2. \A l \in LiveLinks : links'[l].on = links[l].on
    BY <1>0, <1>1 DEF LiveLinks
  <2> QED BY <2>1, <2>2 DEF Needs, LinksFrom
<1>4. Needs(t)' \subseteq deps /\ \A u \in Tasks : t \notin Needs(u)
  <2>1. \A l \in LinksFrom(t)' : l \in R
    BY <1>0, <1>1, <1>2 DEF LinksFrom, LiveLinks
  <2> QED BY <1>0, <1>1, <2>1 DEF Needs, LinksFrom
<1>5. Acyclic'
  <2> SUFFICES ASSUME NEW S \in (SUBSET Tasks) \ {{}} PROVE \E u \in S : Needs(u)' \cap S = {}
    BY DEF Acyclic
  <2>1. CASE S = {t}
    BY <1>0, <1>4, <2>1
  <2>2. CASE S # {t}
    <3>1. S \ {t} \in (SUBSET Tasks) \ {{}}
      BY <2>2
    <3>2. PICK u \in S \ {t} : Needs(u) \cap (S \ {t}) = {}
      BY <3>1 DEF GraphInv, LinkInv, Acyclic
    <3> QED BY <1>3, <1>4, <3>2
  <2> QED BY <2>1, <2>2
<1>6. \A l, m \in R : links'[l].on = links'[m].on => l = m
  <2> DEFINE f == [l \in R |-> links'[l].on]
  <2>1. f \in Surjection(R, deps)
    <3>1. f \in [R -> deps] /\ \A u \in deps : \E l \in R : f[l] = u
      BY <1>0
    <3> QED BY <3>1 DEF Surjection
  <2>2. IsFiniteSet(R)
    BY <1>0, TaskAssumption, FS_Subset
  <2>3. f \in Injection(R, deps)
    BY <1>0, <2>1, <2>2, FS_SurjSameCardinalityImpliesInj
  <2>4. \A l, m \in R : f[l] = f[m] => l = m
    <3> HIDE DEF f
    <3> QED BY <2>3 DEF Injection, IsInjective
  <2> QED BY <2>4
<1>7. SingleLinks'
  <2>1. \A l \in LiveLinks : links'[l] = links[l]
    BY <1>0, <1>1 DEF LiveLinks
  <2> QED BY <1>0, <1>1, <1>2, <1>6, <2>1 DEF GraphInv, LinkInv, SingleLinks
<1>8. ASSUME NEW r \in LinkSlots, lreq[r] # Quiet PROVE SearchSound(lreq[r])'
  <2> DEFINE q == lreq[r]
  <2>1. SearchSound(q) /\ q \in AddReq
    BY <1>8 DEF GraphInv, LinkInv, SearchSound
  <2>2. q.from \in Tasks /\ q.seen \subseteq Tasks
    BY <2>1 DEF AddReq
  <2>3. t # q.from /\ t \notin q.seen
    BY <1>8 DEF GraphInv, SearchesKnown, Created
  <2>4. lreq'[r] = q
    OBVIOUS
  <2>5. (\A u \in q.seen : Needs(u)' = Needs(u)) /\ Needs(q.from)' = Needs(q.from)
    BY <1>3, <2>2, <2>3
  <2> QED BY <2>1, <2>4, <2>5 DEF SearchSound, Exists
<1> QED BY <1>0, <1>5, <1>7, <1>8 DEF GraphInv, LinkInv

\* Ids are used once: what has been made or taken away is not an id to come.
LEMMA FreshIsForGood ==
    ASSUME WorkInv, WorkNext, NEW t \in Tasks, tasks'[t].status = "fresh"
    PROVE  tasks[t].status = "fresh"
<1>0. RequestsTyped /\ RowsTyped
  BY DEF WorkInv, WorkTypeOK, RequestsTyped, RowsTyped, ItemRows, LinkTypeOK, TaskDbTypeOK
<1>1. ASSUME NEW w \in WorkSlots, NEW u \in Tasks, NEW I \in SUBSET FreshItems,
             NEW R \in SUBSET FreshLinks, CreateCommit(w, u, I, R)
      PROVE  tasks'[t] = tasks[t]
  <2>1. Created(w, u, I, R)
    BY <1>0, <1>1, CreatedRows
  <2> QED BY <2>1 DEF Created
<1>2. ASSUME NEW w \in WorkSlots, WriteTask(w) PROVE tasks'[t] = tasks[t]
  <2>1. /\ tasks'[treq[w].task].status \in TaskStatus
        /\ \A u \in Tasks : u # treq[w].task => tasks'[u] = tasks[u]
    BY <1>0, <1>2, ChangedRows
  <2> QED BY <2>1 DEF TaskStatus
<1>3. ASSUME NEW w \in WorkSlots, RemoveCommit(w) PROVE tasks'[t] = tasks[t]
  <2>1. /\ \A u \in Tasks : u # treq[w].task => tasks'[u] = tasks[u]
        /\ tasks'[treq[w].task].status = "deleted"
    BY <1>0, <1>3, RemovedRows
  <2> QED BY <2>1
<1>4. ASSUME NEW w \in WorkSlots,
             \/ WorkArrive(w) \/ WorkAbort(w) \/ MayStart(w) \/ MarkItem(w) \/ DropItem(w)
             \/ \E i \in Items : AddItem(w, i)
      PROVE  tasks'[t] = tasks[t]
  BY <1>0, <1>4, ReadsWriteNothing, ItemSteps
<1> QED BY <1>1, <1>2, <1>3, <1>4, LinksLeaveTasks DEF WorkNext, WorkStep

\* A search takes up tasks that are there: the two it is asked about and those that rows name.
LEMMA SearchesStayKnown ==
    ASSUME WorkInv, SearchesKnown, WorkNext
    PROVE  SearchesKnown'
<1> DEFINE Known(q) == q # Quiet =>
                 \A t \in q.seen \cup q.todo \cup {q.from, q.on} : tasks[t].status # "fresh"
<1>0. /\ lreq \in [LinkSlots -> {Quiet} \cup AddReq] /\ \A r \in LinkSlots : Known(lreq[r])
      /\ \A t \in LiveTasks : tasks[t].status # "fresh"
  BY DEF WorkInv, WorkTypeOK, LinkTypeOK, SearchesKnown, LiveTasks, TaskStatus
<1>1. SUFFICES \A r \in LinkSlots : Known(lreq'[r])
  <2> SUFFICES ASSUME NEW r \in LinkSlots, lreq'[r] # Quiet,
                      NEW t \in lreq'[r].seen \cup lreq'[r].todo \cup {lreq'[r].from, lreq'[r].on}
               PROVE  tasks'[t].status # "fresh"
    BY DEF SearchesKnown
  <2>1. tasks[t].status # "fresh"
    BY <1>1
  <2>2. WorkTypeOK'
    BY WorkTypingKept DEF WorkInv
  <2>3. lreq'[r] \in AddReq
    BY <2>2 DEF WorkTypeOK, LinkTypeOK
  <2>4. t \in Tasks
    BY <2>3 DEF AddReq
  <2> QED BY <2>1, <2>4, FreshIsForGood
<1>2. CASE lreq' = lreq
  BY <1>0, <1>2
<1>3. ASSUME NEW r \in LinkSlots, NEW q, lreq' = [lreq EXCEPT ![r] = q], Known(q)
      PROVE  \A s \in LinkSlots : Known(lreq'[s])
  <2> HIDE DEF Known
  <2> QED BY <1>0, <1>3
<1>4. ASSUME NEW r \in LinkSlots, NEW t \in Tasks, NEW u \in Tasks, NEW type, AddRead(r, t, u, type)
      PROVE  \A s \in LinkSlots : Known(lreq'[s])
  <2>1. Known([pc |-> "walk", from |-> t, on |-> u, type |-> type, todo |-> {u}, seen |-> {}])
    BY <1>0, <1>4 DEF AddRead
  <2> HIDE DEF Known
  <2> QED BY <1>3, <1>4, <2>1 DEF AddRead
<1>5. ASSUME NEW r \in LinkSlots, NEW t \in Tasks, Visit(r, t) PROVE \A s \in LinkSlots : Known(lreq'[s])
  <2> DEFINE q == lreq[r]
  <2>1. q \in AddReq /\ q # Quiet /\ Known(q) /\ t \in q.todo
    BY <1>0, <1>5 DEF Visit, Quiet
  <2>2. \A u \in Needs(t) : tasks[u].status # "fresh"
    BY <1>0 DEF WorkInv, RowsHaveTasks, Needs, LinksFrom
  <2>3. Known([q EXCEPT !.todo = @ \ {t}])
    BY <2>1 DEF AddReq
  <2>4. Known([q EXCEPT !.todo = (@ \ {t}) \cup Onward(t), !.seen = SeenAfter(q, t)])
    BY <2>1, <2>2 DEF AddReq, Onward, SeenAfter
  <2>5. Known(Quiet)
    OBVIOUS
  <2>6. lreq' = [lreq EXCEPT ![r] =
           IF t = q.from THEN Quiet
           ELSE IF t \in q.seen THEN [q EXCEPT !.todo = @ \ {t}]
           ELSE [q EXCEPT !.todo = (@ \ {t}) \cup Onward(t), !.seen = SeenAfter(q, t)]]
    BY <1>5 DEF Visit
  <2> HIDE DEF Known, q
  <2> QED BY <1>3, <2>3, <2>4, <2>5, <2>6
<1>6. ASSUME NEW r \in LinkSlots, NoCycleFound(r) \/ LookForExisting(r)
      PROVE  \A s \in LinkSlots : Known(lreq'[s])
  <2> DEFINE q == lreq[r]
  <2>1. q \in AddReq /\ q # Quiet /\ Known(q)
    BY <1>0, <1>6 DEF NoCycleFound, LookForExisting, Quiet
  <2>2. \A pc : Known([q EXCEPT !.pc = pc])
    BY <2>1 DEF AddReq
  <2>3. Known(Quiet)
    OBVIOUS
  <2> HIDE DEF Known
  <2> QED BY <1>3, <1>6, <2>2, <2>3 DEF NoCycleFound, LookForExisting
<1>7. ASSUME NEW r \in LinkSlots, LinkAbort(r) \/ \E l \in Links : Insert(r, l)
      PROVE  \A s \in LinkSlots : Known(lreq'[s])
  BY <1>3, <1>7 DEF LinkAbort, Insert
<1>8. ASSUME NEW l \in Links, RemoveLink(l) PROVE lreq' = lreq
  BY <1>8 DEF RemoveLink
<1>9. ASSUME NEW w \in WorkSlots, WorkArrive(w) \/ WorkStep(w) \/ WorkAbort(w) PROVE lreq' = lreq
  BY <1>9, ReadsWriteNothing
     DEF WorkStep, CreateCommit, WriteTask, RemoveCommit, AddItem, MarkItem, DropItem
<1> HIDE DEF Known
<1> QED BY <1>2, <1>4, <1>5, <1>6, <1>7, <1>8, <1>9 DEF WorkNext, LinkNext, LinkProgress

\* Every step keeps the graph as it should be if one dependency request is in flight at most.
LEMMA GraphStepKeeps ==
    ASSUME GraphInv, \A r, s \in LinkSlots : r = s, [WorkNext]_wvars
    PROVE  GraphInv'
<1>0. /\ WorkInv /\ LinkInv /\ SearchesKnown /\ RequestsTyped /\ RowsTyped
      /\ links \in [Links -> LinkRow \cup {NoLink}]
  BY DEF GraphInv, WorkInv, WorkTypeOK, RequestsTyped, RowsTyped, ItemRows, LinkTypeOK, TaskDbTypeOK
<1>1. CASE UNCHANGED wvars
  <2>1. LiveLinks' = LiveLinks /\ lreq' = lreq /\ links' = links
    BY <1>1 DEF wvars, LiveLinks
  <2>2. LinkInv'
    BY <1>0, <2>1, FewerRowsKeep
  <2>3. WorkInv'
    BY <1>0, <1>1 DEF wvars, WorkInv, WorkTypeOK, LinkTypeOK, TaskDbTypeOK, RowsHaveTasks, LiveLinks,
          LiveItems, LiveTasks
  <2> QED BY <1>0, <1>1, <2>2, <2>3 DEF wvars, GraphInv, SearchesKnown
<1>2. CASE WorkNext
  <2>1. WorkInv'
    BY <1>0, <1>2, WorkTypingKept, LinkRowsHaveTasks, WorkRowsHaveTasks DEF WorkNext, WorkInv
  <2>2. SearchesKnown'
    BY <1>0, <1>2, SearchesStayKnown
  <2>3. CASE LinkNext
    BY <1>0, <2>1, <2>2, <2>3, LinkStepKeeps DEF GraphInv
  <2>4. ASSUME NEW w \in WorkSlots, WorkArrive(w) \/ WorkStep(w) \/ WorkAbort(w) PROVE LinkInv'
    <3>0. lreq' = lreq
      BY <2>4, ReadsWriteNothing
         DEF WorkStep, CreateCommit, WriteTask, RemoveCommit, AddItem, MarkItem, DropItem
    <3>1. CASE links' = links
      <4>1. LiveLinks' = LiveLinks
        BY <3>1 DEF LiveLinks
      <4> QED BY <1>0, <3>0, <3>1, <4>1, FewerRowsKeep
    <3>2. ASSUME NEW t \in Tasks, NEW I \in SUBSET FreshItems, NEW R \in SUBSET FreshLinks,
                 CreateCommit(w, t, I, R)
          PROVE  LinkInv'
      <4>1. Created(w, t, I, R)
        BY <1>0, <3>2, CreatedRows
      <4>2. treq[w].deps \in SUBSET Tasks
        BY <1>0, <3>2, RequestKinds DEF CreateCommit
      <4> QED BY <3>0, <4>1, <4>2, CreatedGraph
    <3>3. CASE RemoveCommit(w)
      <4>1. /\ links' \in [Links -> LinkRow \cup {NoLink}]
            /\ \A l \in LiveLinks' : l \in LiveLinks /\ links'[l] = links[l]
        BY <1>0, <3>3, RemovedRows
      <4> QED BY <1>0, <3>0, <4>1, FewerRowsKeep
    <3>4. ASSUME WorkStep(w), ~RemoveCommit(w),
                 ~ \E t \in Tasks, I \in SUBSET FreshItems, R \in SUBSET FreshLinks : CreateCommit(w, t, I, R)
          PROVE  links' = links
      BY <3>4 DEF WorkStep, MayStart, WriteTask, AddItem, MarkItem, DropItem
    <3>5. ASSUME WorkArrive(w) \/ WorkAbort(w) PROVE links' = links
      BY <3>5, ReadsWriteNothing
    <3> QED BY <2>4, <3>1, <3>2, <3>3, <3>4, <3>5
  <2> QED BY <1>0, <1>2, <2>1, <2>2, <2>3, <2>4 DEF GraphInv, WorkNext
<1> QED BY <1>1, <1>2

\* While tasks with dependencies are created and tasks are changed and removed by any number of
\* requests at once, dependencies that are added one at a time close no cycle and repeat none.
THEOREM GraphStaysAcyclic ==
    ASSUME \A r, s \in LinkSlots : r = s
    PROVE  WorkSpec => [](Acyclic /\ SingleLinks)
<1>1. WorkInit /\ WorkInv => GraphInv
  <2> SUFFICES ASSUME WorkInit, WorkInv PROVE GraphInv
    OBVIOUS
  <2>1. LiveLinks = {} /\ \A r \in LinkSlots : lreq[r] = Quiet
    BY DEF WorkInit, LiveLinks, NoLink
  <2>2. Acyclic
    <3> SUFFICES ASSUME NEW S \in (SUBSET Tasks) \ {{}} PROVE \E t \in S : Needs(t) \cap S = {}
      BY DEF Acyclic
    <3>1. PICK t \in S : TRUE
      OBVIOUS
    <3> QED BY <2>1, <3>1 DEF Needs, LinksFrom
  <2> QED BY <2>1, <2>2 DEF GraphInv, WorkInv, WorkTypeOK, LinkTypeOK, TaskDbTypeOK, LinkInv, SingleLinks,
             SearchesKnown
<1>2. GraphInv /\ [WorkNext]_wvars => GraphInv'
  BY GraphStepKeeps
<1>3. GraphInv => Acyclic /\ SingleLinks
  BY DEF GraphInv, LinkInv
<1> QED BY <1>1, <1>2, <1>3, WorkInvariant, PTL DEF WorkSpec
=============================================================================

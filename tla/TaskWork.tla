------------------------------ MODULE TaskWork ------------------------------
(***************************************************************************)
(* TasksService and TaskChecklistService: field work from its creation to  *)
(* its check-out, with the checklist that guards it. Each handler reads,   *)
(* decides and writes in queries of their own; what it decided is not      *)
(* looked at again when it writes. A query that includes rows of another   *)
(* table is taken as one read.                                             *)
(*   create, duplicate           idle -> create -> idle                    *)
(*   update, checkIn             idle -> deps -> write -> idle             *)
(*   checkOut, assign, upload    idle -> write -> idle                     *)
(*   remove                      idle -> remove -> idle                    *)
(*   checklist items             idle -> add | mark | drop -> idle         *)
(* An update that carries a checklist or dependencies is refused by the    *)
(* database client, whose task has no such columns, and changes nothing.   *)
(***************************************************************************)
EXTENDS TaskDependencies

CONSTANTS Items,      \* checklist item ids
          WorkSlots   \* requests of the two services that may be in flight at once

\* create makes rows of the kind finish_to_start.
ASSUME WorkAssumption ==
    /\ IsFiniteSet(Items)
    /\ "finish_to_start" \in LinkTypes

VARIABLES items,      \* checklist items
          treq        \* treq[w]: where request w is and what it has decided

wvars == <<tasks, links, lreq, items, treq>>

ItemRow == [state: {"live", "gone"}, task: Tasks, done: BOOLEAN]
NoItem  == [state |-> "fresh"]

LiveItems  == {i \in Items : items[i].state = "live"}
FreshItems == {i \in Items : items[i].state = "fresh"}
ItemsOf(t) == {i \in LiveItems : items[i].task = t}

\* A change of a task row: "keep" and no photo set leave the column as it is.
ChangeReq == [pc: {"deps", "write"}, op: {"update", "checkin", "checkout", "assign", "upload"},
              task: Tasks, status: TaskStatus \cup {"keep"}, who: Users \cup {"keep"},
              photos: SUBSET SUBSET Photos]
WorkReq == ChangeReq
           \cup [pc: {"create"}, deps: SUBSET Tasks, who: Users \cup {"nobody"}, count: Nat]
           \cup [pc: {"remove", "add"}, task: Tasks]
           \cup [pc: {"mark"}, item: Items, done: BOOLEAN]
           \cup [pc: {"drop"}, item: Items]

WorkTypeOK ==
    /\ LinkTypeOK
    /\ items \in [Items -> ItemRow \cup {NoItem}]
    /\ treq \in [WorkSlots -> {Quiet} \cup WorkReq]

-----------------------------------------------------------------------------
Ask(w, q) ==
    /\ treq[w].pc = "idle"
    /\ treq' = [treq EXCEPT ![w] = q]
    /\ UNCHANGED <<tasks, links, lreq, items>>

Answer(w) == treq' = [treq EXCEPT ![w] = Quiet]

WorkAbort(w) ==
    /\ treq[w].pc # "idle"
    /\ Answer(w)
    /\ UNCHANGED <<tasks, links, lreq, items>>

\* create, once validateDependencies has found every task it names.
CreateRead(w, deps, who, n) ==
    /\ deps \subseteq LiveTasks
    /\ Ask(w, [pc |-> "create", deps |-> deps, who |-> who, count |-> n])

\* duplicateTask copies the checklist, not the dependencies nor the assignee.
DuplicateRead(w, t) ==
    /\ t \in LiveTasks
    /\ Ask(w, [pc |-> "create", deps |-> {}, who |-> "nobody",
               count |-> Cardinality(ItemsOf(t))])

\* Mutant: the row of a dependency may outlive the task it depends on.
TasksThereAny(T) == TRUE

\* The foreign keys: a row that refers to a task goes in only while the task is there.
TasksThere(T) == T \subseteq LiveTasks

\* One transaction: the task, its open items and its dependencies, which the ids R hold.
CreateCommit(w, t, I, R) ==
    LET q == treq[w] IN
    /\ q.pc = "create"
    /\ tasks[t].status = "fresh"
    /\ TasksThere(q.deps)
    /\ Cardinality(I) = q.count /\ Cardinality(R) = Cardinality(q.deps)
    /\ tasks' = [tasks EXCEPT ![t].status = "pending", ![t].who = q.who]
    /\ items' = [i \in Items |->
           IF i \in I THEN [state |-> "live", task |-> t, done |-> FALSE] ELSE items[i]]
    /\ \E on \in [R -> q.deps] :
          /\ \A u \in q.deps : \E l \in R : on[l] = u
          /\ links' = [l \in Links |->
                 IF l \in R THEN [state |-> "live", from |-> t, on |-> on[l],
                                  type |-> "finish_to_start"]
                 ELSE links[l]]
    /\ Answer(w)
    /\ UNCHANGED lreq

-----------------------------------------------------------------------------
\* Mutant: a finished task may be taken up again.
AllowedAgain(s) == CASE s = "pending"     -> {"assigned", "cancelled"}
                     [] s = "assigned"    -> {"in_progress", "cancelled"}
                     [] s = "in_progress" -> {"completed", "cancelled"}
                     [] s = "completed"   -> {"in_progress"}
                     [] OTHER             -> {}

\* validateStatusTransition
Allowed(s) == CASE s = "pending"     -> {"assigned", "cancelled"}
                [] s = "assigned"    -> {"in_progress", "cancelled"}
                [] s = "in_progress" -> {"completed", "cancelled"}
                [] OTHER             -> {}

Change(pc, op, t, s, who, photos) ==
    [pc |-> pc, op |-> op, task |-> t, status |-> s, who |-> who, photos |-> photos]

UpdateRead(w, t, s, who, photos) ==
    /\ t \in LiveTasks
    /\ s = "keep" \/ s \in Allowed(tasks[t].status)
    /\ Ask(w, Change(IF s = "in_progress" THEN "deps" ELSE "write",
                     "update", t, s, who, photos))

CheckInRead(w, t, user) ==
    /\ tasks[t].status = "assigned" /\ tasks[t].who = user
    /\ Ask(w, Change("deps", "checkin", t, "in_progress", "keep", {}))

\* Mutant: validateCanStart looks at the dependencies of one kind only.
WaitsForStarts(l) ==
    /\ links[l].type = "start_to_start"
    /\ tasks[links[l].on].status = "pending"

\* validateCanStart: the dependency rows that keep a task from being started.
WaitsFor(l) ==
    \/ links[l].type = "finish_to_start" /\ tasks[links[l].on].status # "completed"
    \/ links[l].type = "start_to_start" /\ tasks[links[l].on].status = "pending"

MayStart(w) ==
    /\ treq[w].pc = "deps"
    /\ ~ \E l \in LinksFrom(treq[w].task) : WaitsFor(l)
    /\ treq' = [treq EXCEPT ![w].pc = "write"]
    /\ UNCHANGED <<tasks, links, lreq, items>>

ChecklistDone(t) == \A i \in ItemsOf(t) : items[i].done

\* checkOut replaces the photos, by none if the request has none.
CheckOutRead(w, t, user, photos) ==
    /\ tasks[t].status = "in_progress" /\ tasks[t].who = user
    /\ ChecklistDone(t)
    /\ Ask(w, Change("write", "checkout", t, "completed", "keep", {photos}))

AssignRead(w, t, who) ==
    /\ tasks[t].status = "pending"
    /\ Ask(w, Change("write", "assign", t, "assigned", who, {}))

PhotosWith(t, new) == tasks[t].photos \cup new

\* uploadPhotos will write the photos it read and the new ones.
UploadRead(w, t, user, new) ==
    /\ t \in LiveTasks /\ tasks[t].who = user
    /\ Ask(w, Change("write", "upload", t, "keep", "keep", {PhotosWith(t, new)}))

\* The row is written by its id: whatever its status has become meanwhile.
Written(row, q) ==
    [status |-> IF q.status = "keep" THEN row.status ELSE q.status,
     who    |-> IF q.who = "keep" THEN row.who ELSE q.who,
     photos |-> IF q.photos = {} THEN row.photos ELSE UNION q.photos]

WriteTask(w) ==
    LET q == treq[w] IN
    /\ q.pc = "write"
    /\ q.task \in LiveTasks
    /\ tasks' = [tasks EXCEPT ![q.task] = Written(@, q)]
    /\ Answer(w)
    /\ UNCHANGED <<links, lreq, items>>

-----------------------------------------------------------------------------
RemoveRead(w, t) ==
    /\ t \in LiveTasks
    /\ tasks[t].status \notin {"in_progress", "completed"}
    /\ ~ \E l \in LiveLinks : links[l].on = t
    /\ Ask(w, [pc |-> "remove", task |-> t])

\* One transaction. The rows of other tasks that depend on this one make it fail.
RemoveCommit(w) ==
    LET t == treq[w].task IN
    /\ treq[w].pc = "remove"
    /\ t \in LiveTasks
    /\ ~ \E l \in LiveLinks \ LinksFrom(t) : links[l].on = t
    /\ tasks' = [tasks EXCEPT ![t] = [NoTask EXCEPT !.status = "deleted"]]
    /\ links' = [l \in Links |->
           IF l \in LinksFrom(t) THEN [links[l] EXCEPT !.state = "gone"] ELSE links[l]]
    /\ items' = [i \in Items |->
           IF i \in ItemsOf(t) THEN [items[i] EXCEPT !.state = "gone"] ELSE items[i]]
    /\ Answer(w)
    /\ UNCHANGED lreq

AddItemRead(w, t) ==
    /\ t \in LiveTasks
    /\ Ask(w, [pc |-> "add", task |-> t])

AddItem(w, i) ==
    LET t == treq[w].task IN
    /\ treq[w].pc = "add"
    /\ TasksThere({t})
    /\ i \in FreshItems
    /\ items' = [items EXCEPT ![i] = [state |-> "live", task |-> t, done |-> FALSE]]
    /\ Answer(w)
    /\ UNCHANGED <<tasks, links, lreq>>

OpenForItems(t) == tasks[t].status = "in_progress"

\* completeChecklistItem (done) and uncompleteChecklistItem.
MarkItemRead(w, i, user, done) ==
    /\ i \in LiveItems /\ items[i].done # done
    /\ OpenForItems(items[i].task) /\ tasks[items[i].task].who = user
    /\ Ask(w, [pc |-> "mark", item |-> i, done |-> done])

MarkItem(w) ==
    /\ treq[w].pc = "mark"
    /\ treq[w].item \in LiveItems
    /\ items' = [items EXCEPT ![treq[w].item].done = treq[w].done]
    /\ Answer(w)
    /\ UNCHANGED <<tasks, links, lreq>>

DropItemRead(w, i) ==
    /\ i \in LiveItems
    /\ tasks[items[i].task].status # "completed"
    /\ Ask(w, [pc |-> "drop", item |-> i])

DropItem(w) ==
    /\ treq[w].pc = "drop"
    /\ treq[w].item \in LiveItems
    /\ items' = [items EXCEPT ![treq[w].item].state = "gone"]
    /\ Answer(w)
    /\ UNCHANGED <<tasks, links, lreq>>

-----------------------------------------------------------------------------
WorkArrive(w) ==
    \/ \E deps \in SUBSET Tasks, who \in Users \cup {"nobody"}, n \in 0..Cardinality(Items) :
          CreateRead(w, deps, who, n)
    \/ \E t \in Tasks :
          \/ DuplicateRead(w, t) \/ RemoveRead(w, t) \/ AddItemRead(w, t)
          \/ \E s \in TaskStatus \cup {"keep"}, who \in Users \cup {"keep"},
                photos \in {{}} \cup {{P} : P \in SUBSET Photos} :
                UpdateRead(w, t, s, who, photos)
          \/ \E u \in Users :
                \/ CheckInRead(w, t, u) \/ AssignRead(w, t, u)
                \/ \E P \in SUBSET Photos : CheckOutRead(w, t, u, P) \/ UploadRead(w, t, u, P)
    \/ \E i \in Items :
          \/ DropItemRead(w, i)
          \/ \E u \in Users, done \in BOOLEAN : MarkItemRead(w, i, u, done)

WorkStep(w) ==
    \/ \E t \in Tasks, I \in SUBSET FreshItems, R \in SUBSET FreshLinks :
          CreateCommit(w, t, I, R)
    \/ MayStart(w) \/ WriteTask(w)
    \/ RemoveCommit(w)
    \/ \E i \in Items : AddItem(w, i)
    \/ MarkItem(w) \/ DropItem(w)

WorkNext ==
    \/ LinkNext /\ UNCHANGED <<items, treq>>
    \/ \E w \in WorkSlots : WorkArrive(w) \/ WorkStep(w) \/ WorkAbort(w)

\* Some tasks exist, pending, unassigned and without a checklist.
WorkInit ==
    /\ \E T \in SUBSET Tasks :
          tasks = [t \in Tasks |-> IF t \in T THEN [NoTask EXCEPT !.status = "pending"]
                                   ELSE NoTask]
    /\ links = [l \in Links |-> NoLink]
    /\ lreq = [r \in LinkSlots |-> Quiet]
    /\ items = [i \in Items |-> NoItem]
    /\ treq = [w \in WorkSlots |-> Quiet]

WorkSpec == WorkInit /\ [][WorkNext]_wvars

-----------------------------------------------------------------------------
(* Properties, with Acyclic of TaskDb. *)

\* Whatever is removed while dependencies and items are added, no row is left that refers to
\* a task that is gone (remove 601-619, addDependency 45-61, addChecklistItem 48-54).
RowsHaveTasks ==
    /\ \A l \in LiveLinks : {links[l].from, links[l].on} \subseteq LiveTasks
    /\ \A i \in LiveItems : items[i].task \in LiveTasks

Starts(t) == tasks[t].status # "in_progress" /\ tasks'[t].status = "in_progress"

\* A task is started when what it depends on is done, at the moment of its start
\* (update 335-338, checkIn 426).
StartsAfterDependencies ==
    [][\A t \in Tasks : Starts(t) =>
          \A l \in LinksFrom(t) :
              links[l].type = "finish_to_start" => tasks[links[l].on].status = "completed"]_wvars

\* A request is cleared to start a task when the tasks that have to have started have, when
\* they are looked at (validateCanStart 166-168).
ClearedAfterStarts ==
    [][\A w \in WorkSlots : treq[w].pc = "deps" /\ treq'[w].pc = "write" =>
          \A l \in LinksFrom(treq[w].task) :
              links[l].type = "start_to_start" =>
                  tasks[links[l].on].status \in {"in_progress", "completed", "cancelled"}]_wvars

\* The technician's check-out finds no open item on the checklist (checkOut 480-484).
CheckOutComplete ==
    [][\A w \in WorkSlots :
          treq[w].pc = "write" /\ treq[w].op = "checkout" /\ tasks' # tasks =>
              \A i \in ItemsOf(treq[w].task) : items[i].done]_wvars

\* Nothing changes the status of a completed or cancelled task, nor removes a completed one
\* or one in progress (validateStatusTransition 1219-1220, remove 598).
FinishedTaskStays ==
    [][\A t \in Tasks :
          /\ tasks[t].status = "completed" => tasks'[t].status = "completed"
          /\ tasks[t].status = "cancelled" => tasks'[t].status \in {"cancelled", "deleted"}
          /\ tasks[t].status = "in_progress" => tasks'[t].status # "deleted"]_wvars

\* Items are ticked off in the course of the work: none is on a task not yet begun.
DoneInWork ==
    \A i \in LiveItems : items[i].done => tasks[items[i].task].status \notin {"pending", "assigned"}

\* Adding photos to a task takes none away (uploadPhotos 752-757).
UploadsAdd ==
    [][\A w \in WorkSlots :
          treq[w].pc = "write" /\ treq[w].op = "upload" /\ treq'[w].pc = "idle" =>
              \A t \in Tasks : tasks'[t].status # "deleted" =>
                  tasks[t].photos \subseteq tasks'[t].photos]_wvars
=============================================================================

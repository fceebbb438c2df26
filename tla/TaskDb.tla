------------------------------- MODULE TaskDb -------------------------------
(***************************************************************************)
(* The task rows of a tenant database and the rows that say which task     *)
(* depends on which. A row id is used once: "fresh" is an id nobody used.  *)
(***************************************************************************)
EXTENDS Integers, FiniteSets

CONSTANTS Tasks,   \* task ids
          Links,   \* dependency row ids
          Users,   \* users a task may be assigned to
          Photos,  \* photos that may be uploaded
          LinkTypes \* the kinds of dependency requests ask for

ASSUME TaskAssumption ==
    /\ {"nobody", "keep"} \cap Users = {}
    /\ LinkTypes \subseteq {"finish_to_start", "start_to_start"}
    /\ IsFiniteSet(Tasks) /\ IsFiniteSet(Links)

VARIABLES tasks,  \* task rows
          links   \* dependency rows: links[l].from depends on links[l].on

TaskStatus == {"pending", "assigned", "in_progress", "completed", "cancelled"}

TaskRow == [status: TaskStatus \cup {"fresh", "deleted"}, who: Users \cup {"nobody"},
            photos: SUBSET Photos]
LinkRow == [state: {"live", "gone"}, from: Tasks, on: Tasks, type: LinkTypes]
NoTask  == [status |-> "fresh", who |-> "nobody", photos |-> {}]
NoLink  == [state |-> "fresh"]

TaskDbTypeOK ==
    /\ tasks \in [Tasks -> TaskRow]
    /\ links \in [Links -> LinkRow \cup {NoLink}]

LiveTasks  == {t \in Tasks : tasks[t].status \in TaskStatus}
LiveLinks  == {l \in Links : links[l].state = "live"}
FreshLinks == {l \in Links : links[l].state = "fresh"}

\* The tasks t directly depends on, and the dependency rows of t.
LinksFrom(t) == {l \in LiveLinks : links[l].from = t}
Needs(t)     == {links[l].on : l \in LinksFrom(t)}

\* No set of tasks is such that each waits for another one of them.
Acyclic ==
    \A S \in (SUBSET Tasks) \ {{}} : \E t \in S : Needs(t) \cap S = {}
=============================================================================

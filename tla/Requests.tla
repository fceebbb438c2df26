------------------------------- MODULE Requests -------------------------------
(***************************************************************************)
(* The requests a service is serving. Node runs one of them until its next *)
(* await; each await is a step at which any other may go on, and at each   *)
(* of them the process may die or the database may fail.                   *)
(***************************************************************************)
CONSTANT Requests

VARIABLES
    call,   \* call[r]: where r stands (pc), what it asks for and what it has read
    alone   \* alone[r]: nothing overlapped r so far

rvars == <<call, alone>>

Unasked == [pc |-> "idle"]

RequestsInit ==
    /\ call = [r \in Requests |-> Unasked]
    /\ alone = [r \in Requests |-> TRUE]

Open(r) == call[r].pc \notin {"idle", "done", "swallowed", "lost"}

\* How many requests have come in.
Asked(calls) == {r \in Requests : calls[r].pc # "idle"}

\* r comes in, as the record q.
Begin(r, q) ==
    /\ call[r].pc = "idle"
    /\ call' = [call EXCEPT ![r] = q]
    /\ alone' = [s \in Requests |->
                    IF s = r THEN \A o \in Requests : ~Open(o) ELSE alone[s] /\ ~Open(s)]

\* r goes on from the step pc as the record q.
Go(r, pc, q) ==
    /\ call[r].pc = pc
    /\ call' = [call EXCEPT ![r] = q]
    /\ UNCHANGED alone

Over        == [pc |-> "done"]
At(r, pc)   == [call[r] EXCEPT !.pc = pc]
Pass(r, from, to) == Go(r, from, At(r, to))

\* An error ends r, or its process dies: no handler undoes what r has done.
Lose(r) ==
    /\ Open(r)
    /\ call' = [call EXCEPT ![r] = [pc |-> "lost"]]
    /\ UNCHANGED alone

\* An error ends r, but the service that meets it swallows it: r answers as if all was done.
Swallow(r) ==
    /\ Open(r)
    /\ call' = [call EXCEPT ![r] = [pc |-> "swallowed"]]
    /\ UNCHANGED alone

\* r ends well in this step, and nothing overlapped it.
EndsAlone(r) ==
    /\ call[r].pc # "done"
    /\ call'[r].pc = "done"
    /\ alone'[r]

\* So far the requests came one after the other.
OneByOne == \A r \in Requests : alone[r]
=============================================================================

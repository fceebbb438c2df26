------------------------------ MODULE Transactions ------------------------------
(***************************************************************************)
(* TransactionService: the bookkeeping rows of a tenant. A row is created  *)
(* completed and no request can write its status but cancel, so it goes    *)
(* from completed to cancelled and then away. update, cancel and remove    *)
(* look at the row first and write it in a later statement. Numbers are    *)
(* those of one day. A row is named after the request that made it.        *)
(***************************************************************************)
EXTENDS Requests, FiniteSetsExt, Naturals

VARIABLES
    entry,   \* entry[r]: the row that r created
    edited   \* the rows that update wrote when they were cancelled

bvars == <<entry, edited>>

EntrySteps == {"idle", "number", "write", "cancel", "delete", "book", "done", "lost"}

NoEntry == [status |-> "none", number |-> 0]
LiveEntries == {r \in Requests : entry[r].status \in {"completed", "cancelled"}}

EntriesTypeOK ==
    /\ entry \in [Requests -> [status: {"none", "completed", "cancelled", "gone"}, number: Nat]]
    /\ edited \subseteq Requests
    /\ \A r \in Requests : call[r].pc \in EntrySteps

EntriesInit ==
    /\ entry = [r \in Requests |-> NoEntry]
    /\ edited = {}

-----------------------------------------------------------------------------
(* create *)

RecordEntry(r) ==
    /\ Begin(r, [pc |-> "number"])
    /\ UNCHANGED bvars

NextEntryNumber == Max({0} \cup {entry[s].number : s \in LiveEntries}) + 1

\* The number, and whatever the row refers to, are read before the row is inserted.
NumberEntry(r) ==
    /\ Go(r, "number", [pc |-> "book", number |-> NextEntryNumber])
    /\ UNCHANGED bvars

\* The unique index turns a number away that another row has by now.
InsertEntry(r) ==
    /\ call[r].pc = "book"
    /\ \A s \in LiveEntries : entry[s].number # call[r].number
    /\ Go(r, "book", Over)
    /\ entry' = [entry EXCEPT ![r] = [status |-> "completed", number |-> call[r].number]]
    /\ UNCHANGED edited

-----------------------------------------------------------------------------
(* update, cancel, remove *)

\* Mutant: a completed row may be removed.
RemovableAny(s) == TRUE

Removable(s) == entry[s].status # "completed"

\* The steps that the state of the row s allows.
FindEntry(r, s) ==
    /\ s \in LiveEntries
    /\ \/ entry[s].status # "cancelled" /\ Begin(r, [pc |-> "write", row |-> s])
       \/ entry[s].status # "cancelled" /\ Begin(r, [pc |-> "cancel", row |-> s])
       \/ Removable(s) /\ Begin(r, [pc |-> "delete", row |-> s])
    /\ UNCHANGED bvars

\* Each write fails when the row is gone.
WriteEntry(r) ==
    /\ call[r].pc = "write" /\ call[r].row \in LiveEntries
    /\ Go(r, "write", Over)
    /\ edited' = edited \cup {s \in {call[r].row} : entry[s].status = "cancelled"}
    /\ UNCHANGED entry

CancelEntry(r) ==
    /\ call[r].pc = "cancel" /\ call[r].row \in LiveEntries
    /\ Go(r, "cancel", Over)
    /\ entry' = [entry EXCEPT ![call[r].row].status = "cancelled"]
    /\ UNCHANGED edited

DeleteEntry(r) ==
    /\ call[r].pc = "delete" /\ call[r].row \in LiveEntries
    /\ Go(r, "delete", Over)
    /\ entry' = [entry EXCEPT ![call[r].row].status = "gone"]
    /\ UNCHANGED edited

EntryStep(r) ==
    \/ RecordEntry(r) \/ NumberEntry(r) \/ InsertEntry(r)
    \/ \E s \in Requests : FindEntry(r, s)
    \/ WriteEntry(r) \/ CancelEntry(r) \/ DeleteEntry(r)
    \/ Lose(r) /\ UNCHANGED bvars

EntriesNext == \E r \in Requests : EntryStep(r)

EntriesSpec == (RequestsInit /\ EntriesInit) /\ [][EntriesNext]_<<rvars, bvars>>

-----------------------------------------------------------------------------
(* Properties *)

\* Only a cancelled transaction is removed, although remove looks at it before it deletes it
\* and others write it in between.
OnlyCancelledGo ==
    [][\A r \in Requests :
          entry[r].status # "gone" /\ entry'[r].status = "gone" => entry[r].status = "cancelled"]_bvars

\* No two transactions ever had one number.
NumbersNameOne ==
    \A r, s \in Requests : entry[r].number = entry[s].number /\ entry[r] # NoEntry => r = s

\* A cancelled transaction is not edited (update: Cannot update cancelled transaction).
CancelledIsLeft == edited = {}
=============================================================================

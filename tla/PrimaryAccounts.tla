---------------------------- MODULE PrimaryAccounts ----------------------------
(***************************************************************************)
(* The primary one among the bank accounts of a tenant                     *)
(* (BankAccountService) and among the contacts of a customer               *)
(* (CustomerContactService). To make a row primary one statement clears    *)
(* the others and a later one sets it; only the setPrimary of contacts     *)
(* does both in a transaction. Balances are left out.                      *)
(***************************************************************************)
EXTENDS Requests

CONSTANTS Banks,        \* bank accounts
          Contacts,     \* contacts of customers
          CustomerIds

ASSUME TwoTables == Banks \cap Contacts = {} /\ "tenant" \notin CustomerIds

Entries == Banks \cup Contacts
Owners  == {"tenant"} \cup CustomerIds

VARIABLES
    row,     \* row[x]: whether x is there, whose it is, and its columns isActive and isPrimary
    strays   \* history: what was last made primary among the rows of another than it cleared

avars == <<row, strays>>

NoRow == [there |-> FALSE, of |-> "none", active |-> FALSE, primary |-> FALSE]

AccountSteps == {"idle", "clear", "write", "hide", "swap", "commit", "done", "lost"}

AccountsTypeOK ==
    /\ row \in [Entries -> [there: BOOLEAN, of: Owners \cup {"none"}, active: BOOLEAN, primary: BOOLEAN]]
    /\ strays \subseteq Contacts
    /\ \A r \in Requests : call[r].pc \in AccountSteps

AccountsInit ==
    /\ row = [x \in Entries |-> NoRow]
    /\ strays = {}

\* The rows of which at most one is to be primary.
RowsFor(o)   == {y \in Entries : row[y].of = o}
Primaries(o) == {y \in RowsFor(o) : row[y].primary}

\* What a request says of a column that may be left out.
Said(w, old) == IF w = "left out" THEN old ELSE w = "yes"

-----------------------------------------------------------------------------
\* create, of a bank account, or of a contact of the customer o.
CreateRow(r, x, o, primary, active) ==
    /\ ~row[x].there
    /\ Begin(r, [pc |-> IF primary = "yes" THEN "clear" ELSE "write",
                 row |-> x, new |-> TRUE, primary |-> primary, active |-> active,
                 of |-> o, to |-> o])
    /\ UNCHANGED avars

\* BankAccountService.update: what a request leaves out stays.
UpdateBank(r, x, primary, active) ==
    /\ row[x].there
    /\ Begin(r, [pc |-> IF primary = "yes" /\ ~row[x].primary THEN "clear" ELSE "write",
                 row |-> x, new |-> FALSE, primary |-> primary, active |-> active,
                 of |-> "tenant", to |-> "left out"])
    /\ UNCHANGED avars

\* CustomerContactService.update: what a request leaves out is not primary, and active
\* (UpdateCustomerContactDto). It clears the contacts of the customer it has read, also if
\* the request moves the contact to another one.
UpdateContact(r, x, primary, active, to) ==
    /\ row[x].there
    /\ Begin(r, [pc |-> IF primary = "yes" THEN "clear" ELSE "write",
                 row |-> x, new |-> FALSE, primary |-> primary, active |-> active,
                 of |-> row[x].of, to |-> to])
    /\ UNCHANGED avars

\* Mutant: only active rows are cleared.
ClearedActive(q, y) == y # q.row /\ row[y].of = q.of /\ row[y].active

Cleared(q, y) == y # q.row /\ row[y].of = q.of

ClearOthers(r) ==
    /\ call[r].pc = "clear"
    /\ Pass(r, "clear", "write")
    /\ row' = [y \in Entries |->
                  IF Cleared(call[r], y) THEN [row[y] EXCEPT !.primary = FALSE] ELSE row[y]]
    /\ UNCHANGED strays

OwnerAfter(q) == IF q.to = "left out" THEN row[q.row].of ELSE q.to

\* Whether q makes its row primary among rows it has not cleared.
Strays(q, primary) == primary = "yes" /\ OwnerAfter(q) # q.of

WriteRow(r) ==
    LET q == call[r] IN
    /\ q.pc = "write"
    /\ row[q.row].there = ~q.new
    /\ Go(r, "write", Over)
    /\ row' = [row EXCEPT ![q.row] =
                  [there |-> TRUE, of |-> OwnerAfter(q), active |-> Said(q.active, @.active),
                   primary |-> Said(q.primary, @.primary)]]
    /\ strays' = IF Strays(q, q.primary) THEN strays \cup {q.row} ELSE strays \ {q.row}

\* BankAccountService.setPrimary
SetPrimaryBank(r, x) ==
    /\ row[x].active
    /\ Begin(r, [pc |-> "clear", row |-> x, new |-> FALSE, primary |-> "yes", active |-> "left out",
                 of |-> "tenant", to |-> "left out"])
    /\ UNCHANGED avars

\* CustomerContactService.setPrimary: what the first statement of the transaction finds
\* primary, the others see cleared when it commits.
SetPrimaryContact(r, x) ==
    /\ row[x].active
    /\ Begin(r, [pc |-> "swap", row |-> x, of |-> row[x].of, to |-> "left out", found |-> {}])
    /\ UNCHANGED avars

FindPrimaries(r) ==
    /\ call[r].pc = "swap"
    /\ Go(r, "swap", [At(r, "commit") EXCEPT !.found = Primaries(call[r].of)])
    /\ UNCHANGED avars

CommitSwap(r) ==
    LET q == call[r] IN
    /\ q.pc = "commit"
    /\ Go(r, "commit", Over)
    /\ row' = [y \in Entries |-> [row[y] EXCEPT !.primary = (@ /\ y \notin q.found) \/ y = q.row]]
    /\ strays' = IF Strays(q, "yes") THEN strays \cup {q.row} ELSE strays \ {q.row}

\* remove, of a bank account that is not primary; delete, of any contact.
RemoveRow(r, x) ==
    /\ row[x].there
    /\ x \in Banks => ~row[x].primary
    /\ Begin(r, [pc |-> "hide", row |-> x])
    /\ UNCHANGED avars

HideRow(r) ==
    /\ call[r].pc = "hide"
    /\ Go(r, "hide", Over)
    /\ row' = [row EXCEPT ![call[r].row].active = FALSE]
    /\ UNCHANGED strays

AccountStep(r) ==
    \/ \E x \in Banks, p \in {"yes", "no"} : CreateRow(r, x, "tenant", p, "yes")
    \/ \E x \in Contacts, p, a \in {"yes", "no"} :
          \/ \E o \in CustomerIds : CreateRow(r, x, o, p, a)
          \/ \E to \in CustomerIds \cup {"left out"} : UpdateContact(r, x, p, a, to)
    \/ \E x \in Banks, p, a \in {"yes", "no", "left out"} : UpdateBank(r, x, p, a)
    \/ \E x \in Banks : SetPrimaryBank(r, x)
    \/ \E x \in Contacts : SetPrimaryContact(r, x)
    \/ \E x \in Entries : RemoveRow(r, x)
    \/ ClearOthers(r) \/ WriteRow(r) \/ FindPrimaries(r) \/ CommitSwap(r) \/ HideRow(r)
    \/ Lose(r) /\ UNCHANGED avars

AccountsNext == \E r \in Requests : AccountStep(r)

AccountsSpec == (RequestsInit /\ AccountsInit) /\ [][AccountsNext]_<<rvars, avars>>

-----------------------------------------------------------------------------
(* Properties *)

\* As long as requests come one after the other, wherever some of them are cut off, at most one
\* of the tenant's bank accounts is primary, and of the contacts of each customer at most one
\* besides those that were made primary by the very update that moved them there: that one
\* clears the customer they leave (CustomerContactService.update 155-170).
OnePrimary ==
    OneByOne => \A x, y \in Entries \ strays :
        row[x].primary /\ row[y].primary /\ row[x].of = row[y].of => x = y

\* There is one primary row at most, however requests overlap and whatever they ask for (setPrimary:
\* use transaction to ensure atomicity; update: unset other primary contacts for the same customer).
OnePrimaryAlways ==
    \A x, y \in Entries : row[x].primary /\ row[y].primary /\ row[x].of = row[y].of => x = y

\* The primary row is active (remove: cannot delete primary bank account).
PrimaryIsActive == \A x \in Entries : row[x].primary => row[x].active
=============================================================================

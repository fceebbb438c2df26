------------------------------- MODULE Customers -------------------------------
(***************************************************************************)
(* CustomerService: customers, their addresses and statuses, and leads     *)
(* that are converted. Nothing in the database keeps an address unique;    *)
(* an operation looks first and writes the row later, and a conversion     *)
(* then adds an interaction and emits an event, each in a statement of its *)
(* own. Status, assignment and score, and the rules about who may see a    *)
(* customer, are left out.                                                 *)
(***************************************************************************)
EXTENDS Requests, Naturals

CONSTANTS People,   \* customers
          Mails     \* addresses

ASSUME NoIsNoMail == "none" \notin Mails

VARIABLES
    customer,  \* customer[c]: the row of c
    history    \* history[c]: how often c became a client, was noted and announced to be one

cuvars == <<customer, history>>

CustomerSteps == {"idle", "look", "write", "hide", "turn", "note", "announce", "done", "lost"}
Types == {"none", "lead", "client"}

CustomersTypeOK ==
    /\ customer \in [People -> [type: Types, mail: Mails \cup {"none"}, active: BOOLEAN]]
    /\ history \in [People -> [became: Nat, noted: Nat, announced: Nat]]
    /\ \A r \in Requests : call[r].pc \in CustomerSteps

CustomersInit ==
    /\ customer = [c \in People |-> [type |-> "none", mail |-> "none", active |-> FALSE]]
    /\ history = [c \in People |-> [became |-> 0, noted |-> 0, announced |-> 0]]

IsCustomer(c) == customer[c].type # "none"

\* m is the address of a customer, deleted or not, other than c.
MailTaken(m, c) == m # "none" /\ \E d \in People \ {c} : IsCustomer(d) /\ customer[d].mail = m

-----------------------------------------------------------------------------
(* create, update, delete *)

CreateCustomer(r, c, to) ==
    /\ ~IsCustomer(c)
    /\ Begin(r, [pc |-> "look", customer |-> c, new |-> TRUE, to |-> to, was |-> "none"])
    /\ UNCHANGED cuvars

\* update of a customer that is found; any column may be written.
UpdateCustomer(r, c, to) ==
    /\ IsCustomer(c)
    /\ Begin(r, [pc |-> "look", customer |-> c, new |-> FALSE, to |-> to, was |-> customer[c].mail])
    /\ UNCHANGED cuvars

\* Mutant: only the addresses of customers that are not deleted are looked at.
MailFreeLive(q) ==
    \A d \in People \ {q.customer} :
        IsCustomer(d) /\ customer[d].active => customer[d].mail # q.to.mail

MailFree(q) == ~MailTaken(q.to.mail, q.customer)

\* The address is looked up unless it stays.
LookForMail(r) ==
    /\ call[r].pc = "look"
    /\ call[r].to.mail = call[r].was \/ MailFree(call[r])
    /\ Pass(r, "look", "write")
    /\ UNCHANGED cuvars

WriteCustomer(r) ==
    /\ call[r].pc = "write"
    /\ IsCustomer(call[r].customer) = ~call[r].new
    /\ Go(r, "write", Over)
    /\ customer' = [customer EXCEPT ![call[r].customer] = call[r].to]
    /\ UNCHANGED history

AskDeleteCustomer(r, c) ==
    /\ IsCustomer(c)
    /\ Begin(r, [pc |-> "hide", customer |-> c])
    /\ UNCHANGED cuvars

DeleteCustomer(r) ==
    /\ call[r].pc = "hide"
    /\ Go(r, "hide", Over)
    /\ customer' = [customer EXCEPT ![call[r].customer].active = FALSE]
    /\ UNCHANGED history

-----------------------------------------------------------------------------
(* convertLead *)

AskConvert(r, c) ==
    /\ customer[c].type = "lead"
    /\ Begin(r, [pc |-> "turn", customer |-> c])
    /\ UNCHANGED cuvars

TurnLead(r) ==
    /\ call[r].pc = "turn"
    /\ Pass(r, "turn", "note")
    /\ LET c == call[r].customer IN
        /\ customer' = [customer EXCEPT ![c].type = "client"]
        /\ history' = [history EXCEPT ![c].became = IF customer[c].type = "lead" THEN @ + 1 ELSE @]

\* The interaction of type note that records the conversion ...
NoteConversion(r) ==
    /\ call[r].pc = "note"
    /\ Pass(r, "note", "announce")
    /\ history' = [history EXCEPT ![call[r].customer].noted = @ + 1]
    /\ UNCHANGED customer

\* ... and the event LEAD_CONVERTED, which the audit log and the metrics listen to.
AnnounceConversion(r) ==
    /\ call[r].pc = "announce"
    /\ Go(r, "announce", Over)
    /\ history' = [history EXCEPT ![call[r].customer].announced = @ + 1]
    /\ UNCHANGED customer

CustomerValues == [type: {"lead", "client"}, mail: Mails \cup {"none"}, active: BOOLEAN]

CustomerStep(r) ==
    \/ \E c \in People :
          \/ \E to \in CustomerValues : CreateCustomer(r, c, to) \/ UpdateCustomer(r, c, to)
          \/ AskDeleteCustomer(r, c) \/ AskConvert(r, c)
    \/ LookForMail(r) \/ WriteCustomer(r) \/ DeleteCustomer(r)
    \/ TurnLead(r) \/ NoteConversion(r) \/ AnnounceConversion(r)
    \/ Lose(r) /\ UNCHANGED cuvars

CustomersNext == \E r \in Requests : CustomerStep(r)

CustomersSpec == (RequestsInit /\ CustomersInit) /\ [][CustomersNext]_<<rvars, cuvars>>

-----------------------------------------------------------------------------
(* Properties *)

\* As long as requests come one after the other no two customers, deleted ones included,
\* have one address.
MailsDiffer == OneByOne => \A c \in People : IsCustomer(c) => ~MailTaken(customer[c].mail, c)

\* Nobody is announced to be a client more often than the customer became one (convertLead:
\* only leads can be converted).
OnlyLeadsConvert == \A c \in People : history[c].announced <= history[c].became

\* What became a client has been announced when no request is under way.
ConversionsAreTold ==
    (\A r \in Requests : ~Open(r)) => \A c \in People : history[c].announced = history[c].became

\* No two customers have one address (create: customer with this email already exists).
MailsAlwaysDiffer == \A c \in People : IsCustomer(c) => ~MailTaken(customer[c].mail, c)
=============================================================================

---------------------------- MODULE MonthlyMessages ----------------------------
(***************************************************************************)
(* CommunicationController and MessageLogService with the monthly limit of *)
(* the plan (canSendEmail, canSendWhatsApp), for the messages of one       *)
(* channel. A message is sent by marking its row; providers are not called *)
(* yet. Only a single send is held against the limit.                      *)
(***************************************************************************)
EXTENDS Requests, Naturals, FiniteSets

CONSTANTS Earlier,     \* messages that are there already
          MaxMonthly   \* what the plan allows, not 0

ASSUME MonthlyAssumption ==
    /\ MaxMonthly \in Nat \ {0}
    /\ IsFiniteSet(Earlier) /\ IsFiniteSet(Requests)

Messages == Earlier \cup (Requests \X {1, 2})   \* with the rows a request may make

VARIABLE message   \* message[m]: the status of m; whether sentAt lies in this month

gvars == <<message>>

MessageSteps == {"idle", "check", "create", "bulk", "find", "mark", "done", "lost"}
Statuses == {"pending", "sent", "delivered", "read", "failed"}

NoMessage == [status |-> "none", recent |-> FALSE]

MessagesTypeOK ==
    /\ message \in [Messages -> [status: Statuses \cup {"none"}, recent: BOOLEAN]]
    /\ \A r \in Requests : call[r].pc \in MessageSteps

\* The earlier messages have been sent, this month or before.
MessagesInit ==
    \E recent \in BOOLEAN :
        message = [m \in Messages |->
                      IF m \in Earlier THEN [status |-> "sent", recent |-> recent] ELSE NoMessage]

IsMessage(m) == message[m].status # "none"

\* What the limit is held against.
SentThisMonth == {m \in Messages : message[m].status = "sent" /\ message[m].recent}

-----------------------------------------------------------------------------
(* sendMessage *)

Send(r) ==
    /\ Begin(r, [pc |-> "check", message |-> <<r, 1>>, status |-> "sent", checked |-> TRUE])
    /\ UNCHANGED message

\* Mutant: one message more than the plan allows.
MaySendOneMore(n) == n <= MaxMonthly

MaySend(n) == n < MaxMonthly

\* An error allows.
CheckLimit(r) ==
    /\ call[r].pc = "check"
    /\ \/ MaySend(Cardinality(SentThisMonth)) /\ Pass(r, "check", "create")
       \/ Go(r, "check", [At(r, "create") EXCEPT !.checked = FALSE])
    /\ UNCHANGED message

CreateMessage(r) ==
    /\ call[r].pc = "create"
    /\ Pass(r, "create", "find")
    /\ message' = [message EXCEPT ![call[r].message].status = "pending"]

\* updateStatus: the row is found ...
FindMessage(r) ==
    /\ call[r].pc = "find"
    /\ IsMessage(call[r].message)
    /\ Pass(r, "find", "mark")
    /\ UNCHANGED message

\* ... and any status written over any other.
Marked(m, s) == [status |-> s, recent |-> message[m].recent \/ s = "sent"]

MarkMessage(r) ==
    /\ call[r].pc = "mark"
    /\ Go(r, "mark", Over)
    /\ message' = [message EXCEPT ![call[r].message] = Marked(call[r].message, call[r].status)]

-----------------------------------------------------------------------------
(* sendBulkMessages: rows without a check, which nothing sends; one that cannot be made is *)
(* passed over *)

SendBulk(r) ==
    /\ Begin(r, [pc |-> "bulk", next |-> 1])
    /\ UNCHANGED message

CreateNext(r) ==
    /\ call[r].pc = "bulk"
    /\ Go(r, "bulk", IF call[r].next = 2 THEN Over ELSE [call[r] EXCEPT !.next = @ + 1])
    /\ \/ message' = [message EXCEPT ![<<r, call[r].next>>].status = "pending"]
       \/ UNCHANGED message

-----------------------------------------------------------------------------
(* updateMessageStatus, retryMessage, and the calendar *)

UpdateStatus(r, m, s) ==
    /\ IsMessage(m)
    /\ Begin(r, [pc |-> "find", message |-> m, status |-> s, checked |-> FALSE])
    /\ UNCHANGED message

RetryMessage(r, m) ==
    /\ message[m].status = "failed"
    /\ Begin(r, [pc |-> "find", message |-> m, status |-> "pending", checked |-> FALSE])
    /\ UNCHANGED message

NewMonth ==
    /\ \E m \in Messages : message[m].recent
    /\ message' = [m \in Messages |-> [message[m] EXCEPT !.recent = FALSE]]
    /\ UNCHANGED rvars

MessageStep(r) ==
    \/ Send(r) \/ CheckLimit(r) \/ CreateMessage(r) \/ FindMessage(r) \/ MarkMessage(r)
    \/ SendBulk(r) \/ CreateNext(r)
    \/ \E m \in Messages : RetryMessage(r, m) \/ \E s \in Statuses : UpdateStatus(r, m, s)
    \/ Lose(r) /\ UNCHANGED message

MessagesNext == (\E r \in Requests : MessageStep(r)) \/ NewMonth

MessagesSpec == (RequestsInit /\ MessagesInit) /\ [][MessagesNext]_<<rvars, gvars>>

-----------------------------------------------------------------------------
(* Properties *)

\* A message that is sent through a check that answered, with nothing in between, leaves no
\* more messages marked sent this month than the plan allows.
SoloSendCounts ==
    [][\A r \in Requests :
          EndsAlone(r) /\ call[r].pc = "mark" /\ call[r].checked =>
              Cardinality(SentThisMonth') <= MaxMonthly]_<<rvars, gvars>>

\* No more messages are sent in a month than the plan allows (canSendEmail), by check alone.
SentWithinPlan == Cardinality({m \in Messages : message[m].recent}) <= MaxMonthly
=============================================================================

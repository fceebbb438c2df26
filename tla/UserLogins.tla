------------------------------ MODULE UserLogins ------------------------------
(***************************************************************************)
(* Logins and sessions of the users of the superadmin database:            *)
(* AuthService.validateUser, login, refreshToken and logout over the rows  *)
(* of UsersService. A login reads the user's row first and counts or       *)
(* forgives failures in later statements. A session is named after the     *)
(* login that created it.                                                  *)
(*                                                                         *)
(* findValidSession compares a refresh token with the stored hashes by     *)
(* bcrypt, which reads 72 bytes: the JWTs of one user agree on these (the  *)
(* header and the start of the subject), so a token of a user fits every   *)
(* session of that user.                                                   *)
(***************************************************************************)
EXTENDS Requests, Naturals

CONSTANTS Accounts,
          LockAt      \* the failures that lock an account, 5 in the code

ASSUME LockAtAssumption == LockAt \in Nat \ {0}

VARIABLES
    account,  \* account[a]: the columns loginAttempts and isLocked
    session,  \* session[r]: the session row the login r made
    wrong     \* wrong[a]: the wrong passwords that were ever counted for a

lvars == <<account, session, wrong>>

LoginSteps == {"idle", "compare", "read", "count", "forgive", "store",
               "renew", "end", "done", "lost"}

LoginsTypeOK ==
    /\ account \in [Accounts -> [attempts: Nat, locked: BOOLEAN]]
    /\ session \in [Requests -> {"none", "active", "expired", "ended"}]
    /\ wrong \in [Accounts -> Nat]
    /\ \A r \in Requests : call[r].pc \in LoginSteps

LoginsInit ==
    /\ account = [a \in Accounts |-> [attempts |-> 0, locked |-> FALSE]]
    /\ session = [r \in Requests |-> "none"]
    /\ wrong = [a \in Accounts |-> 0]

-----------------------------------------------------------------------------
(* login *)

\* validateUser reads the user; a locked account is turned away.
Login(r, a) ==
    /\ Begin(r, [pc |-> IF account[a].locked THEN "lost" ELSE "compare",
                 account |-> a, seen |-> 0, row |-> r])
    /\ UNCHANGED lvars

Compare(r) ==
    /\ Pass(r, "compare", "read") \/ Pass(r, "compare", "forgive")
    /\ UNCHANGED lvars

\* incrementLoginAttempts reads the counter ...
ReadAttempts(r) ==
    /\ Go(r, "read", [At(r, "count") EXCEPT !.seen = account[call[r].account].attempts])
    /\ UNCHANGED lvars

\* Mutant: the account is locked one failure too early.
CountedEarly(n) == [attempts |-> n + 1, locked |-> n + 1 >= LockAt - 1]

\* ... and writes it back; a row that is locked already stays locked.
Counted(n) == [attempts |-> n + 1, locked |-> n + 1 >= LockAt]

CountFailure(r) ==
    LET a == call[r].account
        new == Counted(call[r].seen)
    IN  /\ Pass(r, "count", "lost")
        /\ account' = [account EXCEPT ![a] =
                          [new EXCEPT !.locked = @ \/ account[a].locked]]
        /\ wrong' = [wrong EXCEPT ![a] = @ + 1]
        /\ UNCHANGED session

\* resetLoginAttempts also unlocks.
Forgive(r) ==
    /\ Pass(r, "forgive", "store")
    /\ account' = [account EXCEPT ![call[r].account] = [attempts |-> 0, locked |-> FALSE]]
    /\ UNCHANGED <<session, wrong>>

CreateSession(r) ==
    /\ Pass(r, "store", "done")
    /\ session' = [session EXCEPT ![r] = "active"]
    /\ UNCHANGED <<account, wrong>>

-----------------------------------------------------------------------------
(* refreshToken, logout *)

\* The sessions that are active, unexpired and fit a token of a.
ValidSessions(a) == {s \in Requests : session[s] = "active" /\ call[s].account = a}

\* findValidSession: the first that fits, in no particular order.
FindSession(r, a, pc) ==
    /\ \E s \in ValidSessions(a) :
          Begin(r, [pc |-> pc, account |-> a, seen |-> 0, row |-> s])
    /\ UNCHANGED lvars

Refresh(r, a) == FindSession(r, a, "renew")
Logout(r, a)  == FindSession(r, a, "end")

\* Mutant: a renewed session is made active.
RenewedActive(s) == "active"

\* updateSession moves the end of the session and leaves isActive alone.
Renewed(s) == IF s = "expired" THEN "active" ELSE s

Renew(r) ==
    /\ Pass(r, "renew", "done")
    /\ session' = [session EXCEPT ![call[r].row] = Renewed(@)]
    /\ UNCHANGED <<account, wrong>>

EndSession(r) ==
    /\ Pass(r, "end", "done")
    /\ session' = [session EXCEPT ![call[r].row] = "ended"]
    /\ UNCHANGED <<account, wrong>>

\* logout without a token, logoutAllDevices.
LogoutAll(r, a) ==
    /\ Begin(r, [pc |-> "done", account |-> a, seen |-> 0, row |-> r])
    /\ session' = [s \in Requests |->
          IF session[s] # "none" /\ call[s].account = a THEN "ended" ELSE session[s]]
    /\ UNCHANGED <<account, wrong>>

Expires(s) ==
    /\ session[s] = "active"
    /\ session' = [session EXCEPT ![s] = "expired"]
    /\ UNCHANGED <<account, wrong, rvars>>

LoginStep(r) ==
    \/ \E a \in Accounts : Login(r, a) \/ Refresh(r, a) \/ Logout(r, a) \/ LogoutAll(r, a)
    \/ Compare(r) \/ ReadAttempts(r) \/ CountFailure(r) \/ Forgive(r) \/ CreateSession(r)
    \/ Renew(r) \/ EndSession(r) \/ Expires(r)
    \/ Lose(r) /\ UNCHANGED lvars

LoginsNext == \E r \in Requests : LoginStep(r)

LoginsSpec == (RequestsInit /\ LoginsInit) /\ [][LoginsNext]_<<rvars, lvars>>

-----------------------------------------------------------------------------
(* Properties *)

\* An account is locked only after LockAt wrong passwords for it were counted, in whatever
\* order logins read and write its counter.
LockEarned == \A a \in Accounts : account[a].locked => wrong[a] >= LockAt

\* A session that a logout ended stays ended, also under a refresh that found it before.
EndedStays == [][\A r \in Requests : session[r] = "ended" => session'[r] = "ended"]_lvars

\* Every wrong password counts until the next right one.
FailuresCount == [][\A a \in Accounts : account'[a].attempts # 0 =>
                        account'[a].attempts >= account[a].attempts]_lvars

\* A lock stays until somebody lifts it: a login that was let in before lifts it.
LockStays == [][\A a \in Accounts : account[a].locked => account'[a].locked]_lvars
=============================================================================

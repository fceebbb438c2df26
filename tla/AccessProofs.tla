---------------------------- MODULE AccessProofs ----------------------------
(***************************************************************************)
(* Proofs about who may use a tenant and what: the clients of the tenants' *)
(* databases, logins, users and plans, for any tenants, accounts, rows and *)
(* number of requests. A client that is kept is connected, a lock is       *)
(* earned and a session that was ended stays ended, whatever overlaps; the *)
(* counts users are created by, and the modules of a plan, are right where *)
(* nothing overlaps.                                                       *)
(***************************************************************************)
EXTENDS TenantClients, UserLogins, UserAdministration, PlanModules, RequestsProofs, FiniteSetTheorems

-----------------------------------------------------------------------------
(* TenantPrismaService *)

ClientCall == [pc: ClientSteps \ {"idle"}, tenant: Companies,
               server: {"none", "environment", "own"}, got: Requests \cup {"none"}]

\* A request that has not connected yet has no client: whatever is stored, or was an answer,
\* has left these steps for good.
ClientsInv ==
    /\ Kept /\ OneOpen
    /\ call \in [Requests -> {Unasked} \cup ClientCall]
    /\ client \in [Requests -> {"none", "open", "closed"}]
    /\ cache \in [Companies -> Requests \cup {"none"}]
    /\ \A r \in Requests : call[r].pc \in {"idle", "build", "connect"} => client[r] = "none"
    /\ \A r \in Requests : call[r].pc = "answered" => call[r].got \in Requests
    /\ ClientsAreOpen

\* Of a request that has come in, its record.
LEMMA AskedHasRecord ==
    ASSUME ClientsInv, NEW r \in Requests, call[r].pc # "idle"
    PROVE  call[r] \in ClientCall
BY DEF ClientsInv, Unasked

\* A step of r that leaves clients and map alone keeps the invariant if what r is answered
\* with is stored.
LEMMA CallStepKeeps ==
    ASSUME ClientsInv, NEW r \in Requests, NEW q \in ClientCall,
           call[r].pc \in {"idle", "build", "connect"},
           Kept', OneOpen', call'[r] = q, UNCHANGED cvars,
           \A s \in Requests : s # r => call'[s] = call[s],
           q.pc = "answered" => q.got # "none" /\ q.got = cache[q.tenant]
    PROVE  ClientsInv'
<1>1. client[r] = "none"
  BY DEF ClientsInv
<1>2. \A x \in Requests : client[x] = "open" => call'[x] = call[x]
  BY <1>1
<1>3. call' \in [Requests -> {Unasked} \cup ClientCall]
  <2>1. \A s \in Requests : call'[s] \in {Unasked} \cup ClientCall
    BY DEF ClientsInv
  <2> QED BY <2>1 DEF Kept
<1>4. \A c \in Companies : cache[c] # "none" => client[cache[c]] = "open" /\ call'[cache[c]].tenant = c
  BY <1>2 DEF ClientsInv, ClientsAreOpen
<1>5. ASSUME NEW s \in Requests, call'[s].pc = "answered"
      PROVE  client[call'[s].got] = "open" /\ call'[call'[s].got].tenant = call'[s].tenant
  <2>1. CASE s = r
    <3>1. q.tenant \in Companies /\ q.got # "none" /\ q.got = cache[q.tenant]
      BY <1>5, <2>1 DEF ClientCall
    <3> QED BY <1>4, <2>1, <3>1
  <2>2. CASE s # r
    <3>1. call[s].pc = "answered" /\ call'[s] = call[s]
      BY <1>5, <2>2
    <3>2. call[s].got \in Requests
      BY <3>1 DEF ClientsInv
    <3> QED BY <1>2, <3>1, <3>2 DEF ClientsInv, ClientsAreOpen
  <2> QED BY <2>1, <2>2
<1>6. ClientsAreOpen'
  BY <1>4, <1>5 DEF ClientsAreOpen, cvars
<1>7. \A s \in Requests : call'[s].pc \in {"idle", "build", "connect"} => client[s] = "none"
  BY <1>1 DEF ClientsInv
<1>8. \A s \in Requests : call'[s].pc = "answered" => call'[s].got \in Requests
  <2>1. q.pc = "answered" => q.got \in Requests
    BY DEF ClientCall
  <2> QED BY <2>1 DEF ClientsInv
<1> QED BY <1>3, <1>6, <1>7, <1>8 DEF ClientsInv, cvars

\* A request that comes in is answered with what is stored, or goes to build a connection.
LEMMA AskClientKeeps ==
    ASSUME ClientsInv, NEW r \in Requests, NEW c \in Companies, AskClient(r, c)
    PROVE  ClientsInv'
<1> DEFINE q == [pc |-> IF cache[c] = "none" THEN "build" ELSE "answered",
                 tenant |-> c, server |-> "none", got |-> cache[c]]
<1>1. q \in ClientCall /\ q.pc # "idle" /\ Begin(r, q) /\ UNCHANGED cvars
  BY DEF AskClient, ClientsInv, ClientCall, ClientSteps
<1>2. q.pc = "answered" => q.got # "none" /\ q.got = cache[q.tenant]
  OBVIOUS
<1> HIDE DEF q
<1>3. /\ Kept' /\ OneOpen' /\ call[r].pc = "idle" /\ call'[r] = q
      /\ \A s \in Requests : s # r => call'[s] = call[s]
  BY <1>1, BeginLeaves DEF ClientsInv
<1> QED BY <1>1, <1>2, <1>3, CallStepKeeps

\* Building the connection string stores nothing.
LEMMA BuildConnectionKeeps ==
    ASSUME ClientsInv, NEW r \in Requests, BuildConnection(r)
    PROVE  ClientsInv'
<1>1. call[r].pc = "build" /\ call[r] \in ClientCall
  BY AskedHasRecord DEF BuildConnection
<1>2. PICK s \in Servers(call[r].tenant) :
         Go(r, "build", [At(r, "connect") EXCEPT !.server = s])
  BY DEF BuildConnection
<1> DEFINE q == [At(r, "connect") EXCEPT !.server = s]
<1>3. q = [pc |-> "connect", tenant |-> call[r].tenant, server |-> s, got |-> call[r].got]
         /\ Go(r, "build", q)
  <2>1. At(r, "connect") = [pc |-> "connect", tenant |-> call[r].tenant,
                            server |-> call[r].server, got |-> call[r].got]
    BY <1>1 DEF At, ClientCall
  <2> QED BY <1>2, <2>1
<1>4. q \in ClientCall /\ q.pc = "connect"
  BY <1>1, <1>3 DEF ClientCall, ClientSteps, Servers
<1> HIDE DEF q
<1>5. /\ Kept' /\ OneOpen' /\ call'[r] = q
      /\ \A x \in Requests : x # r => call'[x] = call[x]
  BY <1>3, <1>4, GoLeaves DEF ClientsInv
<1> QED BY <1>1, <1>4, <1>5, CallStepKeeps DEF BuildConnection

\* A connected client is stored and is the answer; nothing referred to it before.
LEMMA ConnectKeeps ==
    ASSUME ClientsInv, NEW r \in Requests, Connect(r)
    PROVE  ClientsInv'
<1> DEFINE q == [At(r, "answered") EXCEPT !.got = r]
<1>1. call[r].pc = "connect" /\ call[r] \in ClientCall
  BY AskedHasRecord DEF Connect, Go
<1>2. q = [pc |-> "answered", tenant |-> call[r].tenant, server |-> call[r].server, got |-> r]
         /\ Go(r, "connect", q)
  <2>1. At(r, "answered") = [pc |-> "answered", tenant |-> call[r].tenant,
                             server |-> call[r].server, got |-> call[r].got]
    BY <1>1 DEF At, ClientCall
  <2>2. Go(r, "connect", q)
    BY DEF Connect
  <2> QED BY <2>1, <2>2
<1>3. q \in ClientCall /\ q.pc = "answered" /\ q.got = r /\ q.tenant = call[r].tenant
  BY <1>1, <1>2 DEF ClientCall, ClientSteps
<1> HIDE DEF q
<1>4. /\ Kept' /\ OneOpen' /\ call'[r] = q
      /\ \A x \in Requests : x # r => call'[x] = call[x]
  BY <1>2, <1>3, GoLeaves DEF ClientsInv
<1>5. /\ client' = [client EXCEPT ![r] = "open"] /\ client[r] = "none"
      /\ cache' = [cache EXCEPT ![q.tenant] = r] /\ q.tenant \in Companies
  BY <1>1, <1>3 DEF Connect, ClientsInv, ClientCall
<1>6. call' \in [Requests -> {Unasked} \cup ClientCall]
  <2>1. \A x \in Requests : call'[x] \in {Unasked} \cup ClientCall
    BY <1>3, <1>4 DEF ClientsInv
  <2> QED BY <1>4, <2>1 DEF Kept
<1>7. \A x \in Requests : client[x] = "open" =>
         x # r /\ client'[x] = "open" /\ call'[x] = call[x]
  BY <1>4, <1>5 DEF ClientsInv
<1>8. client'[r] = "open" /\ client' \in [Requests -> {"none", "open", "closed"}]
      /\ cache' \in [Companies -> Requests \cup {"none"}]
  BY <1>5 DEF ClientsInv
<1>9. ASSUME NEW c \in Companies, cache'[c] # "none"
      PROVE  client'[cache'[c]] = "open" /\ call'[cache'[c]].tenant = c
  <2>1. CASE c = q.tenant
    BY <1>3, <1>4, <1>5, <1>8, <2>1 DEF ClientsInv
  <2>2. CASE c # q.tenant
    <3>1. cache'[c] = cache[c] /\ cache[c] \in Requests
      BY <1>5, <1>9, <2>2 DEF ClientsInv
    <3> QED BY <1>7, <1>9, <3>1 DEF ClientsInv, ClientsAreOpen
  <2> QED BY <2>1, <2>2
<1>10. ASSUME NEW s \in Requests, call'[s].pc = "answered"
       PROVE  call'[s].got \in Requests /\ client'[call'[s].got] = "open"
              /\ call'[call'[s].got].tenant = call'[s].tenant
  <2>1. CASE s = r
    BY <1>3, <1>4, <1>8, <2>1
  <2>2. CASE s # r
    BY <1>4, <1>7, <1>10, <2>2 DEF ClientsInv, ClientsAreOpen
  <2> QED BY <2>1, <2>2
<1>11. \A x \in Requests : call'[x].pc \in {"idle", "build", "connect"} => client'[x] = "none"
  BY <1>3, <1>4, <1>5 DEF ClientsInv
<1> QED BY <1>4, <1>6, <1>8, <1>9, <1>10, <1>11 DEF ClientsInv, ClientsAreOpen

\* A client that does not connect was stored nowhere.
LEMMA ConnectFailsKeeps ==
    ASSUME ClientsInv, NEW r \in Requests, ConnectFails(r)
    PROVE  ClientsInv'
<1> DEFINE q == At(r, "lost")
<1>1. call[r].pc = "connect" /\ call[r] \in ClientCall /\ client[r] = "none"
  BY AskedHasRecord DEF ConnectFails, Pass, Go, ClientsInv
<1>2. q \in ClientCall /\ q.pc = "lost"
  BY <1>1 DEF At, ClientCall, ClientSteps
<1> HIDE DEF q
<1>3. /\ Kept' /\ OneOpen' /\ call'[r] = q
      /\ \A x \in Requests : x # r => call'[x] = call[x]
  BY <1>2, GoLeaves DEF ClientsInv, ConnectFails, Pass, q
<1>4. /\ client' = [client EXCEPT ![r] = "closed"] /\ cache' = cache
      /\ client' \in [Requests -> {"none", "open", "closed"}]
  BY DEF ConnectFails, ClientsInv
<1>5. call' \in [Requests -> {Unasked} \cup ClientCall]
  <2>1. \A x \in Requests : call'[x] \in {Unasked} \cup ClientCall
    BY <1>2, <1>3 DEF ClientsInv
  <2> QED BY <1>3, <2>1 DEF Kept
<1>6. \A x \in Requests : client[x] = "open" =>
         x # r /\ client'[x] = "open" /\ call'[x] = call[x]
  BY <1>1, <1>3, <1>4 DEF ClientsInv
<1>7. \A c \in Companies : cache'[c] # "none" =>
         client'[cache'[c]] = "open" /\ call'[cache'[c]].tenant = c
  BY <1>4, <1>6 DEF ClientsInv, ClientsAreOpen
<1>8. \A s \in Requests : call'[s].pc = "answered" =>
         /\ call'[s].got \in Requests /\ client'[call'[s].got] = "open"
         /\ call'[call'[s].got].tenant = call'[s].tenant
  BY <1>2, <1>3, <1>6 DEF ClientsInv, ClientsAreOpen
<1>9. \A x \in Requests : call'[x].pc \in {"idle", "build", "connect"} => client'[x] = "none"
  BY <1>2, <1>3, <1>4 DEF ClientsInv
<1> QED BY <1>3, <1>4, <1>5, <1>7, <1>8, <1>9 DEF ClientsInv, ClientsAreOpen

\* After a restart nothing is stored and no answer is in use.
LEMMA RestartServerKeeps ==
    ASSUME ClientsInv, RestartServer
    PROVE  ClientsInv'
<1>1. ASSUME NEW r \in Requests
      PROVE  /\ call'[r] \in {Unasked} \cup ClientCall
             /\ call'[r].pc \in {"idle", "lost"}
             /\ call'[r].pc = "idle" => call[r].pc = "idle"
             /\ client'[r] \in {"none", "open", "closed"}
             /\ client[r] = "none" => client'[r] = "none"
  <2>1. CASE call[r].pc = "idle"
    BY <2>1 DEF RestartServer, ClientsInv
  <2>2. CASE call[r].pc # "idle"
    <3>1. call[r] \in ClientCall /\ call'[r] = [call[r] EXCEPT !.pc = "lost"]
      BY <2>2, AskedHasRecord DEF RestartServer, At
    <3> QED BY <3>1 DEF RestartServer, ClientsInv, ClientCall, ClientSteps
  <2> QED BY <2>1, <2>2
<1>2. call' \in [Requests -> {Unasked} \cup ClientCall]
  BY <1>1 DEF RestartServer
<1>3. Kept'
  <2>1. call' = [r \in Requests |-> call'[r]]
    BY DEF RestartServer
  <2>2. alone' = alone
    BY DEF RestartServer
  <2> QED BY <1>1, <2>1, <2>2 DEF Kept, ClientsInv
<1>4. OneOpen'
  BY <1>1 DEF OneOpen, Open
<1>5. cache' = [c \in Companies |-> "none"]
  BY DEF RestartServer
<1>6. client' \in [Requests -> {"none", "open", "closed"}]
  BY <1>1 DEF RestartServer
<1>7. ClientsAreOpen'
  BY <1>1, <1>5 DEF ClientsAreOpen
<1>8. \A r \in Requests : call'[r].pc \in {"idle", "build", "connect"} => client'[r] = "none"
  BY <1>1 DEF ClientsInv
<1>9. \A r \in Requests : call'[r].pc = "answered" => call'[r].got \in Requests
  BY <1>1
<1> QED BY <1>2, <1>3, <1>4, <1>5, <1>6, <1>7, <1>8, <1>9 DEF ClientsInv

-----------------------------------------------------------------------------
\* The invariant holds at first.
LEMMA ClientsInvAtFirst == RequestsInit /\ ClientsInit => ClientsInv
BY KeptAtFirst, NoIsNoRequest DEF RequestsInit, ClientsInit, ClientsInv, ClientsAreOpen, Unasked

\* Every step keeps the invariant.
LEMMA ClientsInvStays == ClientsInv /\ [ClientsNext]_<<rvars, cvars>> => ClientsInv'
<1> SUFFICES ASSUME ClientsInv, [ClientsNext]_<<rvars, cvars>> PROVE ClientsInv'
  OBVIOUS
<1>1. CASE UNCHANGED <<rvars, cvars>>
  <2>1. Kept' /\ OneOpen'
    BY <1>1, NothingLeaves DEF ClientsInv
  <2> QED BY <1>1, <2>1 DEF ClientsInv, ClientsAreOpen, rvars, cvars
<1>2. ASSUME NEW r \in Requests, ClientStep(r) PROVE ClientsInv'
  BY <1>2, AskClientKeeps, BuildConnectionKeeps, ConnectKeeps, ConnectFailsKeeps
     DEF ClientStep
<1> QED BY <1>1, <1>2, RestartServerKeeps DEF ClientsNext

\* Whatever requests ask for, whichever of them fail and however often the process restarts,
\* every client that is stored or was handed out is connected to its tenant's database.
THEOREM ClientsStayOpen == ClientsSpec => []ClientsAreOpen
<1>3. ClientsInv => ClientsAreOpen
  BY DEF ClientsInv
<1> QED BY ClientsInvAtFirst, ClientsInvStays, <1>3, PTL DEF ClientsSpec

-----------------------------------------------------------------------------
(* UsersService and AuthService *)

LoginCall == [pc: LoginSteps \ {"idle"}, account: Accounts, seen: Nat, row: Requests]
LoginCalls == LoginCall \cup {Unasked, [pc |-> "lost"]}

\* A counter, and what a login has read of it, never exceeds the wrong passwords there were;
\* a login has no session before its last step, and what a refresh or a logout found is one.
LoginsInv ==
    /\ Kept /\ OneOpen
    /\ call \in [Requests -> LoginCalls]
    /\ account \in [Accounts -> [attempts: Nat, locked: BOOLEAN]]
    /\ session \in [Requests -> {"none", "active", "expired", "ended"}]
    /\ wrong \in [Accounts -> Nat]
    /\ \A a \in Accounts : account[a].attempts <= wrong[a]
    /\ \A r \in Requests : call[r].pc = "count" => call[r].seen <= wrong[call[r].account]
    /\ \A r \in Requests :
          call[r].pc \in {"idle", "compare", "read", "count", "forgive", "store"} => session[r] = "none"
    /\ \A r \in Requests : call[r].pc \in {"renew", "end"} => session[call[r].row] # "none"
    /\ LockEarned

EndedKept == \A r \in Requests : session[r] = "ended" => session'[r] = "ended"

\* The record of a request under way.
LEMMA OpenHasRecord ==
    ASSUME LoginsInv, NEW r \in Requests, call[r].pc \notin {"idle", "lost"}
    PROVE  call[r] \in LoginCall
BY DEF LoginsInv, LoginCalls, Unasked

\* A step of r that leaves the rows alone keeps the invariant if its new record is sound.
LEMMA QuietStepKeeps ==
    ASSUME LoginsInv, NEW r \in Requests, NEW q \in LoginCalls,
           Kept', OneOpen', call'[r] = q, UNCHANGED lvars,
           \A s \in Requests : s # r => call'[s] = call[s],
           q.pc = "count" => q.seen <= wrong[q.account],
           q.pc \in {"idle", "compare", "read", "count", "forgive", "store"} => session[r] = "none",
           q.pc \in {"renew", "end"} => session[q.row] # "none"
    PROVE  LoginsInv'
<1>1. call' \in [Requests -> LoginCalls]
  <2>1. \A s \in Requests : call'[s] \in LoginCalls
    BY DEF LoginsInv
  <2> QED BY <2>1 DEF Kept
<1>2. UNCHANGED <<account, session, wrong>>
  BY DEF lvars
<1> QED BY <1>1, <1>2 DEF LoginsInv, LockEarned

\* A request that reads its user, or finds a session, comes in with a sound record.
LEMMA ComeInKeeps ==
    ASSUME LoginsInv, NEW r \in Requests, NEW a \in Accounts, NEW s \in Requests,
           NEW pc \in {"lost", "compare", "renew", "end"}, UNCHANGED lvars,
           pc \in {"renew", "end"} => session[s] # "none",
           Begin(r, [pc |-> pc, account |-> a, seen |-> 0, row |-> s])
    PROVE  LoginsInv'
<1> DEFINE q == [pc |-> pc, account |-> a, seen |-> 0, row |-> s]
<1>1. q \in LoginCalls /\ q.pc = pc /\ q.row = s /\ Begin(r, q)
  BY DEF LoginCalls, LoginCall, LoginSteps
<1> HIDE DEF q
<1>2. /\ Kept' /\ OneOpen' /\ call[r].pc = "idle" /\ call'[r] = q
      /\ \A x \in Requests : x # r => call'[x] = call[x]
  BY <1>1, BeginLeaves DEF LoginsInv
<1>3. session[r] = "none"
  BY <1>2 DEF LoginsInv
<1> QED BY <1>1, <1>2, <1>3, QuietStepKeeps

\* r goes on from one step to another with what it knows.
LEMMA PassLeaves ==
    ASSUME LoginsInv, NEW r \in Requests, NEW from, NEW to \in LoginSteps \ {"idle"},
           from \notin {"idle", "done", "swallowed", "lost"}, Pass(r, from, to)
    PROVE  /\ Kept' /\ OneOpen' /\ call[r].pc = from /\ call[r] \in LoginCall
           /\ call'[r] \in LoginCall /\ call'[r].pc = to
           /\ call'[r].account = call[r].account /\ call'[r].row = call[r].row
           /\ \A x \in Requests : x # r => call'[x] = call[x]
<1> DEFINE q == At(r, to)
<1>1. call[r].pc = from /\ Go(r, from, q)
  BY DEF Pass, Go
<1>2. call[r] \in LoginCall
  BY <1>1, OpenHasRecord
<1>3. q \in LoginCall /\ q.pc = to /\ q.account = call[r].account /\ q.row = call[r].row
  BY <1>2 DEF At, LoginCall
<1> HIDE DEF q
<1>4. q.pc # "idle"
  BY <1>3
<1> QED BY <1>1, <1>2, <1>3, <1>4, GoLeaves DEF LoginsInv

\* The password is compared; nothing is counted yet.
LEMMA CompareKeeps ==
    ASSUME LoginsInv, NEW r \in Requests, Compare(r)
    PROVE  LoginsInv'
<1>1. PICK to \in {"read", "forgive"} : Pass(r, "compare", to)
  BY DEF Compare
<1>2. /\ Kept' /\ OneOpen' /\ call[r].pc = "compare" /\ call'[r] \in LoginCall /\ call'[r].pc = to
      /\ \A x \in Requests : x # r => call'[x] = call[x]
  BY <1>1, PassLeaves DEF LoginSteps
<1>3. session[r] = "none"
  BY <1>2 DEF LoginsInv
<1> QED BY <1>2, <1>3, QuietStepKeeps DEF Compare, LoginCalls

\* What a login reads of the counter is no more than the wrong passwords there were.
LEMMA ReadAttemptsKeeps ==
    ASSUME LoginsInv, NEW r \in Requests, ReadAttempts(r)
    PROVE  LoginsInv'
<1> DEFINE q == [At(r, "count") EXCEPT !.seen = account[call[r].account].attempts]
<1>1. call[r].pc = "read" /\ call[r] \in LoginCall /\ Go(r, "read", q)
  BY OpenHasRecord DEF ReadAttempts, Go
<1>2. call[r].account \in Accounts
  BY <1>1 DEF LoginCall
<1>3. q = [pc |-> "count", account |-> call[r].account,
           seen |-> account[call[r].account].attempts, row |-> call[r].row]
  <2>1. At(r, "count") = [pc |-> "count", account |-> call[r].account,
                          seen |-> call[r].seen, row |-> call[r].row]
    BY <1>1 DEF At, LoginCall
  <2> QED BY <2>1
<1>4. q \in LoginCalls /\ q.pc = "count" /\ q.seen <= wrong[q.account]
  BY <1>1, <1>2, <1>3 DEF LoginsInv, LoginCalls, LoginCall, LoginSteps
<1> HIDE DEF q
<1>5. /\ Kept' /\ OneOpen' /\ call'[r] = q
      /\ \A x \in Requests : x # r => call'[x] = call[x]
  BY <1>1, <1>4, GoLeaves DEF LoginsInv
<1>6. session[r] = "none"
  BY <1>1 DEF LoginsInv
<1> QED BY <1>4, <1>5, <1>6, QuietStepKeeps DEF ReadAttempts

\* A counted failure raises the wrong passwords by one and the counter to one more than read.
LEMMA CountFailureKeeps ==
    ASSUME LoginsInv, NEW r \in Requests, CountFailure(r)
    PROVE  LoginsInv'
<1> DEFINE a == call[r].account
           n == call[r].seen
<1>1. /\ Kept' /\ OneOpen' /\ call[r].pc = "count" /\ call[r] \in LoginCall
      /\ call'[r] \in LoginCall /\ call'[r].pc = "lost"
      /\ \A x \in Requests : x # r => call'[x] = call[x]
  BY PassLeaves DEF CountFailure, LoginSteps
<1>2. a \in Accounts /\ n \in Nat /\ n <= wrong[a]
  BY <1>1 DEF LoginCall, LoginsInv
<1>3. account'[a] = [attempts |-> n + 1, locked |-> n + 1 >= LockAt \/ account[a].locked]
  BY <1>2 DEF CountFailure, Counted, LoginsInv
<1>4. wrong'[a] = wrong[a] + 1 /\ session' = session
  BY <1>2 DEF CountFailure, LoginsInv
<1>5. \A b \in Accounts : b # a => account'[b] = account[b] /\ wrong'[b] = wrong[b]
  BY <1>2 DEF CountFailure, LoginsInv
<1>6. wrong' \in [Accounts -> Nat]
  BY <1>2 DEF CountFailure, LoginsInv
<1>7. account' \in [Accounts -> [attempts: Nat, locked: BOOLEAN]]
  <2>1. account'[a] \in [attempts: Nat, locked: BOOLEAN]
    BY <1>2, <1>3
  <2>2. account' = [account EXCEPT ![a] = account'[a]]
    BY <1>2 DEF CountFailure, LoginsInv
  <2> QED BY <2>1, <2>2 DEF LoginsInv
<1>8. \A b \in Accounts : account'[b].attempts <= wrong'[b]
  BY <1>2, <1>3, <1>4, <1>5 DEF LoginsInv
<1>9. \A s \in Requests : call'[s].pc = "count" => call'[s].seen <= wrong'[call'[s].account]
  <2> SUFFICES ASSUME NEW s \in Requests, call'[s].pc = "count"
               PROVE  call'[s].seen <= wrong'[call'[s].account]
    OBVIOUS
  <2>1. call'[s] = call[s] /\ call[s].pc = "count"
    BY <1>1
  <2>2. call[s].account \in Accounts /\ call[s].seen \in Nat
    BY <2>1, OpenHasRecord DEF LoginCall
  <2>3. wrong'[call[s].account] >= wrong[call[s].account]
    BY <1>4, <1>5, <2>2 DEF LoginsInv
  <2> QED BY <1>6, <2>1, <2>2, <2>3 DEF LoginsInv
<1>10. LockEarned'
  BY <1>2, <1>3, <1>4, <1>5, LockAtAssumption DEF LockEarned, LoginsInv
<1>11. call' \in [Requests -> LoginCalls]
  <2>1. \A s \in Requests : call'[s] \in LoginCalls
    BY <1>1 DEF LoginsInv, LoginCalls
  <2> QED BY <1>1, <2>1 DEF Kept
<1>12. \A s \in Requests :
          /\ call'[s].pc \in {"idle", "compare", "read", "count", "forgive", "store"} => session'[s] = "none"
          /\ call'[s].pc \in {"renew", "end"} => session'[call'[s].row] # "none"
  BY <1>1, <1>4 DEF LoginsInv
<1> QED BY <1>1, <1>4, <1>6, <1>7, <1>8, <1>9, <1>10, <1>11, <1>12 DEF LoginsInv

\* A forgiven account is neither locked nor counted against.
LEMMA ForgiveKeeps ==
    ASSUME LoginsInv, NEW r \in Requests, Forgive(r)
    PROVE  LoginsInv'
<1>1. /\ Kept' /\ OneOpen' /\ call[r].pc = "forgive" /\ call[r] \in LoginCall
      /\ call'[r] \in LoginCall /\ call'[r].pc = "store"
      /\ \A x \in Requests : x # r => call'[x] = call[x]
  BY PassLeaves DEF Forgive, LoginSteps
<1>2. call[r].account \in Accounts
  BY <1>1 DEF LoginCall
<1>3. /\ account' = [account EXCEPT ![call[r].account] = [attempts |-> 0, locked |-> FALSE]]
      /\ session' = session /\ wrong' = wrong
  BY DEF Forgive
<1>4. account' \in [Accounts -> [attempts: Nat, locked: BOOLEAN]]
  BY <1>3 DEF LoginsInv
<1>5. \A b \in Accounts : account'[b].attempts <= wrong[b] /\ (account'[b].locked => wrong[b] >= LockAt)
  BY <1>2, <1>3 DEF LoginsInv, LockEarned
<1>6. call' \in [Requests -> LoginCalls]
  <2>1. \A s \in Requests : call'[s] \in LoginCalls
    BY <1>1 DEF LoginsInv, LoginCalls
  <2> QED BY <1>1, <2>1 DEF Kept
<1> QED BY <1>1, <1>3, <1>4, <1>5, <1>6 DEF LoginsInv, LockEarned

\* What a step that may touch sessions has to leave: no login gets one before its last step.
LEMMA SessionStepKeeps ==
    ASSUME LoginsInv, Kept', OneOpen', call' \in [Requests -> LoginCalls],
           UNCHANGED <<account, wrong>>,
           session' \in [Requests -> {"none", "active", "expired", "ended"}],
           \A x \in Requests : session[x] # "none" => session'[x] # "none",
           NEW r \in Requests, \A x \in Requests : x # r => call'[x] = call[x],
           \A x \in Requests : x # r /\ session[x] = "none" => session'[x] = "none",
           call'[r] = call[r] \/ call'[r].pc \in {"done", "lost"},
           call'[r].pc \in {"done", "lost"} \/ (session[r] = "none" => session'[r] = "none")
    PROVE  LoginsInv'
<1>1. \A x \in Requests : call'[x].pc = "count" => call'[x].seen <= wrong[call'[x].account]
  BY DEF LoginsInv
<1>2. \A x \in Requests : call'[x].pc \in {"renew", "end"} => session'[call'[x].row] # "none"
  <2> SUFFICES ASSUME NEW x \in Requests, call'[x].pc \in {"renew", "end"}
               PROVE  session'[call'[x].row] # "none"
    OBVIOUS
  <2>1. call'[x] = call[x] /\ call[x].pc \in {"renew", "end"}
    OBVIOUS
  <2>2. call[x].row \in Requests
    BY <2>1, OpenHasRecord DEF LoginCall
  <2> QED BY <2>1, <2>2 DEF LoginsInv
<1>3. \A x \in Requests :
         call'[x].pc \in {"idle", "compare", "read", "count", "forgive", "store"} => session'[x] = "none"
  BY DEF LoginsInv
<1> QED BY <1>1, <1>2, <1>3 DEF LoginsInv, LockEarned

\* The steps that write one session: the login's own, or one that was found.
LEMMA SessionWriteKeeps ==
    ASSUME LoginsInv, NEW r \in Requests, CreateSession(r) \/ Renew(r) \/ EndSession(r)
    PROVE  LoginsInv' /\ EndedKept
<1>1. PICK from \in {"store", "renew", "end"} :
         /\ Pass(r, from, "done")
         /\ from = "store" => session' = [session EXCEPT ![r] = "active"]
         /\ from = "renew" => session' = [session EXCEPT ![call[r].row] = Renewed(@)]
         /\ from = "end" => session' = [session EXCEPT ![call[r].row] = "ended"]
         /\ UNCHANGED <<account, wrong>>
  BY DEF CreateSession, Renew, EndSession
<1>2. /\ Kept' /\ OneOpen' /\ call[r].pc = from /\ call[r] \in LoginCall
      /\ call'[r] \in LoginCall /\ call'[r].pc = "done"
      /\ \A x \in Requests : x # r => call'[x] = call[x]
  BY <1>1, PassLeaves DEF LoginSteps
<1>3. call[r].row \in Requests
  BY <1>2 DEF LoginCall
<1> DEFINE s == IF from = "store" THEN r ELSE call[r].row
<1>4. /\ s \in Requests /\ session' = [session EXCEPT ![s] = session'[s]]
      /\ session'[s] \in {"active", "expired", "ended"}
      /\ session[s] = "none" => s = r
      /\ session[s] = "ended" => session'[s] = "ended"
  <2>1. CASE from = "store"
    BY <1>1, <1>2, <2>1 DEF LoginsInv
  <2>2. CASE from = "renew"
    <3>1. session' = [session EXCEPT ![call[r].row] = Renewed(session[call[r].row])]
      BY <1>1, <2>2
    <3>2. session[call[r].row] \in {"active", "expired", "ended"}
      BY <1>2, <1>3, <2>2 DEF LoginsInv
    <3> QED BY <1>3, <2>2, <3>1, <3>2 DEF Renewed, LoginsInv
  <2>3. CASE from = "end"
    <3>1. session[call[r].row] \in {"active", "expired", "ended"}
      BY <1>2, <1>3, <2>3 DEF LoginsInv
    <3> QED BY <1>1, <1>3, <2>3, <3>1 DEF LoginsInv
  <2> QED BY <2>1, <2>2, <2>3
<1> HIDE DEF s
<1>5. session' \in [Requests -> {"none", "active", "expired", "ended"}]
  BY <1>4 DEF LoginsInv
<1>6. \A x \in Requests : x # s => session'[x] = session[x]
  BY <1>4 DEF LoginsInv
<1>7. call' \in [Requests -> LoginCalls]
  <2>1. \A x \in Requests : call'[x] \in LoginCalls
    BY <1>2 DEF LoginsInv, LoginCalls
  <2> QED BY <1>2, <2>1 DEF Kept
<1>8. LoginsInv'
  BY <1>1, <1>2, <1>4, <1>5, <1>6, <1>7, SessionStepKeeps
<1> QED BY <1>4, <1>6, <1>8 DEF EndedKept

\* A logout everywhere ends the sessions there are.
LEMMA LogoutAllKeeps ==
    ASSUME LoginsInv, NEW r \in Requests, NEW a \in Accounts, LogoutAll(r, a)
    PROVE  LoginsInv' /\ EndedKept
<1> DEFINE q == [pc |-> "done", account |-> a, seen |-> 0, row |-> r]
<1>1. q \in LoginCalls /\ q.pc = "done" /\ Begin(r, q)
  BY DEF LoginCalls, LoginCall, LoginSteps, LogoutAll
<1> HIDE DEF q
<1>2. /\ Kept' /\ OneOpen' /\ call[r].pc = "idle" /\ call'[r] = q
      /\ \A x \in Requests : x # r => call'[x] = call[x]
  BY <1>1, BeginLeaves DEF LoginsInv
<1>3. session' = [s \in Requests |->
          IF session[s] # "none" /\ call[s].account = a THEN "ended" ELSE session[s]]
      /\ UNCHANGED <<account, wrong>>
  BY DEF LogoutAll
<1>4. session' \in [Requests -> {"none", "active", "expired", "ended"}]
  BY <1>3 DEF LoginsInv
<1>5. \A x \in Requests : (session[x] = "none" <=> session'[x] = "none")
                           /\ (session[x] = "ended" => session'[x] = "ended")
  BY <1>3
<1>6. call' \in [Requests -> LoginCalls]
  <2>1. \A x \in Requests : call'[x] \in LoginCalls
    BY <1>1, <1>2 DEF LoginsInv
  <2> QED BY <1>2, <2>1 DEF Kept
<1>7. LoginsInv'
  BY <1>1, <1>2, <1>3, <1>4, <1>5, <1>6, SessionStepKeeps
<1> QED BY <1>5, <1>7 DEF EndedKept

\* Only an active session expires.
LEMMA ExpiresKeeps ==
    ASSUME LoginsInv, NEW r \in Requests, Expires(r)
    PROVE  LoginsInv' /\ EndedKept
<1>1. session[r] = "active" /\ session' = [session EXCEPT ![r] = "expired"]
      /\ UNCHANGED <<account, wrong>> /\ call' = call /\ alone' = alone
  BY DEF Expires, rvars
<1>2. Kept' /\ OneOpen'
  BY <1>1, NothingLeaves DEF LoginsInv, rvars
<1>3. call' \in [Requests -> LoginCalls]
  BY <1>1 DEF LoginsInv
<1>4. session' \in [Requests -> {"none", "active", "expired", "ended"}]
  BY <1>1 DEF LoginsInv
<1>5. \A x \in Requests : (session[x] = "none" <=> session'[x] = "none")
                           /\ (session[x] = "ended" => session'[x] = "ended")
  BY <1>1 DEF LoginsInv
<1>6. LoginsInv'
  BY <1>1, <1>2, <1>3, <1>4, <1>5, SessionStepKeeps
<1> QED BY <1>5, <1>6 DEF EndedKept

\* A lost request leaves every row as it is.
LEMMA LoseKeeps ==
    ASSUME LoginsInv, NEW r \in Requests, Lose(r), UNCHANGED lvars
    PROVE  LoginsInv'
<1>1. /\ Kept' /\ OneOpen' /\ call'[r] = [pc |-> "lost"]
      /\ \A x \in Requests : x # r => call'[x] = call[x]
  BY LoseLeaves DEF LoginsInv
<1> QED BY <1>1, QuietStepKeeps DEF LoginCalls

\* Every step keeps the invariant and the sessions that ended.
LEMMA LoginStepKeeps ==
    ASSUME LoginsInv, NEW r \in Requests, LoginStep(r)
    PROVE  LoginsInv' /\ EndedKept
<1>1. ASSUME NEW a \in Accounts, Login(r, a) PROVE LoginsInv' /\ EndedKept
  BY <1>1, ComeInKeeps DEF Login, EndedKept, lvars
<1>2. ASSUME NEW a \in Accounts, NEW pc \in {"renew", "end"}, FindSession(r, a, pc)
      PROVE  LoginsInv' /\ EndedKept
  <2>1. PICK s \in ValidSessions(a) : Begin(r, [pc |-> pc, account |-> a, seen |-> 0, row |-> s])
    BY <1>2 DEF FindSession
  <2>2. s \in Requests /\ session[s] # "none" /\ UNCHANGED lvars
    BY <1>2 DEF ValidSessions, FindSession
  <2> QED BY <2>1, <2>2, ComeInKeeps DEF EndedKept, lvars
<1>3. CASE \E a \in Accounts : LogoutAll(r, a)
  BY <1>3, LogoutAllKeeps
<1>4. CASE Compare(r) \/ ReadAttempts(r)
  BY <1>4, CompareKeeps, ReadAttemptsKeeps DEF EndedKept, Compare, ReadAttempts, lvars
<1>5. CASE CountFailure(r) \/ Forgive(r)
  BY <1>5, CountFailureKeeps, ForgiveKeeps DEF EndedKept, CountFailure, Forgive
<1>6. CASE CreateSession(r) \/ Renew(r) \/ EndSession(r)
  BY <1>6, SessionWriteKeeps
<1>7. CASE Expires(r)
  BY <1>7, ExpiresKeeps
<1>8. CASE Lose(r) /\ UNCHANGED lvars
  BY <1>8, LoseKeeps DEF EndedKept, lvars
<1> QED BY <1>1, <1>2, <1>3, <1>4, <1>5, <1>6, <1>7, <1>8 DEF LoginStep, Refresh, Logout

\* The invariant holds at first.
LEMMA LoginsAtFirst == RequestsInit /\ LoginsInit => LoginsInv
<1> SUFFICES ASSUME RequestsInit, LoginsInit PROVE LoginsInv
  OBVIOUS
<1>1. \A r \in Requests : call[r] = Unasked /\ call[r].pc = "idle"
  BY DEF RequestsInit, Unasked
<1> QED BY <1>1, KeptAtFirst DEF RequestsInit, LoginsInit, LoginsInv, LoginCalls, LockEarned

\* Nothing happens: the invariant stays.
LEMMA LoginsStutter == ASSUME LoginsInv, UNCHANGED <<rvars, lvars>> PROVE LoginsInv'
<1>1. Kept' /\ OneOpen'
  BY NothingLeaves DEF LoginsInv
<1> QED BY <1>1 DEF LoginsInv, LockEarned, rvars, lvars

-----------------------------------------------------------------------------
\* Every step keeps the invariant.
LEMMA LoginsInvStays == LoginsInv /\ [LoginsNext]_<<rvars, lvars>> => LoginsInv'
BY LoginStepKeeps, LoginsStutter DEF LoginsNext

\* In whatever order logins count and forgive failures, an account is locked only after
\* LockAt wrong passwords for it were counted.
THEOREM LocksAreEarned == LoginsSpec => []LockEarned
<1>2. LoginsInv => LockEarned
  BY DEF LoginsInv
<1> QED BY LoginsInvStays, <1>2, LoginsAtFirst, PTL DEF LoginsSpec

\* A session that a logout ended is never renewed or made again, whatever found it before.
THEOREM EndedSessionsStay == LoginsSpec => EndedStays
<1>1. LoginsInv /\ [LoginsNext]_<<rvars, lvars>> =>
         [\A r \in Requests : session[r] = "ended" => session'[r] = "ended"]_lvars
  BY LoginStepKeeps DEF LoginsNext, EndedKept
<1> QED BY <1>1, LoginsInvStays, LoginsAtFirst, PTL DEF LoginsSpec, EndedStays

-----------------------------------------------------------------------------
(* UsersService, PlanLimitsGuard and SystemUsersService *)

AskedUser    == [pc: {"check", "email", "enroll", "lost"}, user: Members, state: {"active", "inactive"},
                 role: Roles, checked: BOOLEAN]
AskedRemoval == [pc: {"remove", "leave"}, admin: Admins, kind: {"none", "super_admin", "support"}]

\* The record of a request that is counted for.
UserShape(q) ==
    /\ q.pc \in AdminSteps
    /\ q.pc \in {"check", "email", "enroll"} => q \in AskedUser
    /\ q.pc \in {"count", "delete", "bare"} => q = [pc |-> q.pc, user |-> q.user]
    /\ q.pc \in {"remove", "leave"} => q \in AskedRemoval
    /\ q.pc = "edit" => q.to \in AdminValues

\* What a request counted is so.
StillCounts(q) ==
    /\ q.pc \in {"email", "enroll"} /\ q.checked = TRUE => Cardinality(ActiveMembers) < MaxUsers
    /\ q.pc = "leave" /\ q.kind = "super_admin" => Cardinality(SuperAdmins) > 1

UserRows ==
    /\ member = [u \in Members |-> member[u]]
    /\ admin \in [Admins -> [kind: {"none", "super_admin", "support"}, active: BOOLEAN]]

\* What a request that nothing overlaps has counted is still so.
UsersInv ==
    /\ Kept /\ SoloOpen /\ UserRows
    /\ \A r \in Requests : UserShape(call[r]) /\ (Solo(r) => StillCounts(call[r]))

\* What a step of r has to leave.
LEMMA UserKeeps ==
    ASSUME UsersInv, NEW r \in Requests, NEW q, Kept', SoloOpen', OnlyFor(r, q), UserRows',
           UserShape(q), Solo(r)' => StillCounts(q)'
    PROVE  UsersInv'
<1>1. ASSUME NEW s \in Requests
      PROVE  UserShape(call[s])' /\ (Solo(s)' => StillCounts(call[s])')
  <2>1. CASE s = r
    BY <2>1 DEF OnlyFor, UserShape, StillCounts
  <2>2. CASE s # r
    BY <2>2 DEF OnlyFor, UsersInv, UserShape
  <2> QED BY <2>1, <2>2
<1> QED BY <1>1 DEF UsersInv

\* A request that comes in has counted nothing.
LEMMA UserBegins ==
    ASSUME UsersInv, NEW r \in Requests, NEW q, Begin(r, q), UserRows', UserShape(q),
           q.pc \notin {"idle", "email", "enroll", "leave"}
    PROVE  UsersInv' /\ OnlyFor(r, q) /\ call[r].pc = "idle"
<1>1. Kept' /\ SoloOpen' /\ OnlyFor(r, q) /\ call[r].pc = "idle"
  BY SoloBegins DEF UsersInv
<1>2. StillCounts(q)'
  BY DEF StillCounts
<1> QED BY <1>1, <1>2, UserKeeps

\* A request that goes on relies on what it counted.
LEMMA UserGoes ==
    ASSUME UsersInv, NEW r \in Requests, NEW pc, NEW q, Go(r, pc, q), UserRows', UserShape(q),
           pc \notin {"idle", "done", "swallowed", "lost"}, q.pc # "idle", Solo(r) => StillCounts(q)'
    PROVE  UsersInv' /\ OnlyFor(r, q) /\ call[r].pc = pc
<1>1. Kept' /\ SoloOpen' /\ OnlyFor(r, q) /\ call[r].pc = pc /\ alone' = alone
  BY SoloGoes DEF UsersInv
<1>2. Solo(r)' => Solo(r)
  BY <1>1 DEF Solo, Open
<1> QED BY <1>1, <1>2, UserKeeps

\* A request that ends relies on nothing any more.
LEMMA UserEnds ==
    ASSUME UsersInv, NEW r \in Requests, NEW pc, Go(r, pc, Over), UserRows',
           pc \notin {"idle", "done", "swallowed", "lost"}
    PROVE  UsersInv' /\ OnlyFor(r, Over) /\ call[r].pc = pc
<1>1. Over.pc = "done" /\ UserShape(Over) /\ StillCounts(Over)'
  BY DEF Over, UserShape, AdminSteps, StillCounts
<1> QED BY <1>1, UserGoes

\* Enrolling, with the seats counted by the guard.
LEMMA EnrolKeeps ==
    ASSUME UsersInv, NEW r \in Requests,
           \/ \E u \in Members, s \in {"active", "inactive"}, n \in Roles : AskUser(r, u, s, n)
           \/ CheckSeats(r) \/ CheckAddress(r) \/ InsertUser(r)
    PROVE  UsersInv' /\ \E q : OnlyFor(r, q)
<1>1. ASSUME NEW u \in Members, NEW s \in {"active", "inactive"}, NEW n \in Roles, AskUser(r, u, s, n)
      PROVE  UsersInv' /\ \E q : OnlyFor(r, q)
  <2>1. PICK q : q = [pc |-> "check", user |-> u, state |-> s, role |-> n, checked |-> TRUE]
    OBVIOUS
  <2>2. Begin(r, q) /\ UserRows' /\ q.pc = "check" /\ UserShape(q)
    BY <1>1, <2>1 DEF AskUser, UsersInv, UserRows, uvars, UserShape, AskedUser, AdminSteps
  <2> QED BY <2>2, UserBegins
<1>2. CASE CheckSeats(r)
  <2>1. UserRows' /\ ActiveMembers' = ActiveMembers /\ call[r].pc = "check"
    BY <1>2 DEF CheckSeats, UsersInv, UserRows, uvars, ActiveMembers
  <2>2. call[r] \in AskedUser
    BY <2>1 DEF UsersInv, UserShape
  <2>3. CASE Go(r, "check", At(r, IF SeatFree(Cardinality(ActiveMembers)) THEN "email" ELSE "lost"))
    <3>1. PICK to, q : /\ to = IF SeatFree(Cardinality(ActiveMembers)) THEN "email" ELSE "lost"
                       /\ q = At(r, to)
      OBVIOUS
    <3>2. q \in AskedUser /\ q.pc = to /\ to \in {"email", "lost"}
      BY <2>2, <3>1 DEF At, AskedUser
    <3>3. UserShape(q) /\ StillCounts(q)'
      BY <2>1, <3>1, <3>2 DEF UserShape, AdminSteps, StillCounts, SeatFree
    <3> QED BY <2>1, <2>3, <3>1, <3>2, <3>3, UserGoes
  <2>4. CASE Go(r, "check", [At(r, "email") EXCEPT !.checked = FALSE])
    <3>1. PICK q : q = [At(r, "email") EXCEPT !.checked = FALSE]
      OBVIOUS
    <3>2. q \in AskedUser /\ q.pc = "email" /\ q.checked = FALSE
      BY <2>2, <3>1 DEF At, AskedUser
    <3>3. UserShape(q) /\ StillCounts(q)'
      BY <3>2 DEF UserShape, AdminSteps, StillCounts
    <3> QED BY <2>1, <2>4, <3>1, <3>2, <3>3, UserGoes
  <2> QED BY <1>2, <2>3, <2>4 DEF CheckSeats
<1>3. CASE CheckAddress(r)
  <2>1. UserRows' /\ ActiveMembers' = ActiveMembers /\ call[r].pc = "email"
    BY <1>3 DEF CheckAddress, Pass, Go, UsersInv, UserRows, uvars, ActiveMembers
  <2>2. call[r] \in AskedUser
    BY <2>1 DEF UsersInv, UserShape
  <2>3. PICK q : q = At(r, IF member[call[r].user].state = "none" THEN "enroll" ELSE "lost")
    OBVIOUS
  <2>4. q \in AskedUser /\ q.pc \in {"enroll", "lost"} /\ q.checked = call[r].checked
    BY <2>2, <2>3 DEF At, AskedUser
  <2>5. Solo(r) => StillCounts(q)'
    BY <2>1, <2>4 DEF UsersInv, StillCounts
  <2>6. UserShape(q)
    BY <2>4 DEF UserShape, AdminSteps
  <2>7. Go(r, "email", q)
    BY <1>3, <2>3 DEF CheckAddress, Pass
  <2> QED BY <2>1, <2>4, <2>5, <2>6, <2>7, UserGoes
<1>4. CASE InsertUser(r)
  BY <1>4, UserEnds DEF InsertUser, UsersInv, UserRows
<1> QED BY <1>1, <1>2, <1>3, <1>4

\* Changes and removals of users, and roles.
LEMMA MembersKeep ==
    ASSUME UsersInv, NEW r \in Requests,
           \/ \E u \in Members, s \in {"active", "inactive"}, n \in Roles : AskUpdate(r, u, s, n)
           \/ \E u \in Members : AskDelete(r, u)
           \/ UpdateUser(r) \/ CountWork(r) \/ DeleteUser(r)
           \/ \E n \in Roles : AskRemoveRole(r, n) \/ \E k \in {"custom", "system"} : CreateRole(r, n, k)
           \/ RemoveRole(r)
    PROVE  UsersInv' /\ \E q : OnlyFor(r, q)
<1>1. ASSUME NEW q, Begin(r, q), UserRows', q.pc \in {"change", "count", "drop", "done"},
             q.pc = "count" => q = [pc |-> q.pc, user |-> q.user]
      PROVE  UsersInv' /\ \E x : OnlyFor(r, x)
  <2>1. UserShape(q)
    BY <1>1 DEF UserShape, AdminSteps
  <2> QED BY <1>1, <2>1, UserBegins
<1>2. ASSUME NEW u \in Members, NEW s \in {"active", "inactive"}, NEW n \in Roles, AskUpdate(r, u, s, n)
      PROVE  UsersInv' /\ \E q : OnlyFor(r, q)
  <2>1. PICK q : q = [pc |-> "change", user |-> u, state |-> s, role |-> n]
    OBVIOUS
  <2>2. Begin(r, q) /\ UserRows' /\ q.pc = "change"
    BY <1>2, <2>1 DEF AskUpdate, UsersInv, UserRows, uvars
  <2> QED BY <1>1, <2>2
<1>3. ASSUME NEW u \in Members, AskDelete(r, u) PROVE UsersInv' /\ \E q : OnlyFor(r, q)
  <2>1. PICK q : q = [pc |-> "count", user |-> u]
    OBVIOUS
  <2>2. Begin(r, q) /\ UserRows' /\ q.pc = "count" /\ q = [pc |-> q.pc, user |-> q.user]
    BY <1>3, <2>1 DEF AskDelete, UsersInv, UserRows, uvars
  <2> QED BY <1>1, <2>2
<1>4. CASE UpdateUser(r)
  BY <1>4, UserEnds DEF UpdateUser, UsersInv, UserRows
<1>5. CASE CountWork(r)
  <2>1. PICK to \in {"delete", "bare"} : Go(r, "count", At(r, to))
    BY <1>5 DEF CountWork, Pass
  <2>2. PICK q : q = At(r, to)
    OBVIOUS
  <2>3. call[r] = [pc |-> "count", user |-> call[r].user]
    BY <2>1 DEF Go, UsersInv, UserShape
  <2>4. q = [pc |-> to, user |-> call[r].user]
    BY <2>2, <2>3 DEF At
  <2>5. UserShape(q) /\ StillCounts(q)' /\ q.pc # "idle"
    BY <2>4 DEF UserShape, AdminSteps, StillCounts
  <2>6. UserRows'
    BY <1>5 DEF CountWork, UsersInv, UserRows, uvars
  <2> QED BY <2>1, <2>2, <2>5, <2>6, UserGoes
<1>6. CASE DeleteUser(r)
  BY <1>6, UserEnds DEF DeleteUser, UsersInv, UserRows
<1>7. ASSUME NEW n \in Roles, AskRemoveRole(r, n) PROVE UsersInv' /\ \E q : OnlyFor(r, q)
  <2>1. PICK q : q = [pc |-> "drop", role |-> n]
    OBVIOUS
  <2>2. Begin(r, q) /\ UserRows' /\ q.pc = "drop"
    BY <1>7, <2>1 DEF AskRemoveRole, UsersInv, UserRows, uvars
  <2> QED BY <1>1, <2>2
<1>8. ASSUME NEW n \in Roles, NEW k, CreateRole(r, n, k) PROVE UsersInv' /\ \E q : OnlyFor(r, q)
  <2>1. Over.pc = "done" /\ UserRows'
    BY <1>8 DEF CreateRole, Over, UsersInv, UserRows
  <2> QED BY <1>1, <1>8, <2>1 DEF CreateRole
<1>9. CASE RemoveRole(r)
  BY <1>9, UserEnds DEF RemoveRole, UsersInv, UserRows
<1> QED BY <1>2, <1>3, <1>4, <1>5, <1>6, <1>7, <1>8, <1>9

\* System users, of whom a removal counts the super administrators.
LEMMA AdminsKeep ==
    ASSUME UsersInv, NEW r \in Requests,
           \/ \E x \in Admins : AskRemove(r, x) \/ \E a \in AdminValues : CreateAdmin(r, x, a) \/ AskEdit(r, x, a)
           \/ EditAdmin(r) \/ CountAdmins(r) \/ RemoveAdmin(r)
    PROVE  UsersInv' /\ \E q : OnlyFor(r, q)
<1>1. ASSUME NEW x \in Admins, AskRemove(r, x) PROVE UsersInv' /\ \E q : OnlyFor(r, q)
  <2>1. PICK q : q = [pc |-> "remove", admin |-> x, kind |-> admin[x].kind]
    OBVIOUS
  <2>2. Begin(r, q) /\ UserRows' /\ q.pc = "remove" /\ UserShape(q)
    BY <1>1, <2>1 DEF AskRemove, UsersInv, UserRows, uvars, UserShape, AskedRemoval, AdminSteps
  <2> QED BY <2>2, UserBegins
<1>2. ASSUME NEW x \in Admins, NEW a \in AdminValues, CreateAdmin(r, x, a)
      PROVE  UsersInv' /\ \E q : OnlyFor(r, q)
  <2>1. UserRows' /\ Begin(r, Over) /\ Over.pc = "done" /\ UserShape(Over)
    BY <1>2 DEF CreateAdmin, UsersInv, UserRows, AdminValues, UserShape, AdminSteps, Over
  <2> QED BY <2>1, UserBegins
<1>3. ASSUME NEW x \in Admins, NEW a \in AdminValues, AskEdit(r, x, a)
      PROVE  UsersInv' /\ \E q : OnlyFor(r, q)
  <2>1. PICK q : q = [pc |-> "edit", admin |-> x, to |-> a]
    OBVIOUS
  <2>2. Begin(r, q) /\ UserRows' /\ q.pc = "edit" /\ UserShape(q)
    BY <1>3, <2>1 DEF AskEdit, UsersInv, UserRows, uvars, UserShape, AdminSteps
  <2> QED BY <2>2, UserBegins
<1>4. CASE EditAdmin(r)
  <2>1. UserRows'
    BY <1>4 DEF EditAdmin, Go, UsersInv, UserRows, UserShape, AdminValues
  <2> QED BY <1>4, <2>1, UserEnds DEF EditAdmin
<1>5. CASE CountAdmins(r)
  <2>1. /\ UserRows' /\ SuperAdmins' = SuperAdmins /\ call[r].pc = "remove"
        /\ call[r].kind # "super_admin" \/ Cardinality(SuperAdmins) > 1
    BY <1>5 DEF CountAdmins, AdminToSpare, UsersInv, UserRows, uvars, SuperAdmins
  <2>2. call[r] \in AskedRemoval
    BY <2>1 DEF UsersInv, UserShape
  <2>3. PICK q : q = At(r, "leave")
    OBVIOUS
  <2>4. q \in AskedRemoval /\ q.pc = "leave" /\ q.kind = call[r].kind
    BY <2>2, <2>3 DEF At, AskedRemoval
  <2>5. UserShape(q) /\ StillCounts(q)'
    BY <2>1, <2>4 DEF UserShape, AdminSteps, StillCounts
  <2> QED BY <1>5, <2>1, <2>3, <2>4, <2>5, UserGoes DEF CountAdmins, Pass
<1>6. CASE RemoveAdmin(r)
  <2>1. UserRows'
    BY <1>6 DEF RemoveAdmin, UsersInv, UserRows
  <2> QED BY <1>6, <2>1, UserEnds DEF RemoveAdmin
<1> QED BY <1>1, <1>2, <1>3, <1>4, <1>5, <1>6

\* Every step keeps the invariant, and ends its own request at most.
LEMMA UserStepKeeps ==
    ASSUME UsersInv, NEW r \in Requests, UserStep(r)
    PROVE  UsersInv' /\ \E q : OnlyFor(r, q)
<1>1. CASE Lose(r) /\ UNCHANGED uvars
  <2>1. PICK q : q = [pc |-> "lost"]
    OBVIOUS
  <2>2. Kept' /\ SoloOpen' /\ OnlyFor(r, q) /\ ~Solo(r)'
    BY <1>1, <2>1, SoloLost DEF UsersInv
  <2>3. UserRows' /\ UserShape(q)
    BY <1>1, <2>1 DEF UsersInv, UserRows, uvars, UserShape, AdminSteps
  <2> QED BY <2>2, <2>3, UserKeeps
<1> QED BY <1>1, EnrolKeeps, MembersKeep, AdminsKeep DEF UserStep

\* Only the statement that enrolls or deactivates ends a request from the step it is in.
LEMMA WhichEnds ==
    ASSUME NEW r \in Requests, UserStep(r), call[r].pc \in {"enroll", "leave"}
    PROVE  \/ call[r].pc = "enroll" /\ InsertUser(r)
           \/ call[r].pc = "leave" /\ RemoveAdmin(r)
           \/ Lose(r)
<1>1. \A q : ~Begin(r, q)
  BY DEF Begin
<1>2. \A pc, q : Go(r, pc, q) => call[r].pc = pc
  BY DEF Go
<1>3. /\ \A u, s, n : ~AskUser(r, u, s, n) /\ ~AskUpdate(r, u, s, n)
      /\ \A u : ~AskDelete(r, u)
      /\ \A n : ~AskRemoveRole(r, n) /\ \A k : ~CreateRole(r, n, k)
      /\ \A x : ~AskRemove(r, x) /\ \A a : ~CreateAdmin(r, x, a) /\ ~AskEdit(r, x, a)
  BY <1>1 DEF AskUser, AskUpdate, AskDelete, AskRemoveRole, CreateRole, AskRemove, CreateAdmin, AskEdit
<1>4. /\ ~CheckSeats(r) /\ ~CheckAddress(r) /\ ~UpdateUser(r) /\ ~CountWork(r) /\ ~DeleteUser(r)
      /\ ~RemoveRole(r) /\ ~EditAdmin(r) /\ ~CountAdmins(r)
  BY <1>2 DEF CheckSeats, CheckAddress, UpdateUser, CountWork, DeleteUser, RemoveRole, EditAdmin,
     CountAdmins, Pass
<1>5. (InsertUser(r) => call[r].pc = "enroll") /\ (RemoveAdmin(r) => call[r].pc = "leave")
  BY DEF InsertUser, RemoveAdmin
<1> QED BY <1>3, <1>4, <1>5 DEF UserStep

\* Of finite sets: who was counted is in the set that was counted.
LEMMA FewEnough ==
    /\ IsFiniteSet(ActiveMembers) /\ IsFiniteSet(SuperAdmins)
    /\ Cardinality(ActiveMembers) \in Nat /\ Cardinality(SuperAdmins) \in Nat
<1>1. ActiveMembers \subseteq Members /\ SuperAdmins \subseteq Admins
  BY DEF ActiveMembers, SuperAdmins
<1>2. IsFiniteSet(ActiveMembers) /\ IsFiniteSet(SuperAdmins)
  BY <1>1, FS_Subset, UsersAssumption
<1> QED BY <1>2, FS_CardinalityType

\* What was counted while nothing else went on is right when it is relied on.
LEMMA UserStepCounts ==
    ASSUME UsersInv, NEW r \in Requests, UserStep(r), NEW s \in Requests
    PROVE  SoloSeat(s) /\ SoloRemoval(s)
<1>1. PICK q : OnlyFor(r, q)
  BY UserStepKeeps
<1>2. ASSUME EndsAlone(s), call[s].pc \in {"enroll", "leave"}
      PROVE  /\ s = r /\ StillCounts(call[r])
             /\ \/ call[r].pc = "enroll" /\ InsertUser(r)
                \/ call[r].pc = "leave" /\ RemoveAdmin(r)
  <2>1. s = r /\ q.pc = "done" /\ alone'[r] /\ call'[r].pc = "done"
    BY <1>1, <1>2, WhoEndsAlone DEF OnlyFor
  <2>2. ~Lose(r)
    BY <2>1 DEF Lose, UsersInv, Kept
  <2>3. \/ call[r].pc = "enroll" /\ InsertUser(r)
        \/ call[r].pc = "leave" /\ RemoveAdmin(r)
    BY <1>2, <2>1, <2>2, WhichEnds
  <2>4. alone' = alone
    BY <2>3 DEF InsertUser, RemoveAdmin, Go
  <2>5. Solo(r)
    BY <1>2, <2>1, <2>4 DEF Solo, Open
  <2> QED BY <2>1, <2>3, <2>5 DEF UsersInv
<1>3. ASSUME EndsAlone(s), call[s].pc = "enroll", call[s].checked, call[s].state = "active"
      PROVE  Cardinality(ActiveMembers') <= MaxUsers
  <2>1. s = r /\ StillCounts(call[r]) /\ InsertUser(r)
    BY <1>2, <1>3
  <2>2. call[r] \in AskedUser
    BY <1>3, <2>1 DEF UsersInv, UserShape
  <2>3. Cardinality(ActiveMembers) < MaxUsers
    BY <1>3, <2>1, <2>2 DEF StillCounts, AskedUser
  <2>4. PICK u : u = call[r].user
    OBVIOUS
  <2>5. ActiveMembers' \subseteq ActiveMembers \cup {u}
    BY <2>1, <2>4 DEF InsertUser, UsersInv, UserRows, ActiveMembers
  <2>6. /\ IsFiniteSet(ActiveMembers \cup {u})
        /\ Cardinality(ActiveMembers \cup {u}) <= Cardinality(ActiveMembers) + 1
        /\ Cardinality(ActiveMembers \cup {u}) \in Nat
    <3>1. /\ IsFiniteSet(ActiveMembers \cup {u})
          /\ Cardinality(ActiveMembers \cup {u}) =
                IF u \in ActiveMembers THEN Cardinality(ActiveMembers) ELSE Cardinality(ActiveMembers) + 1
      BY FewEnough, FS_AddElement
    <3> QED BY <3>1, FewEnough
  <2>7. IsFiniteSet(ActiveMembers') /\ Cardinality(ActiveMembers') <= Cardinality(ActiveMembers \cup {u})
    BY <2>5, <2>6, FS_Subset
  <2>8. Cardinality(ActiveMembers') \in Nat
    BY <2>7, FS_CardinalityType
  <2> QED BY <2>3, <2>6, <2>7, <2>8, FewEnough, UsersAssumption
<1>4. ASSUME EndsAlone(s), call[s].pc = "leave", call[s].kind = "super_admin"
      PROVE  SuperAdmins' # {}
  <2>1. s = r /\ Cardinality(SuperAdmins) > 1 /\ RemoveAdmin(r)
    BY <1>2, <1>4 DEF StillCounts
  <2>2. PICK x : x = call[r].admin
    OBVIOUS
  <2>3. ASSUME SuperAdmins \subseteq {x} PROVE FALSE
    <3>1. IsFiniteSet({x}) /\ Cardinality({x}) = 1
      BY FS_Singleton
    <3>2. Cardinality(SuperAdmins) <= Cardinality({x})
      BY <2>3, <3>1, FS_Subset
    <3> QED BY <2>1, <3>1, <3>2, FewEnough
  <2>4. PICK y \in SuperAdmins : y # x
    BY <2>3
  <2>5. y \in SuperAdmins'
    BY <2>1, <2>2, <2>4 DEF RemoveAdmin, SuperAdmins, UsersInv, UserRows
  <2> QED BY <2>5
<1> QED BY <1>3, <1>4 DEF SoloSeat, SoloRemoval

\* The invariant holds at first.
LEMMA UsersInvAtFirst == RequestsInit /\ UsersInit => UsersInv
<1> SUFFICES ASSUME RequestsInit, UsersInit PROVE UsersInv
  OBVIOUS
<1>1. \A r \in Requests : UserShape(call[r])
  BY DEF RequestsInit, Unasked, UserShape, AdminSteps
<1>2. member = [u \in Members |-> member[u]]
  BY DEF UsersInit
<1>3. admin \in [Admins -> [kind: {"none", "super_admin", "support"}, active: BOOLEAN]]
  <2>1. admin \in [Admins -> [kind: {"super_admin"}, active: {TRUE}] \cup {NoAdmin}]
    BY DEF UsersInit
  <2>2. [kind: {"super_admin"}, active: {TRUE}] \cup {NoAdmin}
           \subseteq [kind: {"none", "super_admin", "support"}, active: BOOLEAN]
    <3> SUFFICES ASSUME NEW x \in [kind: {"super_admin"}, active: {TRUE}] \cup {NoAdmin}
                 PROVE  x \in [kind: {"none", "super_admin", "support"}, active: BOOLEAN]
      OBVIOUS
    <3>1. ASSUME x \in [kind: {"super_admin"}, active: {TRUE}]
          PROVE  x \in [kind: {"none", "super_admin", "support"}, active: BOOLEAN]
      BY <3>1
    <3>2. NoAdmin \in [kind: {"none", "super_admin", "support"}, active: BOOLEAN]
      BY DEF NoAdmin
    <3> QED BY <3>1, <3>2
  <2>3. PICK S, T : /\ S = [kind: {"super_admin"}, active: {TRUE}] \cup {NoAdmin}
                    /\ T = [kind: {"none", "super_admin", "support"}, active: BOOLEAN]
    OBVIOUS
  <2>4. admin \in [Admins -> S] /\ S \subseteq T
    BY <2>1, <2>2, <2>3
  <2>5. admin \in [Admins -> T]
    BY <2>4
  <2> QED BY <2>3, <2>5
<1> QED BY <1>1, <1>2, <1>3, SoloAtFirst DEF UsersInv, UserRows

\* Nothing happens: the invariant stays.
LEMMA UsersStutter ==
    ASSUME UsersInv, UNCHANGED <<rvars, uvars>>
    PROVE  UsersInv'
<1>1. call' = call /\ member' = member /\ admin' = admin
  BY DEF rvars, uvars
<1>2. Kept' /\ SoloOpen' /\ \A r \in Requests : Solo(r)' <=> Solo(r)
  BY SoloStays DEF UsersInv, rvars
<1> QED BY <1>1, <1>2 DEF UsersInv, UserRows, UserShape, StillCounts, ActiveMembers, SuperAdmins

\* Every step keeps the invariant.
LEMMA UsersInvStays == UsersInv /\ [UsersNext]_<<rvars, uvars>> => UsersInv'
BY UsersStutter, UserStepKeeps DEF UsersNext

\* The guard's count and the count of the super administrators are relied on rightly by every
\* request that nothing overlaps, whatever races and cuts left behind before it.
THEOREM CountsAreReliedOn == UsersSpec => SoloCounts
<1>4. UsersInv /\ [UsersNext]_<<rvars, uvars>> =>
         [\A r \in Requests : SoloSeat(r) /\ SoloRemoval(r)]_<<rvars, uvars>>
  BY UserStepCounts DEF UsersNext
<1> QED BY UsersInvAtFirst, UsersInvStays, <1>4, PTL DEF UsersSpec, SoloCounts

-----------------------------------------------------------------------------
(* PlansService and the modules services *)

PlanPcs  == {"names", "current", "enable", "disable", "assigned", "repair"}
PlanCall == [pc: PlanPcs, want: SUBSET Modules, seen: SUBSET Modules, todo: SUBSET Modules]

PlanShape(q) == q.pc \in PlanSteps /\ (q.pc \in PlanPcs => q \in PlanCall)

PlanRows ==
    /\ plan = [there |-> plan.there, list |-> plan.list] /\ plan.list \in SUBSET Modules
    /\ assigned = [m \in Modules |-> assigned[m]]
    /\ module = [m \in Modules |-> module[m]]

\* What a request has brought in line so far: the wanted rows that are not to be done are on,
\* and what is on besides is to be switched off; or what was read is what is there.
InLine(q) ==
    /\ q.pc = "names" => q.want = plan.list
    /\ q.pc \in {"current", "enable", "disable"} => q.want = plan.list \cap Known
    /\ q.pc = "enable" => /\ On \subseteq q.seen \cup q.want /\ q.want \ q.todo \subseteq On
                          /\ q.todo \subseteq q.want
    /\ q.pc = "disable" => /\ q.want \subseteq On /\ On \subseteq q.want \cup q.todo
                           /\ q.todo \cap q.want = {}
    /\ q.pc = "assigned" => q.seen = plan.list
    /\ q.pc = "repair" => q.want = On

PlanInv ==
    /\ Kept /\ SoloOpen /\ PlanRows
    /\ \A r \in Requests : PlanShape(call[r]) /\ (Solo(r) => InLine(call[r]))

\* Column and rows name the same modules, of those that are active.
Agree == \A m \in Modules : module[m] = "active" => (m \in On <=> m \in plan.list)

Agreeing == PlanPcs \ {"names"}

\* A step keeps the invariant, and if it ends a request that nothing overlapped, both agree.
PlanStepGood(r) ==
    /\ PlanInv'
    /\ \E q : /\ OnlyFor(r, q)
              /\ q.pc = "done" /\ call[r].pc \in Agreeing => alone' = alone /\ (Solo(r) => Agree')

\* What a step of r has to leave.
LEMMA PlanKeeps ==
    ASSUME PlanInv, NEW r \in Requests, NEW q, Kept', SoloOpen', OnlyFor(r, q), PlanRows',
           PlanShape(q), Solo(r)' => InLine(q)'
    PROVE  PlanInv'
<1>1. ASSUME NEW s \in Requests
      PROVE  PlanShape(call[s])' /\ (Solo(s)' => InLine(call[s])')
  <2>1. CASE s = r
    BY <2>1 DEF OnlyFor, PlanShape, InLine
  <2>2. CASE s # r
    BY <2>2 DEF OnlyFor, PlanInv, PlanShape
  <2> QED BY <2>1, <2>2
<1> QED BY <1>1 DEF PlanInv

\* A request that comes in.
LEMMA PlanBegins ==
    ASSUME PlanInv, NEW r \in Requests, NEW q, Begin(r, q), PlanRows', PlanShape(q),
           q.pc # "idle", InLine(q)'
    PROVE  PlanStepGood(r)
<1>1. Kept' /\ SoloOpen' /\ OnlyFor(r, q) /\ call[r].pc = "idle"
  BY SoloBegins DEF PlanInv
<1>2. PlanInv'
  BY <1>1, PlanKeeps
<1> QED BY <1>1, <1>2 DEF PlanStepGood, Agreeing, PlanPcs

\* A request that goes on, or ends with column and rows in line.
LEMMA PlanGoes ==
    ASSUME PlanInv, NEW r \in Requests, NEW pc, NEW q, Go(r, pc, q), PlanRows', PlanShape(q),
           pc \notin {"idle", "done", "swallowed", "lost"}, q.pc # "idle", Solo(r) => InLine(q)',
           Solo(r) /\ pc \in Agreeing /\ q.pc = "done" => Agree'
    PROVE  PlanStepGood(r)
<1>1. Kept' /\ SoloOpen' /\ OnlyFor(r, q) /\ call[r].pc = pc /\ alone' = alone
  BY SoloGoes DEF PlanInv
<1>2. Solo(r)' => Solo(r)
  BY <1>1 DEF Solo, Open
<1>3. PlanInv'
  BY <1>1, <1>2, PlanKeeps
<1> QED BY <1>1, <1>3 DEF PlanStepGood

\* The next row, or the end, of a request for plans.
LEMMA NextRowIs ==
    ASSUME NEW q \in PlanCall, q.pc \in {"enable", "disable"}
    PROVE  /\ q.todo # {} => NextRow(q) = q
           /\ q.todo = {} /\ q.pc = "enable" /\ q.seen \ q.want # {} =>
                 NextRow(q) = [pc |-> "disable", want |-> q.want, seen |-> q.seen, todo |-> q.seen \ q.want]
           /\ q.todo = {} /\ (q.pc = "enable" => q.seen \subseteq q.want) => NextRow(q) = Over
BY DEF NextRow, PlanCall

\* A sync that goes on to its next row stays in line, and one that ends agrees.
LEMMA NextRowInLine ==
    ASSUME PlanInv, NEW r \in Requests, NEW q \in PlanCall, q.pc \in {"enable", "disable"},
           NEW pc \in {"current", "enable", "disable"}, Go(r, pc, NextRow(q)), PlanRows', Solo(r) => InLine(q)'
    PROVE  PlanStepGood(r)
<1>1. PICK to : to = NextRow(q)
  OBVIOUS
<1>2. CASE q.todo # {}
  <2>1. to = q
    BY <1>1, <1>2, NextRowIs
  <2> QED BY <1>1, <2>1, PlanGoes DEF PlanShape, PlanCall, PlanPcs, PlanSteps
<1>3. CASE q.todo = {} /\ q.pc = "enable" /\ q.seen \ q.want # {}
  <2>1. to = [pc |-> "disable", want |-> q.want, seen |-> q.seen, todo |-> q.seen \ q.want]
    BY <1>1, <1>3, NextRowIs
  <2>2. to \in PlanCall /\ to.pc = "disable" /\ PlanShape(to)
    BY <2>1 DEF PlanCall, PlanPcs, PlanShape, PlanSteps
  <2>3. Solo(r) => InLine(to)'
    BY <1>3, <2>1 DEF InLine
  <2> QED BY <1>1, <2>2, <2>3, PlanGoes
<1>4. CASE q.todo = {} /\ (q.pc = "enable" => q.seen \subseteq q.want)
  <2>1. to = Over /\ to.pc = "done" /\ PlanShape(to) /\ InLine(to)'
    BY <1>1, <1>4, NextRowIs DEF Over, PlanShape, PlanSteps, PlanPcs, InLine
  <2>2. ASSUME Solo(r) PROVE Agree'
    <3>1. q.want = (plan.list \cap Known)' /\ On' = q.want
      BY <1>4, <2>2 DEF InLine
    <3> QED BY <3>1 DEF Agree, Known
  <2> QED BY <1>1, <2>1, <2>2, PlanGoes
<1> QED BY <1>2, <1>3, <1>4

\* Creating and updating a plan, and bringing its rows in line.
LEMMA SyncKeeps ==
    ASSUME PlanInv, NEW r \in Requests,
           \/ \E L \in SUBSET Modules : CreatePlan(r, L) \/ UpdatePlan(r, L)
           \/ SyncNames(r) \/ SyncCurrent(r) \/ EnableRow(r) \/ DisableRow(r)
    PROVE  PlanStepGood(r)
<1>1. Over.pc = "done" /\ PlanShape(Over) /\ InLine(Over)'
  BY DEF Over, PlanShape, PlanSteps, PlanPcs, InLine
<1>2. ASSUME NEW L \in SUBSET Modules, CreatePlan(r, L) \/ UpdatePlan(r, L) PROVE PlanStepGood(r)
  <2>1. PICK q : q = Sync(L)
    OBVIOUS
  <2>2. q = [pc |-> "names", want |-> L, seen |-> {}, todo |-> {}]
    BY <2>1 DEF Sync
  <2>3. PlanRows' /\ plan'.list = L
    BY <1>2 DEF CreatePlan, UpdatePlan, PlanInv, PlanRows
  <2>4. PlanShape(q) /\ InLine(q)' /\ q.pc = "names"
    BY <2>2, <2>3 DEF PlanShape, PlanCall, PlanPcs, PlanSteps, InLine
  <2>5. Begin(r, Over) \/ Begin(r, q)
    BY <1>2, <2>1 DEF CreatePlan, UpdatePlan
  <2> QED BY <1>1, <2>3, <2>4, <2>5, PlanBegins
<1>3. ASSUME call[r].pc \in {"names", "current", "enable", "disable"}
      PROVE  /\ call[r] \in PlanCall
             /\ call[r] = [pc |-> call[r].pc, want |-> call[r].want, seen |-> call[r].seen, todo |-> call[r].todo]
             /\ Solo(r) => InLine(call[r])
  <2>1. call[r] \in PlanCall /\ (Solo(r) => InLine(call[r]))
    BY <1>3 DEF PlanInv, PlanShape, PlanPcs
  <2> QED BY <2>1 DEF PlanCall
<1>4. CASE SyncNames(r)
  <2>1. PlanRows' /\ plan' = plan /\ Known' = Known /\ call[r].pc = "names"
    BY <1>4 DEF SyncNames, PlanInv, PlanRows, mvars, Known
  <2>2. PICK q : q = [At(r, "current") EXCEPT !.want = @ \cap Known]
    OBVIOUS
  <2>3. q = [pc |-> "current", want |-> call[r].want \cap Known, seen |-> call[r].seen, todo |-> call[r].todo]
    BY <1>3, <2>1, <2>2 DEF At
  <2>4. PlanShape(q) /\ q.pc = "current"
    BY <1>3, <2>1, <2>3 DEF PlanShape, PlanCall, PlanPcs, PlanSteps
  <2>5. Solo(r) => InLine(q)'
    BY <1>3, <2>1, <2>3 DEF InLine
  <2> QED BY <1>4, <2>1, <2>2, <2>4, <2>5, PlanGoes DEF SyncNames
<1>5. CASE SyncCurrent(r)
  <2>1. /\ PlanRows' /\ plan' = plan /\ Known' = Known /\ On' = On /\ call[r].pc = "current"
        /\ On \subseteq Rows /\ Rows \subseteq Modules
    BY <1>5 DEF SyncCurrent, PlanInv, PlanRows, mvars, Known, On, Rows
  <2>2. PICK q : q = [At(r, "enable") EXCEPT !.seen = Rows, !.todo = call[r].want]
    OBVIOUS
  <2>3. q = [pc |-> "enable", want |-> call[r].want, seen |-> Rows, todo |-> call[r].want]
    BY <1>3, <2>1, <2>2 DEF At
  <2>4. q \in PlanCall /\ q.pc = "enable"
    BY <1>3, <2>1, <2>3 DEF PlanCall, PlanPcs
  <2>5. Solo(r) => InLine(q)'
    BY <1>3, <2>1, <2>3 DEF InLine
  <2> QED BY <1>5, <2>1, <2>2, <2>4, <2>5, NextRowInLine DEF SyncCurrent
<1>6. CASE EnableRow(r)
  <2>1. PICK m \in call[r].todo \cap Known :
           /\ Go(r, "enable", NextRow([call[r] EXCEPT !.todo = @ \ {m}]))
           /\ assigned' = [assigned EXCEPT ![m] = "on"]
    BY <1>6 DEF EnableRow
  <2>2. /\ PlanRows' /\ plan' = plan /\ Known' = Known /\ call[r].pc = "enable"
        /\ On' = On \cup {m}
    BY <1>6, <2>1 DEF EnableRow, PlanInv, PlanRows, Known, On
  <2>3. PICK q : q = [call[r] EXCEPT !.todo = @ \ {m}]
    OBVIOUS
  <2>4. q = [pc |-> "enable", want |-> call[r].want, seen |-> call[r].seen, todo |-> call[r].todo \ {m}]
    BY <1>3, <2>2, <2>3
  <2>5. q \in PlanCall /\ q.pc = "enable"
    BY <1>3, <2>2, <2>4 DEF PlanCall, PlanPcs
  <2>6. Solo(r) => InLine(q)'
    BY <1>3, <2>2, <2>4 DEF InLine
  <2> QED BY <2>1, <2>2, <2>3, <2>5, <2>6, NextRowInLine
<1>7. CASE DisableRow(r)
  <2>1. PICK m \in call[r].todo :
           /\ Go(r, "disable", NextRow([call[r] EXCEPT !.todo = @ \ {m}]))
           /\ assigned' = [assigned EXCEPT ![m] = IF @ = "none" THEN "none" ELSE "off"]
    BY <1>7 DEF DisableRow
  <2>2. /\ PlanRows' /\ plan' = plan /\ Known' = Known /\ call[r].pc = "disable"
        /\ On' = On \ {m}
    BY <1>7, <2>1 DEF DisableRow, PlanInv, PlanRows, Known, On
  <2>3. PICK q : q = [call[r] EXCEPT !.todo = @ \ {m}]
    OBVIOUS
  <2>4. q = [pc |-> "disable", want |-> call[r].want, seen |-> call[r].seen, todo |-> call[r].todo \ {m}]
    BY <1>3, <2>2, <2>3
  <2>5. q \in PlanCall /\ q.pc = "disable"
    BY <1>3, <2>2, <2>4 DEF PlanCall, PlanPcs
  <2>6. Solo(r) => InLine(q)'
    BY <1>3, <2>1, <2>2, <2>4 DEF InLine
  <2> QED BY <2>1, <2>2, <2>3, <2>5, <2>6, NextRowInLine
<1> QED BY <1>2, <1>4, <1>5, <1>6, <1>7

\* Reading a plan, which repairs its column.
LEMMA ReadingKeeps ==
    ASSUME PlanInv, NEW r \in Requests, ReadPlan(r) \/ ReadAssigned(r) \/ Repair(r)
    PROVE  PlanStepGood(r)
<1>1. Over.pc = "done" /\ PlanShape(Over) /\ InLine(Over)'
  BY DEF Over, PlanShape, PlanSteps, PlanPcs, InLine
<1>2. ASSUME call[r].pc \in {"assigned", "repair"}
      PROVE  /\ call[r] \in PlanCall
             /\ call[r] = [pc |-> call[r].pc, want |-> call[r].want, seen |-> call[r].seen, todo |-> call[r].todo]
             /\ Solo(r) => InLine(call[r])
  <2>1. call[r] \in PlanCall /\ (Solo(r) => InLine(call[r]))
    BY <1>2 DEF PlanInv, PlanShape, PlanPcs
  <2> QED BY <2>1 DEF PlanCall
<1>3. CASE ReadPlan(r)
  <2>1. PICK q : q = [pc |-> "assigned", want |-> {}, seen |-> plan.list, todo |-> {}]
    OBVIOUS
  <2>2. PlanRows' /\ plan' = plan /\ plan.list \in SUBSET Modules /\ Begin(r, q)
    BY <1>3, <2>1 DEF ReadPlan, PlanInv, PlanRows, mvars
  <2>3. PlanShape(q) /\ InLine(q)' /\ q.pc = "assigned"
    BY <2>1, <2>2 DEF PlanShape, PlanCall, PlanPcs, PlanSteps, InLine
  <2> QED BY <2>2, <2>3, PlanBegins
<1>4. CASE ReadAssigned(r)
  <2>1. PlanRows' /\ plan' = plan /\ On' = On /\ On \subseteq Modules /\ call[r].pc = "assigned"
    BY <1>4 DEF ReadAssigned, PlanInv, PlanRows, mvars, On
  <2>2. CASE call[r].seen = On
    <3>1. Go(r, "assigned", Over)
      BY <1>4, <2>2 DEF ReadAssigned
    <3>2. Solo(r) => Agree'
      BY <1>2, <2>1, <2>2 DEF InLine, Agree
    <3> QED BY <1>1, <2>1, <3>1, <3>2, PlanGoes
  <2>3. CASE call[r].seen # On
    <3>1. PICK q : q = [At(r, "repair") EXCEPT !.want = On]
      OBVIOUS
    <3>2. q = [pc |-> "repair", want |-> On, seen |-> call[r].seen, todo |-> call[r].todo]
      BY <1>2, <2>1, <3>1 DEF At
    <3>3. PlanShape(q) /\ InLine(q)' /\ q.pc = "repair"
      BY <1>2, <2>1, <3>2 DEF PlanShape, PlanCall, PlanPcs, PlanSteps, InLine
    <3>4. Go(r, "assigned", q)
      BY <1>4, <2>3, <3>1 DEF ReadAssigned
    <3> QED BY <2>1, <3>3, <3>4, PlanGoes
  <2> QED BY <2>2, <2>3
<1>5. CASE Repair(r)
  <2>1. Go(r, "repair", Over) /\ call[r].pc = "repair"
    BY <1>5 DEF Repair, Go
  <2>2. call[r].want \in SUBSET Modules
    BY <1>2, <2>1 DEF PlanCall
  <2>3. PlanRows' /\ plan'.list = call[r].want /\ On' = On /\ module' = module
    BY <1>5, <2>2 DEF Repair, PlanInv, PlanRows, On
  <2>4. Solo(r) => Agree'
    BY <1>2, <2>1, <2>3 DEF InLine, Agree
  <2> QED BY <1>1, <2>1, <2>3, <2>4, PlanGoes
<1> QED BY <1>3, <1>4, <1>5

\* The modules services, which write the rows alone.
LEMMA ModulesKeep ==
    ASSUME PlanInv, NEW r \in Requests,
           \/ \E m \in Modules :
                 \/ \E to \in {"on", "off"} : AssignToPlan(r, m, to)
                 \/ RemoveFromPlan(r, m) \/ RemoveModule(r, m)
                 \/ \E to \in {"active", "inactive"} : WriteModule(r, m, to)
                 \/ \E to \in RowStates : WriteDirect(r, m, to)
           \/ Assign(r) \/ DeleteModule(r)
    PROVE  PlanStepGood(r)
<1>1. ASSUME NEW q, q.pc \in {"assign", "delete", "done"} PROVE PlanShape(q) /\ InLine(q)' /\ q.pc # "idle"
  BY <1>1 DEF PlanShape, PlanSteps, PlanPcs, InLine
<1>2. Over.pc = "done"
  BY DEF Over
<1>3. ASSUME NEW m \in Modules, NEW to, AssignToPlan(r, m, to) PROVE PlanStepGood(r)
  <2>1. PICK q : q = [pc |-> "assign", module |-> m, to |-> to]
    OBVIOUS
  <2>2. Begin(r, q) /\ PlanRows' /\ q.pc = "assign"
    BY <1>3, <2>1 DEF AssignToPlan, PlanInv, PlanRows, mvars
  <2> QED BY <1>1, <2>2, PlanBegins
<1>4. ASSUME NEW m \in Modules, RemoveModule(r, m) PROVE PlanStepGood(r)
  <2>1. PICK q : q = [pc |-> "delete", module |-> m]
    OBVIOUS
  <2>2. Begin(r, q) /\ PlanRows' /\ q.pc = "delete"
    BY <1>4, <2>1 DEF RemoveModule, PlanInv, PlanRows
  <2> QED BY <1>1, <2>2, PlanBegins
<1>5. ASSUME NEW m \in Modules, NEW to, RemoveFromPlan(r, m) \/ WriteModule(r, m, to) \/ WriteDirect(r, m, to)
      PROVE  PlanStepGood(r)
  <2>1. Begin(r, Over) /\ PlanRows'
    BY <1>5 DEF RemoveFromPlan, WriteModule, WriteDirect, PlanInv, PlanRows
  <2> QED BY <1>1, <1>2, <2>1, PlanBegins
<1>6. ASSUME Assign(r) \/ DeleteModule(r) PROVE PlanStepGood(r)
  <2>1. PICK pc \in {"assign", "delete"} : Go(r, pc, Over)
    BY <1>6 DEF Assign, DeleteModule
  <2>2. PlanRows'
    BY <1>6 DEF Assign, DeleteModule, PlanInv, PlanRows
  <2> QED BY <1>1, <1>2, <2>1, <2>2, PlanGoes DEF Agreeing, PlanPcs
<1> QED BY <1>3, <1>4, <1>5, <1>6

\* Every step keeps the invariant, and a request that ends well leaves column and rows in line.
LEMMA PlanStepKeeps ==
    ASSUME PlanInv, NEW r \in Requests, PlanStep(r)
    PROVE  PlanStepGood(r)
<1>0. CASE SyncFails(r)
  <2>1. PICK q : q = [pc |-> "swallowed"]
    OBVIOUS
  <2>2. Kept' /\ SoloOpen' /\ OnlyFor(r, q) /\ ~Solo(r)'
    BY <1>0, <2>1, SoloSwallowed DEF PlanInv, SyncFails
  <2>3. PlanRows' /\ PlanShape(q) /\ q.pc = "swallowed"
    BY <1>0, <2>1 DEF SyncFails, PlanInv, PlanRows, mvars, PlanShape, PlanSteps, PlanPcs
  <2>4. PlanInv'
    BY <2>2, <2>3, PlanKeeps
  <2> QED BY <2>2, <2>3, <2>4 DEF PlanStepGood
<1>1. CASE Lose(r) /\ UNCHANGED mvars
  <2>1. PICK q : q = [pc |-> "lost"]
    OBVIOUS
  <2>2. Kept' /\ SoloOpen' /\ OnlyFor(r, q) /\ ~Solo(r)'
    BY <1>1, <2>1, SoloLost DEF PlanInv
  <2>3. PlanRows' /\ PlanShape(q) /\ q.pc = "lost"
    BY <1>1, <2>1 DEF PlanInv, PlanRows, mvars, PlanShape, PlanSteps, PlanPcs
  <2>4. PlanInv'
    BY <2>2, <2>3, PlanKeeps
  <2> QED BY <2>2, <2>3, <2>4 DEF PlanStepGood
<1> QED BY <1>0, <1>1, SyncKeeps, ReadingKeeps, ModulesKeep DEF PlanStep

\* The invariant holds at first.
LEMMA PlanInvAtFirst == RequestsInit /\ PlanInit => PlanInv
<1> SUFFICES ASSUME RequestsInit, PlanInit PROVE PlanInv
  OBVIOUS
<1>1. \A r \in Requests : PlanShape(call[r])
  BY DEF RequestsInit, Unasked, PlanShape, PlanPcs, PlanSteps
<1>2. PlanRows
  BY DEF PlanInit, PlanRows
<1> QED BY <1>1, <1>2, SoloAtFirst DEF PlanInv

\* Nothing happens: the invariant stays.
LEMMA PlanStutter ==
    ASSUME PlanInv, UNCHANGED <<rvars, mvars>>
    PROVE  PlanInv'
<1>1. call' = call /\ plan' = plan /\ assigned' = assigned /\ module' = module
  BY DEF rvars, mvars
<1>2. Kept' /\ SoloOpen' /\ \A r \in Requests : Solo(r)' <=> Solo(r)
  BY SoloStays DEF PlanInv, rvars
<1> QED BY <1>1, <1>2 DEF PlanInv, PlanRows, PlanShape, InLine, On, Known

\* Every step keeps the invariant.
LEMMA PlanInvStays == PlanInv /\ [PlanNext]_<<rvars, mvars>> => PlanInv'
BY PlanStutter, PlanStepKeeps DEF PlanNext, PlanStepGood

\* A step of a sync writes one row at most, and puts it where the column says if nothing has
\* overlapped the request.
LEMMA SyncGoesNearer ==
    ASSUME PlanInv, NEW r \in Requests, PlanStep(r), call[r].pc \in SyncPcs
    PROVE  alone' = alone /\ (Solo(r) => NoFurther)
<1> DEFINE Nearer == /\ plan' = plan /\ module' = module /\ direct' = direct
                     /\ On \cap plan.list \cap Known \subseteq On' /\ On' \subseteq On \cup plan.list
<1>1. Nearer => NoFurther
  BY DEF NoFurther, TenantModules, Known, On
<1>2. ASSUME UNCHANGED mvars PROVE Nearer
  BY <1>2 DEF mvars, On
<1>3. CASE EnableRow(r)
  <2>1. PICK m \in call[r].todo : assigned' = [assigned EXCEPT ![m] = "on"]
    BY <1>3 DEF EnableRow
  <2>2. call[r].pc = "enable" /\ call[r] \in PlanCall /\ (Solo(r) => m \in plan.list)
    BY <1>3, <2>1 DEF EnableRow, PlanInv, PlanShape, PlanPcs, InLine
  <2>3. On' = On \cup {m} /\ plan' = plan /\ module' = module /\ direct' = direct /\ alone' = alone
    BY <1>3, <2>1, <2>2 DEF EnableRow, Go, PlanInv, PlanRows, PlanCall, On
  <2> QED BY <1>1, <2>2, <2>3
<1>4. CASE DisableRow(r)
  <2>1. PICK m \in call[r].todo :
            assigned' = [assigned EXCEPT ![m] = IF @ = "none" THEN "none" ELSE "off"]
    BY <1>4 DEF DisableRow
  <2>2. /\ call[r].pc = "disable" /\ call[r] \in PlanCall
        /\ Solo(r) => m \notin plan.list \cap Known
    BY <1>4, <2>1 DEF DisableRow, PlanInv, PlanShape, PlanPcs, InLine
  <2>3. On' = On \ {m} /\ plan' = plan /\ module' = module /\ direct' = direct /\ alone' = alone
    BY <1>4, <2>1, <2>2 DEF DisableRow, Go, PlanInv, PlanRows, PlanCall, On
  <2> QED BY <1>1, <2>2, <2>3
<1>5. ASSUME SyncNames(r) \/ SyncCurrent(r) \/ SyncFails(r) \/ (Lose(r) /\ UNCHANGED mvars)
      PROVE  UNCHANGED mvars /\ alone' = alone
  BY <1>5 DEF SyncNames, SyncCurrent, SyncFails, Go, Lose, Swallow
<1>6. \/ EnableRow(r) \/ DisableRow(r) \/ SyncNames(r) \/ SyncCurrent(r) \/ SyncFails(r)
      \/ Lose(r) /\ UNCHANGED mvars
  <2>1. ASSUME NEW q, Begin(r, q) PROVE FALSE
    BY <2>1 DEF Begin, SyncPcs
  <2>2. ASSUME NEW pc \in {"assigned", "repair", "assign", "delete"}, NEW q, Go(r, pc, q) PROVE FALSE
    BY <2>2 DEF Go, SyncPcs
  <2>3. ASSUME NEW L, CreatePlan(r, L) \/ UpdatePlan(r, L) PROVE FALSE
    BY <2>1, <2>3 DEF CreatePlan, UpdatePlan
  <2>4. ASSUME ReadPlan(r) \/ ReadAssigned(r) \/ Repair(r) \/ Assign(r) \/ DeleteModule(r) PROVE FALSE
    BY <2>1, <2>2, <2>4 DEF ReadPlan, ReadAssigned, Repair, Assign, DeleteModule
  <2>5. ASSUME NEW m, NEW to,
               \/ AssignToPlan(r, m, to) \/ RemoveFromPlan(r, m) \/ RemoveModule(r, m)
               \/ WriteModule(r, m, to) \/ WriteDirect(r, m, to)
        PROVE  FALSE
    BY <2>1, <2>5 DEF AssignToPlan, RemoveFromPlan, RemoveModule, WriteModule, WriteDirect
  <2> QED BY <2>3, <2>4, <2>5 DEF PlanStep
<1> QED BY <1>1, <1>2, <1>3, <1>4, <1>5, <1>6

\* Whatever half-done updates, swallowed errors, repairs and removals came before: a sync that
\* nothing overlaps moves its tenants' modules towards the column only, and one that meets no
\* error, like any reading, leaves them as the column names them.
THEOREM PlansAgreeAlone == PlanSpec => SoloAgrees
<1>4. ASSUME PlanInv, NEW r \in Requests, PlanStep(r), NEW s \in Requests, EndsAlone(s),
             call[s].pc \in {"current", "enable", "disable", "assigned", "repair"}
      PROVE  InLineAfter
  <2>1. PICK q : /\ OnlyFor(r, q)
                 /\ q.pc = "done" /\ call[r].pc \in Agreeing => alone' = alone /\ (Solo(r) => Agree')
    BY <1>4, PlanStepKeeps DEF PlanStepGood
  <2>2. s = r /\ q.pc = "done" /\ alone'[r]
    BY <1>4, <2>1, WhoEndsAlone
  <2>3. Agree'
    BY <1>4, <2>1, <2>2 DEF Agreeing, PlanPcs, Solo, Open
  <2>4. PlanInv'
    BY <1>4, PlanStepKeeps DEF PlanStepGood
  <2>5. On' \subseteq Modules /\ plan'.list \subseteq Modules
    BY <2>4 DEF PlanInv, PlanRows, On
  <2> QED BY <2>3, <2>5 DEF Agree, TenantModules, InLineAfter
<1>5. ASSUME PlanInv, NEW r \in Requests, PlanStep(r), NEW s \in Requests, alone'[s],
             call'[s] # call[s], call[s].pc \in SyncPcs
      PROVE  NoFurther
  <2>1. s = r
    BY <1>5, PlanStepKeeps DEF PlanStepGood, OnlyFor
  <2>2. alone' = alone /\ (Solo(r) => NoFurther)
    BY <1>5, <2>1, SyncGoesNearer
  <2> QED BY <1>5, <2>1, <2>2 DEF Solo, Open, SyncPcs
<1>6. PlanInv /\ [PlanNext]_<<rvars, mvars>> =>
         [\A r \in Requests :
             /\ EndsAlone(r) /\ call[r].pc \in {"current", "enable", "disable", "assigned", "repair"} =>
                   InLineAfter
             /\ alone'[r] /\ call'[r] # call[r] /\ call[r].pc \in SyncPcs => NoFurther
         ]_<<rvars, mvars>>
  BY <1>4, <1>5 DEF PlanNext
<1> QED BY PlanInvAtFirst, PlanInvStays, <1>6, PTL DEF PlanSpec, SoloAgrees
=============================================================================

----------------------------- MODULE TenantClients -----------------------------
(***************************************************************************)
(* TenantPrismaService: every request asks for the database client of its  *)
(* tenant. Clients are kept in one static map; a request that finds none   *)
(* reads the tenant's credentials, makes a client, connects it and only    *)
(* then stores it. A client is named after the request that made it.       *)
(***************************************************************************)
EXTENDS Requests

CONSTANTS Companies,    \* the tenants
          Registered    \* those whose row holds database credentials

ASSUME NoIsNoRequest == "none" \notin Requests

VARIABLES
    client,  \* client[r]: the client r made
    cache    \* cache[c]: the client stored for c

cvars == <<client, cache>>

ClientSteps == {"idle", "build", "connect", "answered", "lost"}

ClientsTypeOK ==
    /\ client \in [Requests -> {"none", "open", "closed"}]
    /\ cache \in [Companies -> Requests \cup {"none"}]
    /\ \A r \in Requests : call[r].pc \in ClientSteps

ClientsInit ==
    /\ client = [r \in Requests |-> "none"]
    /\ cache = [c \in Companies |-> "none"]

-----------------------------------------------------------------------------
\* The map is looked up; a stored client is the answer at once.
AskClient(r, c) ==
    /\ Begin(r, [pc |-> IF cache[c] = "none" THEN "build" ELSE "answered",
                 tenant |-> c, server |-> "none", got |-> cache[c]])
    /\ UNCHANGED cvars

\* Credentials that are missing, or cannot be read or decrypted, and a tenant that is not
\* found give way to those of the environment.
Servers(c) == {"environment"} \cup IF c \in Registered THEN {"own"} ELSE {}

\* Mutant: the client is stored before it is connected.
BuildConnectionHasty(r) ==
    /\ call[r].pc = "build"
    /\ \E s \in Servers(call[r].tenant) :
          Go(r, "build", [At(r, "connect") EXCEPT !.server = s])
    /\ cache' = [cache EXCEPT ![call[r].tenant] = r]
    /\ UNCHANGED client

BuildConnection(r) ==
    /\ call[r].pc = "build"
    /\ \E s \in Servers(call[r].tenant) :
          Go(r, "build", [At(r, "connect") EXCEPT !.server = s])
    /\ UNCHANGED cvars

\* What r has connected replaces what another request stored in the meantime.
Connect(r) ==
    /\ Go(r, "connect", [At(r, "answered") EXCEPT !.got = r])
    /\ client' = [client EXCEPT ![r] = "open"]
    /\ cache' = [cache EXCEPT ![call[r].tenant] = r]

ConnectFails(r) ==
    /\ Pass(r, "connect", "lost")
    /\ client' = [client EXCEPT ![r] = "closed"]
    /\ UNCHANGED cache

\* The process restarts: requests, clients and map are gone.
RestartServer ==
    /\ \E r \in Requests : client[r] = "open"
    /\ call' = [r \in Requests |-> IF call[r].pc = "idle" THEN call[r] ELSE At(r, "lost")]
    /\ client' = [r \in Requests |-> IF client[r] = "none" THEN "none" ELSE "closed"]
    /\ cache' = [c \in Companies |-> "none"]
    /\ UNCHANGED alone

ClientStep(r) ==
    \/ \E c \in Companies : AskClient(r, c)
    \/ BuildConnection(r) \/ Connect(r) \/ ConnectFails(r)

ClientsNext == (\E r \in Requests : ClientStep(r)) \/ RestartServer

ClientsSpec == (RequestsInit /\ ClientsInit) /\ [][ClientsNext]_<<rvars, cvars>>

-----------------------------------------------------------------------------
(* Properties *)

\* However requests race, fail to connect or are cut off, every stored client and every
\* client a request was answered with is connected, to the database of that very tenant.
ClientsAreOpen ==
    /\ \A c \in Companies : cache[c] # "none" =>
            /\ client[cache[c]] = "open"
            /\ call[cache[c]].tenant = c
    /\ \A r \in Requests : call[r].pc = "answered" =>
            /\ client[call[r].got] = "open"
            /\ call[call[r].got].tenant = call[r].tenant

\* The size of the map is the number of open connections (getActiveConnectionsCount).
MapTellsClients == \A r \in Requests : client[r] = "open" => cache[call[r].tenant] = r
=============================================================================

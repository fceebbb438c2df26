------------------------- MODULE TenantProvisioning -------------------------
(***************************************************************************)
(* TenantProvisioningProcessor: the background job that builds a new       *)
(* tenant's database and opens the tenant, the BullMQ queue that retries   *)
(* it, the progress record in Redis and the status a client is told.       *)
(*                                                                         *)
(* A run of the job writes to four places that no transaction spans: the   *)
(* tenant and user rows of the superadmin database, the tenant's own       *)
(* database, and Redis. Each await is a step; a step may fail, and the     *)
(* worker process may die between any two, which loses its timers too. A   *)
(* worker that does not get to renew its lock on the job in time loses it: *)
(* the queue gives the job to another run while the first one goes on.     *)
(* The final look at the database before activation is part of Activate.   *)
(***************************************************************************)
EXTENDS Integers, FiniteSets

CONSTANTS Tenants,      \* tenant ids, each drawn once (UUID)
          Emails,       \* addresses of registering administrators
          Slugs,        \* tenant slugs
          Workers,      \* server processes, each working on one job at a time
          MaxAttempts,  \* attempts the job is enqueued with (3)
          MaxStalls,    \* times BullMQ requeues a job nobody holds the lock of (1)
          MaxCrashes    \* bound: deaths of worker processes

ASSUME ProvisioningAssumption ==
    /\ MaxAttempts \in Nat \ {0}
    /\ MaxStalls \in Nat
    /\ MaxCrashes \in Nat
    /\ "none" \notin Tenants \cup Emails \cup Slugs
    /\ IsFiniteSet(Workers)

VARIABLES tenants,   \* tenant rows; status "absent" is no row
          users,     \* users[e]: the superadmin user row of address e
          job,       \* job[t]: the provisioning job of t in BullMQ; history: lapsed, that a run
                     \* of it has gone on without its lock
          run,       \* run[w]: the step worker w is at, for which tenant, and whether it has the
                     \* lock of that tenant's job
          db,        \* db[t]: what exists of t's own database
          progress,  \* progress[t]: the status in Redis, "none" without a record
          timers,    \* <<w, t>>: a setTimeout of w will clear t's Redis record
          crashes

jobvars == <<job, run, timers, crashes>>
pvars   == <<tenants, users, job, run, db, progress, timers, crashes>>

Everything == {"database", "schema", "admin"}

Announced == {"provisioning", "creating_database", "running_migrations",
              "creating_initial_user", "completed"}

\* The order of process; "welcome" activates the administrator's user row.
After == [mark                  |-> "provisioning",
          provisioning          |-> "creating_database",
          creating_database     |-> "database",
          database              |-> "running_migrations",
          running_migrations    |-> "schema",
          schema                |-> "creating_initial_user",
          creating_initial_user |-> "admin",
          admin                 |-> "completed",
          completed             |-> "activate",
          activate              |-> "welcome",
          welcome               |-> "return"]

Working == DOMAIN After
Failing == {"report", "record", "throw"}

TenantRow == [status: {"absent", "pending", "provisioning", "completed", "failed"},
              active: BOOLEAN, attempts: Nat,
              slug: Slugs \cup {"none"}, email: Emails \cup {"none"}]
NoTenant  == [status |-> "absent", active |-> FALSE, attempts |-> 0,
              slug |-> "none", email |-> "none"]
NoUser    == [tenant |-> "none", active |-> FALSE]
NoJob     == [state |-> "none", made |-> 0, stalls |-> 0, lapsed |-> FALSE]
AtRest    == [pc |-> "idle", tenant |-> "none", lock |-> FALSE]

ProvTypeOK ==
    /\ tenants \in [Tenants -> TenantRow]
    /\ users \in [Emails -> [tenant: Tenants \cup {"none"}, active: BOOLEAN]]
    /\ job \in [Tenants -> [state: {"none", "waiting", "active", "delayed", "completed", "failed"},
                            made: 0..MaxAttempts, stalls: 0..MaxStalls, lapsed: BOOLEAN]]
    /\ run \in [Workers -> {AtRest} \cup [pc: Working \cup Failing \cup {"return"},
                                          tenant: Tenants, lock: BOOLEAN]]
    /\ db \in [Tenants -> SUBSET Everything]
    /\ progress \in [Tenants -> Announced \cup {"failed", "none"}]
    /\ timers \subseteq Workers \X Tenants
    /\ crashes \in 0..MaxCrashes

Goto(w, pc) == run' = [run EXCEPT ![w].pc = pc]
StepOn(w)   == run[w].pc
Subject(w)  == run[w].tenant
Holds(w)    == run[w].lock

-----------------------------------------------------------------------------
(* The run of a job *)

TakeJob(w, t) ==
    /\ run[w] = AtRest
    /\ job[t].state = "waiting"
    /\ job' = [job EXCEPT ![t].state = "active"]
    /\ run' = [run EXCEPT ![w] = [pc |-> "mark", tenant |-> t, lock |-> TRUE]]
    /\ UNCHANGED <<tenants, users, db, progress, timers, crashes>>

Mark(w) ==
    /\ StepOn(w) = "mark"
    /\ tenants' = [tenants EXCEPT ![Subject(w)].status = "provisioning"]
    /\ Goto(w, After["mark"])
    /\ UNCHANGED <<users, job, db, progress, timers, crashes>>

\* Mutant: the status that ends the run is announced before the administrator exists.
AnnouncedEarly(pc) == IF pc = "creating_initial_user" THEN "completed" ELSE pc

\* The status a step announces is named after it.
AnnouncedBy(pc) == pc

Announce(w) ==
    /\ StepOn(w) \in Announced
    /\ progress' = [progress EXCEPT ![Subject(w)] = AnnouncedBy(StepOn(w))]
    /\ Goto(w, After[StepOn(w)])
    /\ UNCHANGED <<tenants, users, job, db, timers, crashes>>

\* createTenantDatabase, runTenantMigration, createInitialUser: each skips what a former
\* attempt left behind.
Build(w) ==
    /\ StepOn(w) \in Everything
    /\ StepOn(w) # "database" => "database" \in db[Subject(w)]
    /\ db' = [db EXCEPT ![Subject(w)] = @ \cup {StepOn(w)}]
    /\ Goto(w, After[StepOn(w)])
    /\ UNCHANGED <<tenants, users, job, progress, timers, crashes>>

\* Mutant: the tenant is made active, its provisioning not marked as completed.
OpenedUnmarked(row) == [row EXCEPT !.active = TRUE]

Opened(row) == [row EXCEPT !.status = "completed", !.active = TRUE]

Activate(w) ==
    /\ StepOn(w) = "activate"
    /\ "database" \in db[Subject(w)]
    /\ tenants' = [tenants EXCEPT ![Subject(w)] = Opened(@)]
    /\ Goto(w, After["activate"])
    /\ UNCHANGED <<users, job, db, progress, timers, crashes>>

Welcome(w) ==
    LET e == tenants[Subject(w)].email IN
    /\ StepOn(w) = "welcome"
    /\ users' = IF users[e].tenant # "none" THEN [users EXCEPT ![e].active = TRUE] ELSE users
    /\ Goto(w, After["welcome"])
    /\ UNCHANGED <<tenants, job, db, progress, timers, crashes>>

\* The run returns and the job completes; process and onCompleted have each set a timer.
Return(w) ==
    /\ StepOn(w) = "return" /\ Holds(w)
    /\ job' = [job EXCEPT ![Subject(w)].state = "completed"]
    /\ timers' = timers \cup {<<w, Subject(w)>>}
    /\ run' = [run EXCEPT ![w] = AtRest]
    /\ UNCHANGED <<tenants, users, db, progress, crashes>>

-----------------------------------------------------------------------------
(* A failing run: the catch block, the queue's retry, onFailed *)

Fail(w) ==
    /\ StepOn(w) \in Working
    /\ Goto(w, "report")
    /\ UNCHANGED <<tenants, users, job, db, progress, timers, crashes>>

ReportFailure(w) ==
    /\ StepOn(w) = "report"
    /\ progress' = [progress EXCEPT ![Subject(w)] = "failed"]
    /\ Goto(w, "record")
    /\ UNCHANGED <<tenants, users, job, db, timers, crashes>>

RecordFailure(w) ==
    /\ StepOn(w) = "record"
    /\ tenants' = [tenants EXCEPT ![Subject(w)].status = "failed",
                                  ![Subject(w)].attempts = @ + 1]
    /\ Goto(w, "throw")
    /\ UNCHANGED <<users, job, db, progress, timers, crashes>>

\* A write of the catch block fails and its error replaces the first one.
CatchFails(w) ==
    /\ StepOn(w) \in {"report", "record"}
    /\ Goto(w, "throw")
    /\ UNCHANGED <<tenants, users, job, db, progress, timers, crashes>>

\* Mutant: a failed attempt is not counted.
MadeUncounted(t) == job[t].made

MadeNow(t) == job[t].made + 1

\* onFailed: at the last attempt but one, counting from the end, the record is to go.
OnFailed(w, t, made) ==
    timers' = IF made >= MaxAttempts - 1 THEN timers \cup {<<w, t>>} ELSE timers

Throw(w) ==
    LET t == Subject(w) IN
    /\ StepOn(w) = "throw" /\ Holds(w)
    /\ job' = [job EXCEPT ![t].made = MadeNow(t),
                          ![t].state = IF MadeNow(t) < MaxAttempts THEN "delayed" ELSE "failed"]
    /\ OnFailed(w, t, MadeNow(t))
    /\ run' = [run EXCEPT ![w] = AtRest]
    /\ UNCHANGED <<tenants, users, db, progress, crashes>>

Retry(t) ==
    /\ job[t].state = "delayed"
    /\ job' = [job EXCEPT ![t].state = "waiting"]
    /\ UNCHANGED <<tenants, users, run, db, progress, timers, crashes>>

-----------------------------------------------------------------------------
(* Workers lose the lock of their job; their processes die, and their timers with them *)

\* The lock runs out: the event loop was blocked, or Redis out of reach, for too long.
Lapse(w) ==
    /\ Holds(w)
    /\ run' = [run EXCEPT ![w].lock = FALSE]
    /\ job' = [job EXCEPT ![Subject(w)].lapsed = TRUE]
    /\ UNCHANGED <<tenants, users, db, progress, timers, crashes>>

\* The queue takes no result from a run that has lost the lock, and raises no event for it; only
\* the timer of process itself is set.
EndLate(w) ==
    /\ StepOn(w) \in {"return", "throw"} /\ ~Holds(w)
    /\ timers' = IF StepOn(w) = "return" THEN timers \cup {<<w, Subject(w)>>} ELSE timers
    /\ run' = [run EXCEPT ![w] = AtRest]
    /\ UNCHANGED <<tenants, users, job, db, progress, crashes>>

Crash(w) ==
    /\ crashes < MaxCrashes
    /\ crashes' = crashes + 1
    /\ run' = [run EXCEPT ![w] = AtRest]
    /\ timers' = {m \in timers : m[1] # w}
    /\ UNCHANGED <<tenants, users, job, db, progress>>

Abandoned(t) ==
    /\ job[t].state = "active"
    /\ \A w \in Workers : Holds(w) => Subject(w) # t

\* A worker finds the lock of a job expired: back to the queue, or failed once too often.
Stalled(w, t) ==
    /\ Abandoned(t)
    /\ \/ /\ job[t].stalls < MaxStalls
          /\ job' = [job EXCEPT ![t].state = "waiting", ![t].stalls = @ + 1]
          /\ UNCHANGED timers
       \/ /\ job[t].stalls = MaxStalls
          /\ job' = [job EXCEPT ![t].state = "failed", ![t].made = @ + 1]
          /\ OnFailed(w, t, job[t].made + 1)
    /\ UNCHANGED <<tenants, users, run, db, progress, crashes>>

-----------------------------------------------------------------------------
(* Redis records and what a client is told *)

ClearStatus(w, t) ==
    /\ <<w, t>> \in timers
    /\ timers' = timers \ {<<w, t>>}
    /\ progress' = [progress EXCEPT ![t] = "none"]
    /\ UNCHANGED <<tenants, users, job, run, db, crashes>>

Over(t) == job[t].state \in {"completed", "failed"}

\* Mutant: the record is written without its hour of life.
ExpiresNever(t) == FALSE

\* The hour passes only after the job is over: its attempts take minutes.
Expires(t) == Over(t) /\ progress[t] # "none"

Expire(t) ==
    /\ Expires(t)
    /\ progress' = [progress EXCEPT ![t] = "none"]
    /\ UNCHANGED <<tenants, users, job, run, db, timers, crashes>>

\* getProvisioningStatus: the Redis record, or else the status of the tenant row.
Reported(t) == IF progress[t] # "none" THEN progress[t] ELSE tenants[t].status

\* updateTenantStatus: a superadmin suspends or activates a tenant.
SetActive(t, b) ==
    /\ tenants[t].status # "absent"
    /\ tenants' = [tenants EXCEPT ![t].active = b]
    /\ UNCHANGED <<users, job, run, db, progress, timers, crashes>>

-----------------------------------------------------------------------------
Proceed(w) ==
    \/ \E t \in Tenants : TakeJob(w, t)
    \/ Mark(w) \/ Announce(w) \/ Build(w) \/ Activate(w) \/ Welcome(w) \/ Return(w)
    \/ ReportFailure(w) \/ RecordFailure(w) \/ Throw(w) \/ EndLate(w)

Serve(t) ==
    \/ Retry(t)
    \/ \E w \in Workers : Stalled(w, t)

ProvNext ==
    \/ \E w \in Workers : Proceed(w) \/ Fail(w) \/ CatchFails(w) \/ Lapse(w) \/ Crash(w)
    \/ \E t \in Tenants : Serve(t) \/ Expire(t)
    \/ \E w \in Workers, t \in Tenants : ClearStatus(w, t)
    \/ \E t \in Tenants, b \in BOOLEAN : SetActive(t, b)

\* Every tenant is registered, its administrator too, and its job is queued.
Registered(address) ==
    /\ tenants = [t \in Tenants |-> [status |-> "pending", active |-> FALSE, attempts |-> 0,
                                     slug |-> "none", email |-> address[t]]]
    /\ users = [e \in Emails |-> IF \E t \in Tenants : address[t] = e
                     THEN [tenant |-> CHOOSE t \in Tenants : address[t] = e, active |-> FALSE]
                     ELSE NoUser]
    /\ job = [t \in Tenants |-> [NoJob EXCEPT !.state = "waiting"]]

Unbuilt ==
    /\ run = [w \in Workers |-> AtRest]
    /\ db = [t \in Tenants |-> {}]
    /\ progress = [t \in Tenants |-> "none"]
    /\ timers = {}
    /\ crashes = 0

\* Distinct tenants register with distinct addresses (users.email is unique).
Addresses == {a \in [Tenants -> Emails] : \A t, u \in Tenants : a[t] = a[u] => t = u}

ProvStart == (\E a \in Addresses : Registered(a)) /\ Unbuilt

ProvSpec == ProvStart /\ [][ProvNext]_pvars

\* A process that lives works on; the queue promotes delayed jobs and looks for stalled
\* ones; Redis expires its keys. Failures, lapses, crashes and the timers have no fairness.
ProvFairness ==
    /\ \A w \in Workers : WF_pvars(Proceed(w))
    /\ \A t \in Tenants : WF_pvars(Serve(t)) /\ WF_pvars(Expire(t))

ProvFairSpec == ProvSpec /\ ProvFairness

-----------------------------------------------------------------------------
(* Properties *)

\* A tenant marked completed has its whole database, whatever attempts and crashes came
\* before, and so has one a client is told is completed.
CompletedIsBuilt ==
    \A t \in Tenants :
        "completed" \in {tenants[t].status, Reported(t)} => db[t] = Everything

\* A job that completed has opened its tenant: the administrator may log in, and the row is
\* completed. No repeated attempt takes the first back; the second only a run that went on
\* without the job's lock may, which marks the row anew, or failed (process 60-65, 262-269).
CompletedJobOpensTenant ==
    \A t \in Tenants : job[t].state = "completed" =>
        /\ users[tenants[t].email].active
        /\ job[t].lapsed \/ tenants[t].status = "completed"

\* The same with the row completed whatever runs went on: what one would like to have.
CompletedJobStaysOpen ==
    \A t \in Tenants : job[t].state = "completed" =>
        users[tenants[t].email].active /\ tenants[t].status = "completed"

\* provisioningAttempts never counts more failures than there were runs of the job, the
\* repeated runs of a job that had stalled included, two at a time of them too.
AttemptsAreRuns ==
    \A t \in Tenants :
        tenants[t].attempts <=
            job[t].made + job[t].stalls + (IF job[t].state = "active" THEN 1 ELSE 0)

\* The queue gives every job its end: completed or failed for good.
JobsEnd == \A t \in Tenants : (job[t].state = "waiting") ~> Over(t)

\* The Redis record of a job that is over goes away, even if the process that was to clear
\* it has died.
RecordsGo == \A t \in Tenants : Over(t) ~> (Over(t) /\ progress[t] = "none")

\* Once told that provisioning is completed, a client is not told of a failure later.
NotRetracted ==
    \A t \in Tenants : progress[t] = "completed" => progress'[t] \in {"completed", "none"}
CompletedIsNotRetracted == [][NotRetracted]_pvars

\* A tenant row that is completed stays so.
StaysCompleted ==
    \A t \in Tenants : tenants[t].status = "completed" => tenants'[t].status = "completed"
CompletedIsFinal == [][StaysCompleted]_pvars

\* While the queue will still work on a job, its progress record is kept.
KeepsRecord ==
    \A t \in Tenants : progress[t] # "none" /\ ~Over(t) => progress'[t] # "none"
RecordKeptWhileRetrying == [][KeepsRecord]_pvars
=============================================================================

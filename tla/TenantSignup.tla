---------------------------- MODULE TenantSignup ----------------------------
(***************************************************************************)
(* How tenants come into being: AuthService.register, which writes an      *)
(* inactive tenant and user and queues the provisioning job, and           *)
(* TenantService.createTenant, with which a superadmin builds a tenant at  *)
(* once. Both check first and write later, row by row, without a           *)
(* transaction; register undoes nothing when a later step fails.           *)
(*   register      email -> slug -> tenant -> user -> hold -> queue        *)
(*   createTenant  look -> insert -> create -> migrate -> close            *)
(***************************************************************************)
EXTENDS TenantProvisioning

CONSTANT Kinds  \* the ways to sign up that are explored: "register", "create"

VARIABLE signup  \* signup[t]: the request that drew the id t

svars == <<tenants, users, job, run, db, progress, timers, crashes, signup>>

NotAsked == [pc |-> "new", kind |-> "none", slug |-> "none", email |-> "none"]

SignupSteps == {"new", "email", "slug", "tenant", "user", "hold", "queue",
                "look", "insert", "create", "migrate", "close", "undo", "done", "dropped"}

SignupTypeOK ==
    /\ ProvTypeOK
    /\ signup \in [Tenants -> [pc: SignupSteps, kind: Kinds \cup {"none"},
                               slug: Slugs \cup {"none"}, email: Emails \cup {"none"}]]

SignupInit ==
    /\ tenants = [t \in Tenants |-> NoTenant]
    /\ users = [e \in Emails |-> NoUser]
    /\ job = [t \in Tenants |-> NoJob]
    /\ Unbuilt
    /\ signup = [t \in Tenants |-> NotAsked]

Step(t, from, to) ==
    /\ signup[t].pc = from
    /\ signup' = [signup EXCEPT ![t].pc = to]

Arrive(t, kind, s, e, pc) ==
    /\ kind \in Kinds
    /\ signup[t].pc = "new"
    /\ signup' = [signup EXCEPT ![t] = [pc |-> pc, kind |-> kind, slug |-> s, email |-> e]]
    /\ UNCHANGED pvars

Slug(t)  == signup[t].slug
Email(t) == signup[t].email
SlugTaken(s) == \E u \in Tenants : tenants[u].status # "absent" /\ tenants[u].slug = s

\* The columns slug and email are unique: an insert of a taken value fails.
InsertTenant(t, active) ==
    /\ ~SlugTaken(Slug(t))
    /\ tenants' = [tenants EXCEPT ![t] = [status |-> "pending", active |-> active,
                                          attempts |-> 0, slug |-> Slug(t), email |-> Email(t)]]
    /\ UNCHANGED <<users, job, run, db, progress, timers, crashes>>

-----------------------------------------------------------------------------
(* register *)

Register(t, s, e) == Arrive(t, "register", s, e, "email")

CheckEmail(t) ==
    /\ Step(t, "email", "slug")
    /\ users[Email(t)].tenant = "none"
    /\ UNCHANGED pvars

CheckSlug(t) ==
    /\ ~SlugTaken(Slug(t))
    /\ Step(t, "slug", "tenant")
    /\ UNCHANGED pvars

\* Mutant: the job is queued without waiting for the user row.
AfterTenantHasty == "queue"

AfterTenant == "user"

CreateTenantRow(t) == Step(t, "tenant", AfterTenant) /\ InsertTenant(t, FALSE)

\* usersService.create makes an active user ...
CreateUser(t) ==
    /\ Step(t, "user", "hold")
    /\ users[Email(t)].tenant = "none"
    /\ users' = [users EXCEPT ![Email(t)] = [tenant |-> t, active |-> TRUE]]
    /\ UNCHANGED <<tenants, job, run, db, progress, timers, crashes>>

\* Mutant: the user is not held back.
HeldNot(u) == u

Held(u) == [u EXCEPT !.active = FALSE]

\* ... that the next statement holds back until provisioning is over.
HoldUser(t) ==
    /\ Step(t, "hold", "queue")
    /\ users' = [users EXCEPT ![Email(t)] = Held(@)]
    /\ UNCHANGED <<tenants, job, run, db, progress, timers, crashes>>

QueueJob(t) ==
    /\ Step(t, "queue", "done")
    /\ job' = [job EXCEPT ![t].state = "waiting"]
    /\ UNCHANGED <<tenants, users, run, db, progress, timers, crashes>>

-----------------------------------------------------------------------------
(* createTenant; its domain and subscription rows, whose failure it ignores, left out *)

CreateTenant(t, s) == Arrive(t, "create", s, "none", "look")

LookForSlug(t) ==
    /\ ~SlugTaken(Slug(t))
    /\ Step(t, "look", "insert")
    /\ UNCHANGED pvars

InsertActiveTenant(t) == Step(t, "insert", "create") /\ InsertTenant(t, TRUE)

BuildNow(t, part, from, to) ==
    /\ Step(t, from, to)
    /\ db' = [db EXCEPT ![t] = @ \cup {part}]
    /\ UNCHANGED <<tenants, users, job, run, progress, timers, crashes>>

\* provisionedAt is set; the provisioning status stays pending.
Close(t) == Step(t, "close", "done") /\ UNCHANGED pvars

BuildFails(t) ==
    /\ signup[t].pc \in {"create", "migrate", "close"}
    /\ signup' = [signup EXCEPT ![t].pc = "undo"]
    /\ UNCHANGED pvars

\* The rollback deletes the tenant row and leaves whatever database there is.
Undo(t) ==
    /\ Step(t, "undo", "dropped")
    /\ tenants' = [tenants EXCEPT ![t] = NoTenant]
    /\ UNCHANGED <<users, job, run, db, progress, timers, crashes>>

-----------------------------------------------------------------------------
\* A request fails on a taken value or an error, or its process dies: nothing is undone.
Drop(t) ==
    /\ signup[t].pc \notin {"new", "done", "dropped"}
    /\ signup' = [signup EXCEPT ![t].pc = "dropped"]
    /\ UNCHANGED pvars

SignupStep(t) ==
    \/ \E s \in Slugs, e \in Emails : Register(t, s, e)
    \/ CheckEmail(t) \/ CheckSlug(t) \/ CreateTenantRow(t) \/ CreateUser(t)
    \/ HoldUser(t) \/ QueueJob(t)
    \/ \E s \in Slugs : CreateTenant(t, s)
    \/ LookForSlug(t) \/ InsertActiveTenant(t)
    \/ BuildNow(t, "database", "create", "migrate")
    \/ BuildNow(t, "schema", "migrate", "close")
    \/ Close(t) \/ BuildFails(t) \/ Undo(t) \/ Drop(t)

SignupNext ==
    \/ \E t \in Tenants : SignupStep(t)
    \/ ProvNext /\ UNCHANGED signup

SignupSpec == SignupInit /\ [][SignupNext]_svars

-----------------------------------------------------------------------------
(* Properties *)

\* A provisioning job always finds the tenant and the administrator it was queued for, and
\* no other job opens that administrator's account: two registrations that race for one
\* address or one slug cannot both be queued.
QueuedIsRegistered ==
    \A t \in Tenants : job[t].state # "none" =>
        /\ tenants[t].status # "absent"
        /\ users[tenants[t].email].tenant = t

\* A user that may log in belongs to a tenant whose database is complete, except between
\* the two statements of register that create it and hold it back.
ActiveUserHasHome ==
    \A e \in Emails : users[e].active =>
        LET t == users[e].tenant IN
        /\ tenants[t].status # "absent"
        /\ db[t] = Everything \/ signup[t].pc \in {"hold", "dropped"}

\* Outside those two statements the administrator waits for the end of provisioning.
UserWaits ==
    \A e \in Emails : users[e].active =>
        db[users[e].tenant] = Everything \/ signup[users[e].tenant].pc = "hold"

\* A tenant is inactive until its provisioning is over (superadmin schema, isActive).
ActiveTenantIsBuilt ==
    \A t \in Tenants : tenants[t].active => "schema" \in db[t]
=============================================================================

# A verification of nidia-flow-backend

nidia-flow-backend is a NestJS backend for many tenants. A *superadmin* database holds tenants,
users, plans and modules; every tenant has a PostgreSQL database of its own with orders, payments,
tasks, stock and customers. Server processes are Node event loops: a request runs alone between two
`await`s and interleaves with every other request, of its own and of other processes, at each of
them. Nearly all state is rows; nearly every handler reads rows, decides, and writes in a later
query. That is where this code is hard to test, and what these modules are about.

Source paths are relative to `src/` of the repository (`orders/…` is `src/orders/…`). `PROJECT.json`
lists components, runs, mutants, hazards and theorems, and maps each definition to the lines it models.

## 1. The system

| component | state | operations | what makes it hard | what must hold |
|---|---|---|---|---|
| Payments `orders/payments.service.ts` | payment rows, an order's `paidAmount`, `paymentStatus` | `create`, `refund`, reports | balance and refunded amount are read before the transaction that writes them; a refund locks a payment row and then reads its siblings | refunds within the payment, status agrees with the paid amount, no order overpaid, every request ends |
| Orders `orders/orders.service.ts` | order rows and items | `create`, `duplicate`, `update`, `updateStatus`, `bulkAssign`, `bulkUpdateStatus`, `remove` | the transition is checked against a reading and written by id; `remove` cascades to payments its check did not see | no invented past, no way back to pending, no orphaned payment |
| Provisioning `tenant/processors/…processor.ts`, `tenant-provisioning.service.ts` | tenant row, user row, the tenant's database, Redis record, BullMQ job | run, retry, stall, status, timers | four stores and no transaction; crashes, retries, runs that overlap after a lost lock, timers in memory | completed means built, a finished job opened its administrator's account, failures counted right, jobs end, records go |
| Sign-up `auth/auth.service.ts`, `tenant/tenant.service.ts` | the same rows | `register`, `createTenant`, `updateTenantStatus` | row by row, checks first, undoes little | a queued job has its tenant and administrator; who may log in has a database |
| Task dependencies `tasks/task-dependency.service.ts` | dependency rows | `addDependency`, `removeDependency`, `validateCanStart`, `getTaskExecutionOrder` | the cycle search is one query per task over a graph that changes | acyclic, no duplicates, searches end |
| Tasks `tasks/tasks.service.ts`, `task-checklist.service.ts` | task rows, checklist items | `create`, `duplicateTask`, `update`, `checkIn`, `checkOut`, `assignTask`, `remove`, photos, items | status, dependencies and checklist are checked before a later write | dependencies before a start, checklist before a check-out, finished stays finished, no dangling row |
| Stock `tenant/services/products/*` | stock of products and variants, movements, alerts, category tree | movements, adjustment, bulk update, alerts, moves of categories | the quantity is read outside the transaction; the search for a cycle climbs one query at a time | stock follows the movements, low stock has its alert, names differ at a level |
| Tenant clients `tenant/services/tenant-prisma.service.ts` | a process-wide map of connected clients | `getTenantClient`, restart | check, build, connect, store | whoever gets a client gets a connected one of its own tenant |
| Logins `auth/auth.service.ts`, `users/users.service.ts` | failure counter, lock, sessions | `validateUser`, `login`, `refreshToken`, `logout` | read and write back of a counter; sessions looked up by a hash that reads 72 bytes | a lock is earned, an ended session stays ended |
| Plans and modules `plans/*`, `modules/*`, `tenant/services/modules.service.ts` | a plan's column and its rows, module definitions, direct assignments | plan create, update, `findOne` with its repair; assignments | two copies, brought in line row by row, errors swallowed | a plan that was put in order gives what its column names |
| Users and roles `users/*`, `tenant/guards/plan-limits.guard.ts` | users, roles, system users | create, update, delete, last administrator | counted by a guard, written later | the plan's seats, an administrator left |
| CRM `tenant/services/crm/*` | customers, contacts | create, update, delete, `convertLead`, primary contact | uniqueness only by looking; three statements for one conversion | one customer per address, one primary contact |
| Financial `tenant/services/financial/*` | bank accounts, transactions | primary account; create, update, cancel, remove | status looked at, then written by id | one primary account, only cancelled transactions go |
| Messages, settings, subscriptions | message rows, the settings row, subscription rows | send, retry, update; find or create; change of plan | counts and lookups before writes; errors swallowed | within the month's limit, one row of settings, billed for the plan chosen |
| Events `common/events/*`, `orders/listeners/*` | in-memory emitter | automation, metrics, sockets | see section 7 | not modelled |
| Reports, files, notifications, audit, permissions | rows | single-row edits and queries | little | not modelled |

Interaction: orders and payments share the tables `orders` and `payments` and the cascade between
them; a task may point to an order, which then may not be removed; registration writes the rows and
queues the job that the provisioning worker runs; the worker's progress goes to Redis, from where a
client is told, or else from the tenant row. The services from tenant clients downwards share no row
the models tell apart with each other, only the process and the requests it serves.

## 2. The modules

| module | models |
|---|---|
| `SalesDb` | order and payment rows, locks held by open transactions, the sums and the payment status both services compute |
| `OrderPayments` | `create` and `refund`, one action per await that others can tell apart, aborts, fairness; the inductive invariants `PayInv`, `StatusInv` |
| `OrderLedger` | what a payment service promises: entries made one at a time, valid against the ledger as it stands |
| `OrderDesk` | the order service: every write handler as a read and a commit |
| `Sales` | `OrderPayments` and `OrderDesk` over the shared tables |
| `TenantProvisioning` | the job's run step by step, its catch block, BullMQ's retry and stall handling, lapsed locks, crashes, timers, Redis |
| `TenantSignup` | `register` and `createTenant` on top of `TenantProvisioning` |
| `TaskDb`, `TaskDependencies` | task and dependency rows; the search for a cycle, the second look, the insert; `LinkInv` |
| `TaskOrdering` | `getTaskExecutionOrder`: Kahn's algorithm as folds over the list of tasks and the rows |
| `TaskWork` | the task and checklist services on top of `TaskDependencies` |
| `Requests` | what all of the following are built on: requests that come in, go on from await to await, are lost at any of them or end in an error that is swallowed; `alone`, whether anything overlapped one |
| `TenantClients` | the map of database clients |
| `UserLogins` | failure counter, lock, sessions |
| `PlanModules` | the modules of a plan, in its column and in rows |
| `UserAdministration` | the users of a tenant under its plan's limit, roles, system users |
| `Categories`, `Stock` | the category tree; stock, movements, alerts |
| `PrimaryAccounts`, `Customers` | primary bank account and contact; customers, addresses, conversions |
| `Transactions`, `MonthlyMessages`, `CompanySettings`, `Subscriptions` | bookkeeping rows; messages under a monthly limit; the settings row; a tenant's plan and its bill |
| `MCServices` | those twelve services as one specification: `focus` names the service that is running |
| `OrderPaymentsProofs`, `SalesProofs` | theorems about `OrderPayments`; about `OrderDesk` and `Sales` |
| `ProvisioningProofs` | theorems about `TenantProvisioning` and `TenantSignup` |
| `TaskProofs` | theorems about `TaskDependencies`, `TaskOrdering` and `TaskWork` |
| `RequestsProofs` | lemmas about the steps of `Requests` |
| `AccessProofs` | theorems about `TenantClients`, `UserLogins`, `UserAdministration`, `PlanModules` |
| `RecordsProofs` | theorems about `PrimaryAccounts`, `Customers`, `Transactions`, `CompanySettings`, `Stock`, `Categories`, `MonthlyMessages`, `Subscriptions` |
| `ServicesProofs` | the theorem about `MCServices` |
| `MC*` | values and symmetry for TLC |

How code becomes actions. A request is a *slot* (`preq`, `oreq`, `lreq`, `treq`) with a program
counter and what it has read; a step goes from one `await` to the next. The first step contains the
reads and validations up to the last await before the write; a request they turn away changes
nothing and has no step. The write step looks only at what the database looks at: row existence,
unique indexes, foreign keys, locks. A request may abort at any await (error, time limit, lost
process); an open transaction then leaves no trace. In the services above `Requests` the slot is
`call`, a record with its step and what was read; `Begin` takes a request in with its first reads,
`Go` and `Pass` move it to its next await, `Lose` is the abort: nothing is undone. Two handlers swallow an
error and answer as if all was done (plans.service.ts:385-389, tenant.service.ts:657-660): `Swallow`, an end of its
own, so that a property can speak of such a request as one that was answered. Row ids are drawn once (UUIDs), so a row goes
from `fresh` to live to `deleted`.

Conventions to know when reading:
- PostgreSQL runs at READ COMMITTED, which the repository nowhere changes. Statements of a
  transaction that no one can tell from its commit are merged with it. A query that includes related
  rows is one read.
- A circle of row locks between a removal's cascade and a refund is broken by PostgreSQL with an
  error in one of them: this is an abort of the model. So is a time-out of Prisma's transaction.
- Payment, order and transaction numbers are those of one UTC day. They are modelled because the unique
  index turns the loser of a race away; no listed property is about them.
- Amounts are whole units. Prisma's `Decimal` columns and the conversion to `Number` lose nothing at
  these sizes; rounding at large amounts is not covered.
- Orders with stock-tracked items are not in the model: `updateInventoryForOrder` inserts a movement
  without mandatory columns, so their transactions always roll back. Replacing the items of an
  order rolls back too. A task update that carries a checklist or dependencies is refused by the client.
- Columns no property tells apart (texts, schedule, location, signature, item texts and sort order)
  are left out; an order's `assignee` stands for the fields an update may change besides the status.
- A BullMQ worker holds a lock on its job, which it must renew. If its event loop is blocked or Redis is out
  of reach the lock lapses (`Lapse`, at any step), the job counts as stalled and another worker may take it (`Stalled`)
  *while the first run goes on*: both write tenant row, database, user row and Redis. When the late run ends, the
  queue refuses its result and raises neither `completed` nor `failed` for it (`EndLate`), but its writes stay, the
  catch block's among them, and so does the timer `process` sets itself. A worker, which works on one job at a
  time, counts as one process; a worker that has lost its lock takes no other job before its run has ended.
- The hour of life of a Redis record is taken to pass only after its job is over, which lasts minutes.

## 3. Runs that pass

Each property has a mutant in `PROJECT.json`: a plausible bug put into a mapped definition, which TLC
then catches under the same configuration.

| run | instance | shows |
|---|---|---|
| `Payments_Race` | 1 order, 2 payments, 2 requests in flight, totals 0, 2, 3, amounts 1, 2 | whatever the race, refunds stay within a payment and it is closed exactly when refunded (`RefundWithinPayment`), the recorded refunds were made (`RecordedRefundsMade`), the status fits the paid amount (`StatusTellsPaid`); every request ends (`RequestsEnd`) |
| `Payments_Serial` | 2 orders, 3 payments, 1 request | one request at a time, the service implements `OrderLedger` (`ImplementsLedger`), which overpays no order: the races are the only cause |
| `Sales_Shared` | 1 order, 1 payment, 2 requests of each service, 1 technician | a payment always has its order, an open refund keeps its rows; stale writes invent no past (`StatusEarned`) and nothing returns to pending or from deletion (`OnlyOnward`) |
| `Provisioning` | 1 tenant, 2 workers, 3 attempts, 1 stall, 1 crash, locks that lapse at any step | `CompletedIsBuilt`, also with two runs at a time; a completed job has opened its administrator's account for good, and its tenant unless a run went on without the lock (`CompletedJobOpensTenant`); the row counts no more failures than there were runs (`AttemptsAreRuns`); every job ends (`JobsEnd`) and its Redis record goes (`RecordsGo`), even if the worker with the timer died |
| `Signup_Race` | 2 sign-ups, 2 slugs, 2 addresses, 1 worker; a sign-up may be cut off anywhere | a queued job has its tenant and its own administrator (`QueuedIsRegistered`), an active user a built database except in the gap described there (`ActiveUserHasHome`) |
| `Dependencies_OneAtATime` | 3 tasks, 3 rows, 2 kinds, 1 addition | the graph stays acyclic while rows are removed under the search; `LinkInv`, which the proof uses and which includes that no row is doubled, holds |
| `Dependencies_Race` | 3 tasks, 2 rows, 2 additions | the search ends although a race may have closed a cycle in the graph it walks; on every graph the races leave, with doubled rows and cycles, and for every list of tasks and order of the rows, the execution order is right or the cycle is reported (`OrderOrCycle`) |
| `Tasks_Serial` | 2 tasks, 2 rows, 2 items, 1 user, 1 photo, 1 request | whichever handler starts a task, it waits for its dependencies (`StartsAfterDependencies`), and whichever writes its status, finished tasks stay (`FinishedTaskStays`) |
| `Tasks_Race` | 2 tasks, 1 row, 1 item, 2 requests and 1 addition | no dependency or item is left of a task that was removed meanwhile |
| `Services` | twelve services, 3 requests each (2 for categories, stock, messages and subscriptions); the sizes are in `Services.cfg` | see the next table |

`Services` asks two kinds of question. Some properties hold whatever overlaps; of the others the code
keeps only a weaker form, and that form is what is checked: with requests that come one after the other
and may each be cut off anywhere (`OneByOne`), or for the steps of a request that nothing
overlaps (`EndsAlone`, `alone`), on any rows that earlier races left behind.

| property | holds | what it says |
|---|---|---|
| `ClientsAreOpen` | always | a client that is stored or handed out is connected, to the database of that tenant |
| `LockEarned`, `EndedStays` | always | an account is locked only after `LockAt` counted failures; a refresh that found a session before it was ended does not bring it back |
| `OnlyCancelledGo` | always | `remove` deletes a transaction it looked at before, yet only a cancelled one: nothing makes a row completed again |
| `StockFollowsMovements` | one by one | each movement starts where the one before it ended, the stock is where the last one ended, also inside a bulk update |
| `SettledRowIsOne` | always | once a request that nothing overlaps has made the row of settings, races make no other |
| `OnePrimary` | one by one | one primary account, and one primary contact of each customer, wherever requests are cut off, besides the contacts that an update made primary as it moved them to that customer: it clears the primaries of the customer they leave (customer-contact.service.ts:155-170), so one such update alone breaks `OnePrimaryAlways` |
| `MailsDiffer` | one by one | one customer per address, wherever requests are cut off |
| `SoloAgrees` | alone | no step of a sync takes what the tenants get further from what the plan's column names, so neither does one whose error is swallowed; a sync without an error and a reading leave exactly that, whatever half-done updates came before |
| `SoloCounts` | alone | a user created through a check that answered is within the plan; removing a super administrator leaves one |
| `SoloNameIsFree` | alone | a category created, renamed or moved with a new name is the only one of that name at its level |
| `SoloCheckAlerts` | alone | after a check of the stocks every low or empty product has its alert |
| `SoloSendCounts` | alone | a message sent through a check that answered is within the monthly limit |
| `SoloBillIsRight` | alone | a change of plan that meets no error leaves the tenant billed for that plan at its price less the discount it had; one whose error is swallowed has put the tenant on the plan and left the bills as they were or right already, never half-way; an update of a subscription leaves a total that adds up |

Each component module has a type invariant (`PayTypeOK`, `TypeOK`, `ProvTypeOK`, `SignupTypeOK`, `LinkTypeOK`,
`WorkTypeOK` and those under `ServicesTypeOK`). `ServicesTypeOK` is listed because stock below zero
violates it; the others, and `GrossWithinTotal` (Payments_Serial),
`SingleLinks` and `OrderOrCycle` (Dependencies_OneAtATime), `DoneInWork`, `CheckOutComplete`
and `UploadsAdd` (Tasks_Serial), hold as
well when they are added to the configuration named.

Why the bounds are enough. Every hazard here needs two requests, so two slots of a service exhibit it;
with three, two are in the same relation. Two payments let a partial refund of one interleave
with a refund or a payment of the other, and amounts 1 and 2 against a total of 3 give partial,
exact and excessive cases; a total of 0 the boundary at which an order is paid without a payment. In
`Sales_Shared` one order is enough, because requests on several orders
write each of them by the same rule; `Orders_Race.cfg` runs the order service alone on two orders.
Three tasks are the least on which a search can walk round a cycle it is not part of. Three
attempts and a crash with one stall reach every end of a job; the stall lets one more run be under way beside a
late one, and two workers are what that takes. `Signup_Race` needs no crash of a worker: the sign-ups are what races there. Bounds in the modules themselves:
ids left (`PaymentIdLeft`, `OrderIdLeft`, `FreshLinks`, `FreshItems`, fresh tasks) and `MaxCrashes`.

In `Services` a request has one call in it, so the bound is how many calls there are: two that race and
a third that builds on, or is disturbed by, what they leave; where a call writes much by itself (bulk
updates, any tree to begin with) two are enough. There are two products, so that the loop over the alerts turns twice. `LockAt` is 2 instead of 5, so that two failures lock
and one does not; the limits of the plan are 2 users and 1 message, so that the limit is met and can be
passed; stocks go to `MaxStock` 2, on both sides of a minimum of 1; prices, amounts and discounts to
`MaxPrice` 1. Three categories are the least with a grandparent. Rows that are all alike are symmetric,
and so are the requests (`MCSymmetry`); a service that is not in focus has empty tables.

`CHECK_DEADLOCK FALSE`: the systems rest when no client calls, and ids run out by the bound.

## 4. Fairness

- `PayFairSpec`: the event loop resumes a request when its query returns (weak fairness of
  `PayProgress`), and PostgreSQL grants a row lock to its waiters in turn (strong fairness of
  `RefundUpdate`, which other refunds disable now and then).
- `ProvFairSpec`: a live worker goes on (`Proceed`), BullMQ promotes delayed and finds stalled jobs
  (`Serve`), Redis expires keys (`Expire`). A `setTimeout` gets no fairness, for it dies with its process.
- `LinkFairSpec`: a query that was sent is answered (`LinkProgress`).

Never fair: clients, failures, aborts, swallowed errors, lapsed locks, crashes, superadmins.

## 5. Where the code does not do what it says

Two runs are listed as expected violations, each of a promise a comment makes:

| run | promise | what happens |
|---|---|---|
| `Payments_Overpaid` | payments.service.ts:31 "Validar que no se exceda el total de la orden" | two payments check one balance before either inserts; both commit |
| `Categories_Cycle` | category.service.ts:208 "Verificar que no se cree un ciclo" | `isDescendant` (406-422) climbs from the category instead of from its new parent, so one single request that moves a category under its own child closes a cycle; a move to the parent it has, or a grandparent, is refused |

Three more configurations are kept beside them: `Sales_LostPayment` (MCSales: a payment commits after
`remove` looked for one, orders.service.ts:440; the cascade deletes it), `Provisioning_Forgotten`
(MCProvisioning: the failed attempt is already counted when `onFailed` compares, processor:346, so the
record goes after the second failure of three) and `Dependencies_Cycle` (MCDependencies: two
additions race past each other's search, 31, 45).

Further promises are stated as properties in the modules and not listed as runs. Adding one as an
INVARIANT or PROPERTY to the configuration named makes TLC show how the code breaks it; they are there
so that a repair can be seen to work. What a configuration has to be given besides is in brackets.

| property | configuration | what it shows |
|---|---|---|
| `PaidIsBalance` | `Payments_Race` | a payment after a partial refund puts the refunded part back into `paidAmount` (57-70 against 192) |
| `MadeRefundsRecorded` | `Payments_Race` | the second of two racing refunds overwrites the first (150, 169); one refund at a time is recorded (`OneAtATimeNeverOverpays`) |
| `PendingMeansUnpaid` | `Payments_Race` | a fully refunded order is `pending`, which orders/README.md:110 explains as "No payments received" |
| `OnlyLegalChanges` | `Orders_Race` | two validated requests make a change that the table forbids, e.g. cancelled to confirmed (381, 397) |
| `FinishedStaysUntouched` | `Orders_Race` [`Techs = {t1}`] | a finished order is reassigned (284), against orders/README.md:104 |
| `CompletedIsNotRetracted` | `Provisioning` | a client is told completed, then failed (219-252) |
| `CompletedIsFinal` | `Provisioning` | a run that opened the tenant and fails at the user row marks it failed (262) |
| `CompletedJobStaysOpen` | `Provisioning` | a run whose lock lapsed goes on, and marks the tenant provisioning (60-65) or failed (262-269) after the job has completed in another |
| `UserWaits` | `Signup_Race` | `register` dies between creating the user active and holding it back (486) |
| `ActiveTenantIsBuilt` | `Signup_Race` | `createTenant` inserts an active tenant before its database exists (243) |
| `SingleLinks` | `Dependencies_Race` | two equal additions both insert (34-45; no unique index) |
| `StartsAfterDependencies`, `FinishedTaskStays` | `Tasks_Race` | with two requests each of the checks in tasks.service.ts is stale when its write comes (338, 334) |
| `CheckOutComplete` | `Tasks_Race` [`Tasks = {t1}`, `Users = {u1}`, no links] | an item is added after the check-out counted the open ones (481) |
| `UploadsAdd` | `Tasks_Race` [`Tasks = {t1}`, `Users = {u1}`, `Photos = {p1, p2}`, no links, no items] | an upload appends to the list it read (753) and forgets the photos that were written since |
| `ClearedAfterStarts` | `Tasks_Serial` [`LinkSlots = {r1}`, `LinkTypes = {"start_to_start"}`] | start_to_start is satisfied by a task that is only assigned (task-dependency.service.ts:167-168) |
| `MapTellsClients` | `Services` | two first requests of a tenant connect; the client that is overwritten stays open and is counted nowhere |
| `FailuresCount`, `LockStays` | `Services` | two failures count as one (users.service.ts:105-125); a login that read the row before it was locked unlocks it (128-138) |
| `AnswersAgree` | `Services` | an update whose sync met an error answers with the plan all the same (plans.service.ts:385-389), and the tenants have other modules than its column names until it is read or updated |
| `QuietAgrees` | `Services` | after an update that was cut off, or two that raced, column and rows of a plan differ until somebody reads or updates it alone |
| `AdminLeft` | `UsersSpec` of UserAdministration alone, with two requests | two removals that counted each other, or one `update`, leave no active super administrator (system-users.service.ts:184-273) |
| `SeatsWithinPlan` | `Services` | users are brought back by `updateTenantUser`, or created together, beyond the plan |
| `SiblingsDiffer` | `Services` | a move without a new name is not checked (category.service.ts:216); two creations race |
| `ActiveUnderActive` | `Services` | a category is activated, or moved, under one that is not active |
| `MovementsChain` | `Services` | two movements start from one quantity (inventory.service.ts:46, 67) |
| `OneAlertEach` | `Services` | two checks raise the same alert (stock-alert.service.ts:28, 61) |
| `OnePrimaryAlways`, `PrimaryIsActive` | `Services` | one update makes a contact primary and moves it to a customer that has a primary one (customer-contact.service.ts:155-170); two requests each make a row primary, also inside the transaction of contacts, for READ COMMITTED lets both find the old one; a contact that is primary is deleted |
| `OnlyLeadsConvert`, `ConversionsAreTold` | `Services` | two conversions of one lead both announce it; one that is cut off never does, and cannot be repeated (customer.service.ts:405) |
| `MailsAlwaysDiffer`, `SettingsAreAlwaysOne` | `Services` | two requests look before either inserts |
| `SentWithinPlan` | `Services` | a message whose status moves on from `sent`, one that is marked sent by an update, and two that race are all beyond the count (modules.service.ts:330) |
| `NumbersNameOne` | `EntriesSpec` of Transactions alone, with four requests | the number of a removed transaction is given again |
| `CancelledIsLeft` | `Services` | an update that looked before the cancellation edits the cancelled row |
| `KeysAreWhole` | `Services` | `updateSettings` stores what `maskApiKey` makes of the keys, against the unmasked ones `getApiKey` hands out |
| `TotalsAddUp` | `Services` | a plan and a discount given together make the total from the amount of the old plan (subscriptions.controller.ts:374) |
| `AnsweredChangeBills` | `Services` | a change of plan whose subscription cannot be written answers that the tenant was updated (tenant.service.ts:657-660) and leaves the old bill; asking again changes no plan and so mends nothing (550) |
| `OneLive`, `PlanIsBilled` | `Services` | two changes of plan both bill; a change whose second half fails, or whose plan is not found, leaves the old bill |

One disagreement needs no model: `resetPassword` looks its user up by a freshly salted bcrypt hash of
the token (auth.service.ts:697), which equals no stored hash.

`Orders_Race` (MCOrders: the order service on two orders) and `Tasks_Graph` (MCWork: creating tasks
with dependencies, duplicating and removing them beside one addition) pass; they are wider
instances of questions the runs above ask.

## 6. What is proved

`tlapm X.tla` checks every step of a proof module `X`; there are eight, four of them for the
services on `Requests`. Every theorem is for all values of the constants under their assumptions. What those assume:
the marks (`none`, `nobody`, `keep`) are no ids; limits and bounds are natural numbers, those that
lock an account or limit users and messages positive (the code takes a limit of 0 for none); amounts
are positive and totals integers; the ids that are counted, summed up or searched (`Orders`,
`Payments`, `Workers`, `Tasks`, `Links`, `Items`, `Members`, `Admins`, `Earlier`, and the `Requests` that make
messages and transactions) are finitely many, as the rows of a table are; bank accounts are no contacts and the tenant is none of its customers; and a dependency without
a type, which the schema makes `finish_to_start`, may be written. A
wanted property is seldom inductive: a request writes what it read long before. Each invariant
below says what such a request may still rely on. The new ones were first checked by TLC on
instances of the size of the runs.

**Payments** (`OrderPaymentsProofs`), for any number of requests in flight:
- `PayInvariant`: `PaySpec => []PayInv`. `PayInv` adds what a refund in flight may rely on: the amount and
  order of its payment never change, the refunded amount it read was really made, and read plus
  requested is within the amount. Another refund may overwrite the column meanwhile, but only with a
  value of which the same is true, and that carries both properties through every race.
- `RefundsStayWithinPayment`, `RecordedRefundsWereMade`: consequences for `RefundWithinPayment` and
  `RecordedRefundsMade`.
- `StatusAlwaysTellsPaid`: `StatusTellsPaid`, from `StatusInv`, which adds that an order's total does not
  change under a request: each writer computes status and paid amount together from one total.
  What the paid amount is does not matter for it, so this invariant leaves sums untyped.
- `PaymentTypes`: `PayTypeOK`, which needs the sums to be numbers, for any number of payments (`SumOverSet`).
- `OneAtATimeIsTheLedger`: `ImplementsLedger`, for services that handle one request at a time
  (`\A r, s \in PaySlots : r = s`; `Payments_Overpaid` shows what two do). `SerialInv` adds that what the
  request has read still holds when it commits: a create's amount still fits (`ReadingsCurrent`). Then a
  create's commit is the ledger's `Pay`, a refund's its `Refund`, and every other step a stutter. The
  two sums that must agree, `GrossPaid` and `Ledger!Counted`, run over the same payments
  (a payment is open in the ledger exactly if it is marked completed, by `RefundWithinPayment`), so they agree
  whatever a sum is (`SameAmountsSameSum`).
- `OneAtATimeNeverOverpays`: `GrossWithinTotal` and `MadeRefundsRecorded`, which races break, under the same
  hypothesis, for orders with any number of payments. `AloneInv` adds to `SerialInv` that every refund that was
  made is in its row. A create adds its amount to the sum it was checked against; a removal or a
  refund only takes from it.
- Lemmas: `SumOverSet`, that the sum over a finite set exists, is a number and grows by what is added. The
  library's induction over finite sets takes an operator and cannot be used; instead
  `MinimalSubset` gives, if some subset had no sum, a smallest one, and one element less contradicts it.
  A finite non-empty set of numbers has a maximum (`MaxOfNumbers`), hence the next payment number is one.

**Orders, alone and with payments** (`SalesProofs`), for any number of requests to either service:
- `StatusesAreEarned`, `OrdersGoOnward` for `OrderSpec`. `OrdersInv` adds that a write in flight carries
  a status whose predecessor is in the order's *history*: the row may have moved on since it was read,
  its history only grows. That is all a stale write leaves of the table of transitions.
- `SalesInvariant`: `Spec => []SalesInv`, over the shared tables. It takes `StatusInv` and the above
  and adds that the order of a payment request was there once, that an open refund alone holds the
  lock of its live payment (`LocksHeld`), and that every live payment has its order. Each
  service's steps keep the other's part: the orders' steps leave totals and locked rows alone, the
  payments' steps write no `status`.
- From it: `PaymentsHaveOrders`, `OpenRefundsKeepTheirRows`, `SharedStatusesAreEarned`,
  `SharedOrdersGoOnward`, and `PaymentsStaySound`, which carries the three properties of the payments
  over to the system in which their orders are edited and removed.

**Provisioning and sign-up** (`ProvisioningProofs`), for any tenants, addresses, workers, attempts,
stalls and crashes:
- `CompletedTenantsAreBuilt`, `CompletedJobsOpenTenants`, `FailuresAreRuns` for `ProvSpec`. Any number of runs of one job
  may go on at a time, all but one without its lock (`OneRunHolds`). `ProvInv` ties the step each run is at to what it
  has built or found built (`PartsBuilt`) and opened (`RunOpens`); a database only grows and an account once open
  stays open, so late runs do no harm to either. The tenant row is another matter: it is completed when the
  job is, unless a lock has lapsed (`lapsed`), and that the code does not keep more is `CompletedJobStaysOpen` in
  section 5. For `FailuresAreRuns`, `RunsCounted` adds to the failures counted those that runs under way may still
  count (`Uncounted`): a run becomes one only when it is taken, which makes the job active, and ceases to be one when it
  records its failure or ends. The sum needs finitely many workers.
- `QueuedJobsAreRegistered`, `ActiveUsersHaveHomes`, `RegisteredTenantsAreBuilt` for `SignupSpec`. `SignupInv` adds
  to `ProvInv` that a sign-up past its inserts finds its rows as it wrote them, and that only its last
  step queues its job, so that nothing it undoes is under a job.

**Dependencies** (`TaskProofs`). With *at most one addition at a time*:
- `SearchesAreSound` (`[]LinkInv`), `OneAdditionAtATime` (`[]Acyclic`, `[]SingleLinks`). `LinkInv` says that a search has
  not met the task it is for, and that the dependencies of visited tasks are visited or still to be;
  when nothing is left to visit, the visited set is closed, holds the new dependency and not the
  dependent task, so no cycle can use the new row. Removals only take dependencies away. With two
  slots it fails (`Dependencies_Cycle.cfg`); the hypothesis is what the code lacks.

For any number of additions, any content of the table, and any list of tasks without repetition:
- `OrdersAreRight` (`OrderOrCycle`). `KahnIsRight` is the argument: between passes (`OrderKeeps`) a task's degree is the
  number of its rows whose dependency is not listed yet, the tasks of degree 0 are those that are
  queued or listed, each once, and what is listed comes after all it needs. After as many passes as
  there are tasks the queue is empty; if tasks are left then, each needs another of them, so no
  order exists; and if no order exists, the set that has none keeps all of its tasks out of the list.
  A degree counts rows and not tasks, so doubled rows do no harm. As many passes are enough because a list
  without repetition is as long as its tasks are many (`OnceIsCounted`). That the folds of the model have the intermediate states the code goes through is
  `FoldExists`, from the existence of a recursively defined function (`RecursionExists`), which is proved
  by a least counterexample because the library's theorem takes an operator.

**Tasks** (`TaskProofs`):
- `RowsKeepTheirTasks` (`RowsHaveTasks`) for any number of requests: the foreign keys look at the task
  again when the row is inserted, and a removal takes what refers to it along.
- `GraphStaysAcyclic`: while one slot adds dependencies, any number of other requests may create tasks with
  dependencies, change and remove tasks. `GraphInv` adds that a search only goes through tasks that
  were there: the dependencies of a task that is created lead out of it, and nothing leads in.
- `OrdersStayRight` (`OrderOrCycle`): an execution order is right also while tasks are created, duplicated and removed.
- `FinishedTasksStay` when requests for tasks come one after the other
  (`\A v, w \in WorkSlots : v = w`). `SerialInv` says that what a request read still stands when its
  write comes. `StartsFollowDependencies` needs besides that no addition runs beside them (`LinkSlots = {}`). The
  hypotheses are necessary: section 5 lists how `Tasks_Race` breaks both.

**Services on `Requests`** (`AccessProofs`, `RecordsProofs`, `ServicesProofs`), for any rows and any number of requests. Three
kinds of argument, whose common part `RequestsProofs` states once: what `Begin`, `Go`, `Swallow` and `Lose` leave.

*Whatever overlaps.*
- `ClientsStayOpen` (`ClientsAreOpen`). `ClientsInv` adds that a
  request has no client before it connects, so what is stored or was an answer belongs to a
  request that has left those steps for good; a failed connection closes only what nobody was given,
  and a restart empties the map with the clients it closes.
- `LocksAreEarned` (`LockEarned`) and `EndedSessionsStay` (`EndedStays`).
  `LoginsInv` adds that neither a counter nor what a login has read of it exceeds the failures there
  were: a stale write loses failures and never makes them up. And a login has no session before its
  last step, so `CreateSession` never meets one that has ended.
- `StockStaysInRange` (`StockTypeOK`): races lose movements but take no stock below zero. `RangeInv` adds that
  what a movement is about to write was checked against the reading it is computed from.
- `OnlyCancelledAreRemoved` (`OnlyCancelledGo`). `EntriesInv` adds
  that a row a removal has passed is cancelled or gone: no step makes a row completed but the
  one that creates it, and that row has no request to remove it yet.

- `SettledRowStaysOne` (`SettledRowIsOne`): whoever comes after the row was made finds it, and who overlapped its
  creation does not count as alone.

*One by one* (`OneOpen`: as long as nothing ever overlapped, one request at most is under way).
- `PrimaryStaysOne` (`OnePrimary`). `AccountsInv` adds that the request
  whose turn it is has cleared the rows of the owner it read before it writes, that the row is still that owner's, and that a
  swap has found all it must clear. A write for another owner than the one cleared makes its contact one of the `strays`.
- `MailsStayDifferent` (`MailsDiffer`). `CustomersInv` adds that the address a
  request has looked up is still free, and that an address it did not look up is still its customer's.
- `StockStaysTrue` (`StockFollowsMovements`): a movement that is to be committed has seen the stock there is, which is
  where the chain of movements ends; so it makes the chain one longer (`ChainGrows`). Bulk
  updates read the stock again before each movement, also of an item that comes twice.

*Alone*, in a history that may have been as bad as it likes (`Solo`: under way and not overlapped so
far; `SoloOpen`: then nothing else is under way; `OnlyFor`: a step of one request leaves no other
alone). Of all other requests the invariants claim nothing but the shape of their records, and of the
rows nothing but theirs.
- `PlansAgreeAlone` (`SoloAgrees`). `PlanInv` follows the rows of a plan as they are brought in line one by one: while
  enabling, wanted rows that are not to be done are on, and what is to be done is wanted; while
  disabling, all wanted rows are on and what else is on is still to be switched off. Enabling switches on only what the
  column names and disabling switches off only what it does not, so no step, and no swallowed error after one, takes the tenants
  further from it.
- `CountsAreReliedOn` (`SoloCounts`) and `SendsAreCounted` (`SoloSendCounts`): what was counted below the limit is below it
  until the write, which adds one to it.
- `NamesAreFreeAlone` (`SoloNameIsFree`): the name looked up is free at the level it was looked up for, and the
  category is as it was read, so that this is the level it is written to.
- `ChecksFindAll` (`SoloCheckAlerts`): every alert that is needed has its row or is still to be looked for. The stocks
  do not move meanwhile because only movements write them.
- `BillsAreRightAlone` (`SoloBillIsRight`): from the write of the plan on, the tenant is on the plan it is to be billed for;
  the row to be billed anew is the last one that is live (by `MaxOfNumbers`), with the discount that was
  read; an update has seen its row as it is (`UpdateAddsUp` goes through the fields that may be left out).
  The bills change in one statement, so an error that is swallowed before it leaves them as they were.

*Together*:
- `ServicesStayTyped` (`ServicesTypeOK`, for the specification the run `Services` checks): of the service in focus,
  its invariant above and the types of what that leaves open (`ServicesInv`): the rows of plans, of
  categories and of users, with what a request has read of them, the counts of conversions, and the
  transactions, whose next number is one more than the largest of the day. The other services have
  their initial tables.

**Only model-checked.** Liveness under fairness (`RequestsEnd`, `JobsEnd`, `RecordsGo`, `SearchesEnd`), which the
prover does not reach; every other property of the passing runs is stated by a theorem. `OrderTypeOK`, and with it
the `TypeOK` of `Sales`: of it `SalesInv` contains what the other properties rest on. (`PayTypeOK` is `PaymentTypes`; `ProvTypeOK`, `SignupTypeOK`, `LinkTypeOK` and `WorkTypeOK` are parts of the invariants above.)

## 7. Not modelled, and why

- A list with repeated tasks in `getTaskExecutionOrder`: a repeated task is queued twice and counts its
  dependents down twice, so the order may be wrong; no code calls the function yet.
- *Automation and listeners.* `AutomationEngineService` would set orders to completed or confirmed
  and create tasks. It depends on `TenantPrismaService`, which is `Scope.REQUEST`, so it is
  request-scoped itself and its `onModuleInit`, where the hooks are registered, is not called.
  `OrderEventsListener` creates tasks for the user `system`, which the foreign key refuses. As
  wired, neither changes the modelled rows. A change of scope would make unvalidated writers
  of them; the plan names the module to write then.
- `createTenant`'s domain, whose failure it ignores, deletion of tenants, and `deleteTenantDatabase`,
  which is never called. Of `updateTenant`, the columns that are neither plan nor bill.
- The password reset (section 5), the login of tenant users over their own database, which has no counter,
  and what a token carries.
- Products and their variants (`product.service.ts`), interactions, budget categories, files,
  notifications, templates, audit log: single-row edits with lookups of the kind `Customers` and
  `Categories` show, and calls to outside services.
- Permissions, submodules, reports, dashboards, health, data scope: queries. Controllers, DTOs,
  validators and the generated clients under `generated/`: request shapes and library code, without state
  of their own. They are most of the repository's lines.

## 8. Plan

In order of worth.
1. `Products`: variants, prices and stock of `product.service.ts` beside `Stock`.
2. Automation over `Sales` and `TaskWork`, once its scope lets it run.

The runs are few on purpose; new modules share runs.

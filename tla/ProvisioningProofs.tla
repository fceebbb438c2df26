--------------------------- MODULE ProvisioningProofs ---------------------------
(***************************************************************************)
(* Proofs about the provisioning job, whichever attempts fail, whichever   *)
(* workers die and however often its queue starts it again, and about the  *)
(* registrations that queue it, for any tenants, addresses and workers.    *)
(***************************************************************************)
EXTENDS TenantSignup, FiniteSetTheorems, TLAPS

RunRow == {AtRest} \cup [pc: Working \cup Failing \cup {"return"}, tenant: Tenants, lock: BOOLEAN]
JobRow == [state: {"none", "waiting", "active", "delayed", "completed", "failed"},
           made: 0..MaxAttempts, stalls: 0..MaxStalls, lapsed: BOOLEAN]

Running(w) == run[w] # AtRest

\* Runs are runs of a queued job. One of them at most has its lock, and then the job is active;
\* the others have gone on without.
OneRunHolds ==
    \A w \in Workers : Running(w) =>
        /\ job[Subject(w)].state # "none"
        /\ ~Holds(w) => job[Subject(w)].lapsed
        /\ Holds(w) => /\ job[Subject(w)].state = "active"
                       /\ \A v \in Workers : Holds(v) /\ Subject(v) = Subject(w) => v = w

\* A job that is not over has an attempt left.
AttemptLeft == \A t \in Tenants : ~Over(t) => job[t].made < MaxAttempts

\* A job belongs to a registered tenant with an address, which is its administrator's.
JobHasOwner ==
    \A t \in Tenants : job[t].state # "none" =>
        /\ tenants[t].status # "absent"
        /\ tenants[t].email \in Emails
        /\ users[tenants[t].email].tenant = t

\* What a run that has come to the step pc has built, or found built.
BuiltBefore(pc) ==
    CASE pc \in {"running_migrations", "schema"} -> {"database"}
      [] pc \in {"creating_initial_user", "admin"} -> {"database", "schema"}
      [] pc \in {"completed", "activate", "welcome", "return"} -> Everything
      [] OTHER -> {}

PartsBuilt ==
    /\ \A w \in Workers : Running(w) => BuiltBefore(StepOn(w)) \subseteq db[Subject(w)]
    /\ \A t \in Tenants :
          "completed" \in {tenants[t].status, progress[t]} => db[t] = Everything

\* A run that is past the activation has opened its tenant, and no other has marked the row since,
\* unless one that has lost the lock.
RunOpens ==
    \A w \in Workers : Running(w) =>
        /\ StepOn(w) \in {"welcome", "return"} =>
              job[Subject(w)].lapsed \/ tenants[Subject(w)].status = "completed"
        /\ StepOn(w) = "return" => users[tenants[Subject(w)].email].active

\* The runs of the job of t that may still be counted as failures.
Uncounted(t) == {w \in Workers : Running(w) /\ Subject(w) = t /\ StepOn(w) # "throw"}

\* Until its failure is recorded, a run is one more than the failures counted.
RunsCounted ==
    \A t \in Tenants :
        tenants[t].attempts + Cardinality(Uncounted(t)) <=
            job[t].made + job[t].stalls + (IF job[t].state = "active" THEN 1 ELSE 0)

ProvInv ==
    /\ ProvTypeOK /\ OneRunHolds /\ AttemptLeft /\ JobHasOwner
    /\ PartsBuilt
    /\ RunOpens /\ CompletedJobOpensTenant
    /\ RunsCounted

-----------------------------------------------------------------------------
(* What the steps have to do with the rows *)

\* process goes through its steps in one order and comes to its return.
LEMMA AfterSteps ==
    /\ \A pc \in Working : After[pc] \in Working \cup {"return"}
    /\ \A pc \in Working : pc \notin Failing \cup {"idle", "return"}
    /\ Announced \cup Everything \cup {"mark", "activate", "welcome"} \subseteq Working
    /\ After["mark"] = "provisioning" /\ After["activate"] = "welcome" /\ After["welcome"] = "return"
BY DEF After, Working, Announced, Everything, Failing

\* A worker that is not at rest has the job of a tenant, and its steps are those of process
\* and of the catch block.
LEMMA RunningShape ==
    ASSUME ProvTypeOK, NEW w \in Workers
    PROVE  /\ run[w] \in RunRow
           /\ Running(w) <=> StepOn(w) # "idle"
           /\ Running(w) => Subject(w) \in Tenants
           /\ ~Running(w) => Subject(w) \notin Tenants /\ ~Holds(w)
           /\ StepOn(w) \in Working \cup Failing \cup {"return"} => Running(w)
<1>1. run[w] \in RunRow
  BY DEF ProvTypeOK, RunRow
<1>2. \A pc \in Working \cup Failing \cup {"return"} : pc # "idle"
  BY AfterSteps DEF Failing
<1>3. CASE run[w] = AtRest
  BY <1>2, <1>3, ProvisioningAssumption DEF Running, AtRest, StepOn, Subject, Holds, RunRow
<1>4. CASE run[w] \in [pc: Working \cup Failing \cup {"return"}, tenant: Tenants, lock: BOOLEAN]
  <2>1. StepOn(w) # "idle" /\ Subject(w) \in Tenants
    BY <1>2, <1>4 DEF StepOn, Subject
  <2>2. Running(w)
    BY <2>1 DEF Running, AtRest, StepOn
  <2> QED BY <1>1, <2>1, <2>2
<1> QED BY <1>1, <1>3, <1>4 DEF RunRow

\* A run that goes on is still a run of the same job.
LEMMA GotoLeaves ==
    ASSUME ProvTypeOK, NEW w \in Workers, Running(w), NEW pc \in Working \cup Failing \cup {"return"},
           Goto(w, pc)
    PROVE  /\ run' \in [Workers -> RunRow]
           /\ run'[w] = [pc |-> pc, tenant |-> Subject(w), lock |-> Holds(w)]
           /\ Running(w)' /\ StepOn(w)' = pc /\ Subject(w)' = Subject(w) /\ Holds(w)' = Holds(w)
           /\ \A v \in Workers : v # w => run'[v] = run[v]
<1>1. run[w] \in [pc: Working \cup Failing \cup {"return"}, tenant: Tenants, lock: BOOLEAN]
      /\ run \in [Workers -> RunRow]
  BY DEF ProvTypeOK, RunRow, Running
<1>2. pc # "idle"
  BY AfterSteps DEF Failing
<1>3. run' = [run EXCEPT ![w].pc = pc]
  BY DEF Goto
<1>4. run'[w] = [run[w] EXCEPT !.pc = pc]
  BY <1>1, <1>3
<1>5. run'[w] = [pc |-> pc, tenant |-> Subject(w), lock |-> Holds(w)]
  BY <1>1, <1>4 DEF Subject, Holds
<1>6. \A v \in Workers : v # w => run'[v] = run[v]
  BY <1>1, <1>3
<1>7. run'[w] \in RunRow
  BY <1>1, <1>5 DEF RunRow, Subject, Holds
<1>8. run' \in [Workers -> RunRow]
  BY <1>1, <1>3, <1>7
<1> QED BY <1>2, <1>5, <1>6, <1>8 DEF Running, AtRest, StepOn, Subject, Holds

\* Marking, opening and closing a tenant row, and activating a user row, leave rows.
LEMMA RowChanges ==
    ASSUME NEW row \in TenantRow
    PROVE  /\ [row EXCEPT !.status = "provisioning"] \in TenantRow
           /\ \A b \in BOOLEAN : [row EXCEPT !.active = b] \in TenantRow
           /\ Opened(row) \in TenantRow
           /\ [row EXCEPT !.status = "failed", !.attempts = @ + 1] \in TenantRow
<1>1. [row EXCEPT !.status = "provisioning"] \in TenantRow
  BY DEF TenantRow
<1>2. \A b \in BOOLEAN : [row EXCEPT !.active = b] \in TenantRow
  BY DEF TenantRow
<1>3. Opened(row) \in TenantRow
  BY DEF TenantRow, Opened
<1>4. [row EXCEPT !.status = "failed", !.attempts = @ + 1] \in TenantRow
  <2>1. row.attempts + 1 \in Nat
    BY DEF TenantRow
  <2>2. \A n \in Nat : [row EXCEPT !.status = "failed", !.attempts = n] \in TenantRow
    BY DEF TenantRow
  <2> QED BY <2>1, <2>2
<1> QED BY <1>1, <1>2, <1>3, <1>4

UserRow == [tenant: Tenants \cup {"none"}, active: BOOLEAN]

LEMMA UserChanges ==
    ASSUME NEW u \in UserRow
    PROVE  [u EXCEPT !.active = TRUE] \in UserRow /\ Held(u) \in UserRow
BY DEF UserRow, Held

-----------------------------------------------------------------------------
(* Every part of ProvInv is kept, by whatever step *)

\* The steps in which a run goes on, or turns to the catch block.
GoesOn(w) ==
    \/ Mark(w) \/ Announce(w) \/ Build(w) \/ Activate(w) \/ Welcome(w)
    \/ Fail(w) \/ ReportFailure(w) \/ RecordFailure(w) \/ CatchFails(w)

\* The rows, the jobs and the runs stay what they are declared to be.
LEMMA TypingKept ==
    ASSUME ProvInv, ProvNext
    PROVE  ProvTypeOK'
<1>0. /\ ProvTypeOK /\ OneRunHolds /\ AttemptLeft
      /\ run \in [Workers -> RunRow] /\ job \in [Tenants -> JobRow]
  BY DEF ProvInv, ProvTypeOK, RunRow, JobRow
<1> USE DEF ProvTypeOK, RunRow, JobRow
<1>1. ASSUME NEW w \in Workers, NEW t \in Tenants, TakeJob(w, t) PROVE ProvTypeOK'
  <2>1. run' \in [Workers -> RunRow]
    BY <1>0, <1>1, AfterSteps DEF TakeJob
  <2>2. job' \in [Tenants -> JobRow]
    BY <1>0, <1>1 DEF TakeJob
  <2> QED BY <1>0, <1>1, <2>1, <2>2 DEF TakeJob
<1>2. ASSUME NEW w \in Workers, GoesOn(w) PROVE run' \in [Workers -> RunRow]
  <2>1. \E pc \in Working \cup Failing \cup {"return"} : Goto(w, pc)
    BY <1>2, AfterSteps DEF GoesOn, Mark, Announce, Build, Activate, Welcome, Fail, ReportFailure,
                      RecordFailure, CatchFails, Failing
  <2>2. Running(w)
    BY <1>0, <1>2, AfterSteps, RunningShape DEF GoesOn, Mark, Announce, Build, Activate, Welcome,
                      Fail, ReportFailure, RecordFailure, CatchFails, Failing
  <2> QED BY <1>0, <2>1, <2>2, GotoLeaves
<1>3. ASSUME NEW w \in Workers, GoesOn(w),
             \/ Announce(w) \/ Build(w) \/ Fail(w) \/ ReportFailure(w) \/ CatchFails(w)
      PROVE  ProvTypeOK'
  <2>1. run' \in [Workers -> RunRow] /\ Running(w) /\ Subject(w) \in Tenants
    BY <1>0, <1>2, <1>3, AfterSteps, RunningShape
       DEF Announce, Build, Fail, ReportFailure, CatchFails, Failing
  <2>2. progress' \in [Tenants -> Announced \cup {"failed", "none"}]
    BY <1>0, <1>3, <2>1 DEF Announce, AnnouncedBy, Build, Fail, ReportFailure, CatchFails
  <2>3. db' \in [Tenants -> SUBSET Everything]
    BY <1>0, <1>3, <2>1 DEF Announce, Build, Fail, ReportFailure, CatchFails
  <2>4. UNCHANGED <<tenants, users, job, timers, crashes>>
    BY <1>3 DEF Announce, Build, Fail, ReportFailure, CatchFails
  <2> QED BY <1>0, <2>1, <2>2, <2>3, <2>4
<1>4. ASSUME NEW w \in Workers, Mark(w) PROVE ProvTypeOK'
  <2>1. run' \in [Workers -> RunRow] /\ tenants' \in [Tenants -> TenantRow]
    BY <1>0, <1>2, <1>4, RowChanges DEF GoesOn, Mark
  <2> QED BY <1>0, <1>4, <2>1 DEF Mark
<1>5. ASSUME NEW w \in Workers, Activate(w) PROVE ProvTypeOK'
  <2>1. run' \in [Workers -> RunRow] /\ tenants' \in [Tenants -> TenantRow]
    BY <1>0, <1>2, <1>5, RowChanges DEF GoesOn, Activate
  <2> QED BY <1>0, <1>5, <2>1 DEF Activate
<1>6. ASSUME NEW w \in Workers, Welcome(w) PROVE ProvTypeOK'
  <2>1. run' \in [Workers -> RunRow] /\ users' \in [Emails -> UserRow]
    BY <1>0, <1>2, <1>6, UserChanges DEF GoesOn, Welcome, UserRow
  <2>2. UNCHANGED <<tenants, job, db, progress, timers, crashes>>
    BY <1>6 DEF Welcome
  <2>3. users' \in [Emails -> [tenant: Tenants \cup {"none"}, active: BOOLEAN]]
    BY <2>1 DEF UserRow
  <2>4. run' \in [Workers -> {AtRest} \cup [pc: Working \cup Failing \cup {"return"},
                                            tenant: Tenants, lock: BOOLEAN]]
    BY <2>1
  <2>5. /\ tenants' \in [Tenants -> TenantRow] /\ job' \in [Tenants -> JobRow]
        /\ db' \in [Tenants -> SUBSET Everything]
        /\ progress' \in [Tenants -> Announced \cup {"failed", "none"}]
        /\ timers' \subseteq Workers \X Tenants /\ crashes' \in 0..MaxCrashes
    BY <1>0, <2>2
  <2> QED BY <2>3, <2>4, <2>5
<1>7. ASSUME NEW w \in Workers, RecordFailure(w) PROVE ProvTypeOK'
  <2>1. run' \in [Workers -> RunRow]
    BY <1>2, <1>7 DEF GoesOn
  <2>2. Subject(w) \in Tenants
    BY <1>0, <1>7, RunningShape DEF RecordFailure, Failing
  <2>3. [tenants[Subject(w)] EXCEPT !.status = "failed", !.attempts = @ + 1] \in TenantRow
    BY <1>0, <2>2, RowChanges
  <2>4. tenants' \in [Tenants -> TenantRow]
    BY <1>0, <1>7, <2>2, <2>3 DEF RecordFailure
  <2> QED BY <1>0, <1>7, <2>1, <2>4 DEF RecordFailure
<1>8. ASSUME NEW w \in Workers, Return(w) \/ EndLate(w) PROVE ProvTypeOK'
  <2>1. Running(w) /\ Subject(w) \in Tenants
    BY <1>0, <1>8, RunningShape DEF Return, EndLate, Failing
  <2>2. run' \in [Workers -> RunRow] /\ job' \in [Tenants -> JobRow]
    BY <1>0, <1>8 DEF Return, EndLate
  <2> QED BY <1>0, <1>8, <2>1, <2>2 DEF Return, EndLate
<1>9. ASSUME NEW w \in Workers, Throw(w) PROVE ProvTypeOK'
  <2>1. /\ Running(w) /\ Subject(w) \in Tenants
        /\ job[Subject(w)] \in JobRow /\ job[Subject(w)].made < MaxAttempts
    BY <1>0, <1>9, RunningShape DEF Throw, Failing, OneRunHolds, AttemptLeft, Over
  <2>2. run' \in [Workers -> RunRow]
    BY <1>0, <1>9 DEF Throw
  <2>3. MadeNow(Subject(w)) \in 0..MaxAttempts
    BY <2>1, ProvisioningAssumption DEF MadeNow
  <2>4. job' \in [Tenants -> JobRow]
    BY <1>0, <1>9, <2>1, <2>3 DEF Throw
  <2> QED BY <1>0, <1>9, <2>1, <2>2, <2>4 DEF Throw, OnFailed
<1>10. ASSUME NEW w \in Workers, Lapse(w) PROVE ProvTypeOK'
  <2>1. Subject(w) \in Tenants /\ run[w] # AtRest
    BY <1>0, <1>10, RunningShape DEF Lapse, Running
  <2>2. run' \in [Workers -> RunRow]
    <3>1. run[w] \in [pc: Working \cup Failing \cup {"return"}, tenant: Tenants, lock: BOOLEAN]
      BY <1>0, <2>1
    <3>2. [run[w] EXCEPT !.lock = FALSE] \in RunRow
      BY <3>1
    <3> QED BY <1>0, <1>10, <3>2 DEF Lapse
  <2>3. job' \in [Tenants -> JobRow]
    BY <1>0, <1>10, <2>1 DEF Lapse
  <2> QED BY <1>0, <1>10, <2>2, <2>3 DEF Lapse
<1>12. ASSUME NEW t \in Tenants, Retry(t) PROVE ProvTypeOK'
  BY <1>0, <1>12 DEF Retry
<1>13. ASSUME NEW w \in Workers, NEW t \in Tenants, Stalled(w, t) PROVE ProvTypeOK'
  <2>1. job[t] \in JobRow /\ job[t].made < MaxAttempts
    BY <1>0, <1>13 DEF Stalled, Abandoned, AttemptLeft, Over
  <2>2. job' \in [Tenants -> JobRow]
    BY <1>0, <1>13, <2>1, ProvisioningAssumption DEF Stalled
  <2> QED BY <1>0, <1>13, <2>2 DEF Stalled, OnFailed
<1>14. ASSUME NEW w \in Workers, Crash(w) PROVE ProvTypeOK'
  BY <1>0, <1>14, ProvisioningAssumption DEF Crash
<1>15. ASSUME NEW t \in Tenants, Expire(t) PROVE ProvTypeOK'
  BY <1>0, <1>15 DEF Expire
<1>16. ASSUME NEW w \in Workers, NEW t \in Tenants, ClearStatus(w, t) PROVE ProvTypeOK'
  BY <1>0, <1>16 DEF ClearStatus
<1>17. ASSUME NEW t \in Tenants, NEW b \in BOOLEAN, SetActive(t, b) PROVE ProvTypeOK'
  <2>1. tenants' \in [Tenants -> TenantRow]
    BY Zenon, <1>0, <1>17, RowChanges DEF SetActive
  <2> QED BY <1>0, <1>17, <2>1 DEF SetActive
<1> QED BY <1>1, <1>3, <1>4, <1>5, <1>6, <1>7, <1>8, <1>9, <1>10, <1>12, <1>13,
           <1>14, <1>15, <1>16, <1>17 DEF ProvNext, Proceed, Serve, GoesOn

\* A run that goes on leaves its job as it is, and keeps the lock if it has it.
LEMMA GoingOn ==
    ASSUME ProvTypeOK, NEW w \in Workers, GoesOn(w)
    PROVE  /\ Running(w) /\ Running(w)' /\ job' = job
           /\ Subject(w) \in Tenants /\ Subject(w)' = Subject(w) /\ Holds(w)' = Holds(w)
           /\ \A v \in Workers : v # w => run'[v] = run[v]
<1>1. job' = job /\ \E pc \in Working \cup Failing \cup {"return"} : Goto(w, pc)
  BY AfterSteps DEF GoesOn, Mark, Announce, Build, Activate, Welcome, Fail, ReportFailure,
                    RecordFailure, CatchFails, Failing
<1>2. Running(w)
  BY AfterSteps, RunningShape DEF GoesOn, Mark, Announce, Build, Activate, Welcome, Fail,
                    ReportFailure, RecordFailure, CatchFails, Failing
<1> QED BY <1>1, <1>2, GotoLeaves, RunningShape

\* The queue gives the lock of a job to one worker at a time, and only one whose lock lapsed goes on
\* without.
LEMMA OneRunKept ==
    ASSUME ProvInv, ProvNext
    PROVE  OneRunHolds'
<1>0. /\ ProvTypeOK /\ OneRunHolds
      /\ run \in [Workers -> RunRow] /\ job \in [Tenants -> JobRow]
  BY DEF ProvInv, ProvTypeOK, RunRow, JobRow
<1>a. \A v \in Workers : (Holds(v) => Running(v)) /\ (Running(v) => Subject(v) \in Tenants)
  BY <1>0, RunningShape
<1>1. ASSUME NEW w \in Workers, GoesOn(w) PROVE OneRunHolds'
  <2>1. \A v \in Workers : /\ Running(v)' = Running(v) /\ Holds(v)' = Holds(v)
                           /\ Subject(v)' = Subject(v)
    BY <1>0, <1>1, GoingOn DEF Running, Holds, Subject
  <2>2. job' = job
    BY <1>0, <1>1, GoingOn
  <2> QED BY <1>0, <2>1, <2>2 DEF OneRunHolds
<1>2. ASSUME NEW w \in Workers, NEW t \in Tenants, TakeJob(w, t) PROVE OneRunHolds'
  <2>1. /\ run'[w] = [pc |-> "mark", tenant |-> t, lock |-> TRUE]
        /\ \A v \in Workers : v # w => run'[v] = run[v]
    BY <1>0, <1>2 DEF TakeJob
  <2>2. job'[t].state = "active" /\ \A u \in Tenants : u # t => job'[u] = job[u]
    BY <1>0, <1>2 DEF TakeJob, JobRow
  <2>3. job'[t].lapsed = job[t].lapsed
    BY <1>0, <1>2 DEF TakeJob, JobRow
  <2>4. Holds(w)' /\ Subject(w)' = t
    BY <2>1 DEF Holds, Subject
  <2>5. \A v \in Workers : v # w => /\ Running(v)' = Running(v) /\ Holds(v)' = Holds(v)
                                     /\ Subject(v)' = Subject(v)
    BY <2>1 DEF Running, Holds, Subject
  <2>6. \A v \in Workers : Holds(v) => Subject(v) \in Tenants /\ Subject(v) # t
    BY <1>0, <1>2, <1>a DEF TakeJob, OneRunHolds
  <2> QED BY <1>0, <1>a, <2>2, <2>3, <2>4, <2>5, <2>6 DEF OneRunHolds
<1>3. ASSUME NEW w \in Workers, Return(w) \/ Throw(w) PROVE OneRunHolds'
  <2>1. Running(w) /\ Holds(w) /\ Subject(w) \in Tenants
    BY <1>3, <1>a DEF Return, Throw
  <2>2. run'[w] = AtRest /\ \A v \in Workers : v # w => run'[v] = run[v]
    BY <1>0, <1>3 DEF Return, Throw
  <2>3. \A u \in Tenants : u # Subject(w) => job'[u] = job[u]
    BY <1>0, <1>3 DEF Return, Throw
  <2>4. job'[Subject(w)].state # "none" /\ job'[Subject(w)].lapsed = job[Subject(w)].lapsed
    BY <1>0, <1>3, <2>1 DEF Return, Throw, JobRow
  <2>5. ~Running(w)' /\ ~Holds(w)'
    BY <2>2 DEF Running, Holds, AtRest
  <2>6. \A v \in Workers : v # w => /\ Running(v)' = Running(v) /\ Holds(v)' = Holds(v)
                                     /\ Subject(v)' = Subject(v)
    BY <2>2 DEF Running, Holds, Subject
  <2> QED BY <1>0, <1>a, <2>1, <2>3, <2>4, <2>5, <2>6 DEF OneRunHolds
<1>4. ASSUME NEW t \in Tenants, Retry(t) \/ \E w \in Workers : Stalled(w, t) PROVE OneRunHolds'
  <2>1. run' = run /\ \A u \in Tenants : u # t => job'[u] = job[u]
    BY <1>0, <1>4 DEF Retry, Stalled
  <2>2. job'[t].state # "none" /\ job'[t].lapsed = job[t].lapsed
    BY <1>0, <1>4 DEF Retry, Stalled, JobRow
  <2>3. \A v \in Workers : Holds(v) => Subject(v) # t
    BY <1>0, <1>4, <1>a DEF Retry, Stalled, Abandoned, OneRunHolds
  <2> QED BY <1>0, <1>a, <2>1, <2>2, <2>3 DEF OneRunHolds, Running, Subject, Holds
<1>5. ASSUME NEW w \in Workers, Crash(w) \/ EndLate(w) PROVE OneRunHolds'
  <2>1. /\ job' = job /\ run'[w] = AtRest /\ \A v \in Workers : v # w => run'[v] = run[v]
    BY <1>0, <1>5 DEF Crash, EndLate
  <2>2. ~Running(w)' /\ ~Holds(w)'
    BY <2>1 DEF Running, Holds, AtRest
  <2> QED BY <1>0, <2>1, <2>2 DEF OneRunHolds, Running, Subject, Holds
<1>6. ASSUME NEW w \in Workers, Lapse(w) PROVE OneRunHolds'
  <2>1. Running(w) /\ Subject(w) \in Tenants
    BY <1>6, <1>a DEF Lapse
  <2>2. /\ run'[w] = [run[w] EXCEPT !.lock = FALSE] /\ \A v \in Workers : v # w => run'[v] = run[v]
        /\ run[w] \in [pc: Working \cup Failing \cup {"return"}, tenant: Tenants, lock: BOOLEAN]
    BY <1>0, <1>6, <2>1 DEF Lapse, RunRow, Running
  <2>3. ~Holds(w)' /\ Subject(w)' = Subject(w)
    BY <2>2 DEF Holds, Subject
  <2>4. /\ \A u \in Tenants : u # Subject(w) => job'[u] = job[u]
        /\ job'[Subject(w)].state = job[Subject(w)].state /\ job'[Subject(w)].lapsed
    BY <1>0, <1>6, <2>1 DEF Lapse, JobRow
  <2>5. \A v \in Workers : v # w => /\ Running(v)' = Running(v) /\ Holds(v)' = Holds(v)
                                     /\ Subject(v)' = Subject(v)
    BY <2>2 DEF Running, Holds, Subject
  <2> QED BY <1>0, <1>a, <2>1, <2>3, <2>4, <2>5 DEF OneRunHolds
<1>7. ASSUME UNCHANGED <<run, job>> PROVE OneRunHolds'
  BY <1>0, <1>7 DEF OneRunHolds, Running, Subject, Holds
<1> QED BY <1>1, <1>2, <1>3, <1>4, <1>5, <1>6, <1>7
        DEF ProvNext, Proceed, Serve, GoesOn, Expire, ClearStatus, SetActive

\* A job is counted one more attempt only when one ends, and is over with the last.
LEMMA AttemptsKept ==
    ASSUME ProvInv, ProvNext
    PROVE  AttemptLeft'
<1> USE DEF ProvInv
<1>1. ASSUME NEW w \in Workers, NEW t \in Tenants, TakeJob(w, t) PROVE AttemptLeft'
  BY <1>1 DEF TakeJob, AttemptLeft, Over, ProvTypeOK
<1>2. ASSUME NEW w \in Workers, Return(w) PROVE AttemptLeft'
  BY <1>2 DEF Return, AttemptLeft, Over, ProvTypeOK
<1>3. ASSUME NEW w \in Workers, Throw(w) PROVE AttemptLeft'
  BY <1>3 DEF Throw, MadeNow, AttemptLeft, Over, ProvTypeOK
<1>4. ASSUME NEW t \in Tenants, Retry(t) PROVE AttemptLeft'
  BY <1>4 DEF Retry, AttemptLeft, Over, ProvTypeOK
<1>5. ASSUME NEW t \in Tenants, NEW w \in Workers, Stalled(w, t) PROVE AttemptLeft'
  BY <1>5 DEF Stalled, Abandoned, AttemptLeft, Over, ProvTypeOK
<1>6. ASSUME job' = job PROVE AttemptLeft'
  BY <1>6 DEF AttemptLeft, Over
<1>7. ASSUME NEW w \in Workers, Lapse(w) PROVE AttemptLeft'
  BY <1>7 DEF Lapse, AttemptLeft, Over, ProvTypeOK
<1> QED BY <1>1, <1>2, <1>3, <1>4, <1>5, <1>6, <1>7, GoingOn
        DEF ProvNext, Proceed, Serve, GoesOn, EndLate, Crash, Expire, ClearStatus, SetActive

\* No step of the job removes a tenant, changes an address or moves a user, or forgets that a
\* lock has lapsed.
LEMMA OwnersStay ==
    ASSUME ProvTypeOK, OneRunHolds, ProvNext
    PROVE  /\ \A t \in Tenants : /\ tenants'[t].email = tenants[t].email
                                 /\ tenants'[t].status = "absent" => tenants[t].status = "absent"
           /\ \A e \in Emails : /\ users'[e].tenant = users[e].tenant
                                /\ users[e].active => users'[e].active
           /\ \A t \in Tenants : /\ job[t].state = "none" <=> job'[t].state = "none"
                                 /\ job[t].lapsed => job'[t].lapsed
<1>1. \A t \in Tenants : /\ tenants'[t].email = tenants[t].email
                         /\ tenants'[t].status = "absent" => tenants[t].status = "absent"
  <2>0. tenants \in [Tenants -> TenantRow]
    BY DEF ProvTypeOK
  <2>1. ASSUME NEW w \in Workers, Mark(w) \/ RecordFailure(w)
        PROVE  \A t \in Tenants : /\ tenants'[t].email = tenants[t].email
                                  /\ tenants'[t].status = "absent" => tenants[t].status = "absent"
    <3>1. CASE Mark(w)
      BY <2>0, <3>1 DEF Mark, TenantRow
    <3>2. CASE RecordFailure(w)
      BY <2>0, <3>2 DEF RecordFailure, TenantRow
    <3> QED BY <2>1, <3>1, <3>2
  <2>2. ASSUME NEW w \in Workers, Activate(w)
        PROVE  \A t \in Tenants : /\ tenants'[t].email = tenants[t].email
                                  /\ tenants'[t].status = "absent" => tenants[t].status = "absent"
    BY <2>2 DEF Activate, Opened, ProvTypeOK, TenantRow
  <2>3. ASSUME NEW u \in Tenants, NEW b \in BOOLEAN, SetActive(u, b)
        PROVE  \A t \in Tenants : /\ tenants'[t].email = tenants[t].email
                                  /\ tenants'[t].status = "absent" => tenants[t].status = "absent"
    BY <2>3 DEF SetActive, ProvTypeOK, TenantRow
  <2> QED BY <2>1, <2>2, <2>3
          DEF ProvNext, Proceed, Serve, TakeJob, Announce, Build, Welcome, Return, Fail, ReportFailure,
              CatchFails, Throw, EndLate, Lapse, Retry, Stalled, Crash, Expire, ClearStatus
<1>2. \A e \in Emails : /\ users'[e].tenant = users[e].tenant
                        /\ users[e].active => users'[e].active
  <2>1. ASSUME NEW w \in Workers, Welcome(w)
        PROVE  \A e \in Emails : /\ users'[e].tenant = users[e].tenant
                                 /\ users[e].active => users'[e].active
    BY <2>1 DEF Welcome, ProvTypeOK
  <2> QED BY <2>1
          DEF ProvNext, Proceed, Serve, TakeJob, Mark, Announce, Build, Activate, Return, Fail,
              ReportFailure, RecordFailure, CatchFails, Throw, EndLate, Lapse, Retry, Stalled, Crash,
              Expire, ClearStatus, SetActive
<1>3. \A t \in Tenants : /\ job[t].state = "none" <=> job'[t].state = "none"
                         /\ job[t].lapsed => job'[t].lapsed
  <2> DEFINE Same == \A t \in Tenants : /\ job[t].state = "none" <=> job'[t].state = "none"
                                        /\ job[t].lapsed => job'[t].lapsed
  <2>1. ASSUME NEW u \in Tenants, Retry(u) \/ \E w \in Workers : TakeJob(w, u) \/ Stalled(w, u)
        PROVE  Same
    <3>1. job \in [Tenants -> JobRow]
      BY DEF ProvTypeOK, JobRow
    <3>2. /\ \A t \in Tenants : t # u => job'[t] = job[t]
          /\ job[u].state # "none" /\ job'[u].state # "none" /\ job'[u].lapsed = job[u].lapsed
      BY <2>1, <3>1 DEF TakeJob, Retry, Stalled, Abandoned, JobRow
    <3> QED BY <3>1, <3>2 DEF JobRow
  <2>2. ASSUME NEW w \in Workers, Return(w) \/ Throw(w) \/ Lapse(w)
        PROVE  Same
    <3>1. Holds(w)
      BY <2>2 DEF Return, Throw, Lapse
    <3>2. Subject(w) \in Tenants /\ job[Subject(w)].state = "active"
      BY <3>1, RunningShape DEF OneRunHolds
    <3>3. \A t \in Tenants : t # Subject(w) => job'[t] = job[t]
      BY <2>2 DEF Return, Throw, Lapse, ProvTypeOK
    <3>4. job'[Subject(w)].state # "none" /\ (job[Subject(w)].lapsed => job'[Subject(w)].lapsed)
      BY <2>2, <3>2 DEF Return, Throw, Lapse, ProvTypeOK
    <3> QED BY <3>2, <3>3, <3>4
  <2> QED BY <2>1, <2>2, GoingOn
          DEF ProvNext, Proceed, Serve, GoesOn, EndLate, Crash, Expire, ClearStatus, SetActive
<1> QED BY <1>1, <1>2, <1>3

\* So a job keeps its owner.
LEMMA OwnersKept ==
    ASSUME ProvInv, ProvNext
    PROVE  JobHasOwner'
<1>1. ProvTypeOK /\ OneRunHolds /\ JobHasOwner
  BY DEF ProvInv
<1> SUFFICES ASSUME NEW t \in Tenants, job'[t].state # "none"
             PROVE  /\ tenants'[t].status # "absent" /\ tenants'[t].email \in Emails
                    /\ users'[tenants'[t].email].tenant = t
  BY DEF JobHasOwner
<1>2. /\ job[t].state # "none" /\ tenants'[t].email = tenants[t].email
      /\ tenants'[t].status = "absent" => tenants[t].status = "absent"
  BY <1>1, OwnersStay
<1>3. /\ tenants[t].status # "absent" /\ tenants[t].email \in Emails
      /\ users[tenants[t].email].tenant = t
  BY <1>1, <1>2 DEF JobHasOwner
<1>4. users'[tenants[t].email].tenant = users[tenants[t].email].tenant
  BY <1>1, <1>3, OwnersStay
<1> QED BY <1>2, <1>3, <1>4

\* What the steps of process add to what was built before them.
LEMMA BuildOrder ==
    /\ \A pc \in Announced \cup {"mark", "activate", "welcome"} :
          BuiltBefore(After[pc]) \subseteq BuiltBefore(pc)
    /\ \A pc \in Everything : BuiltBefore(After[pc]) \subseteq BuiltBefore(pc) \cup {pc}
    /\ \A pc \in {"completed", "activate", "welcome", "return"} : BuiltBefore(pc) = Everything
    /\ \A pc \in Failing \cup {"mark"} : BuiltBefore(pc) = {}
BY DEF BuiltBefore, After, Announced, Everything, Failing

\* What exists of a database stays, whatever fails.
LEMMA DatabaseGrows ==
    ASSUME ProvTypeOK, ProvNext
    PROVE  \A t \in Tenants : db[t] \subseteq db'[t]
<1>1. ASSUME NEW w \in Workers, Build(w) PROVE \A t \in Tenants : db[t] \subseteq db'[t]
  BY <1>1 DEF Build, ProvTypeOK
<1>2. ASSUME db' = db PROVE \A t \in Tenants : db[t] \subseteq db'[t]
  BY <1>2
<1> QED BY <1>1, <1>2
        DEF ProvNext, Proceed, Serve, TakeJob, Mark, Announce, Activate, Welcome, Return, Fail,
            ReportFailure, RecordFailure, CatchFails, Throw, EndLate, Lapse, Retry, Stalled, Crash,
            Expire, ClearStatus, SetActive

\* A run without its lock is where it was, on the same job.
LEMMA LapseLeaves ==
    ASSUME ProvTypeOK, NEW w \in Workers, Lapse(w)
    PROVE  /\ Running(w) /\ Running(w)' /\ Subject(w) \in Tenants /\ ~Holds(w)'
           /\ StepOn(w)' = StepOn(w) /\ Subject(w)' = Subject(w)
           /\ \A v \in Workers : v # w => run'[v] = run[v]
           /\ job'[Subject(w)].lapsed
           /\ \A t \in Tenants : /\ job'[t].state = job[t].state /\ job'[t].made = job[t].made
                                 /\ job'[t].stalls = job[t].stalls
<1>1. Running(w) /\ Subject(w) \in Tenants
  BY RunningShape DEF Lapse
<1>2. run[w] \in [pc: Working \cup Failing \cup {"return"}, tenant: Tenants, lock: BOOLEAN]
  BY <1>1 DEF Running, ProvTypeOK
<1>3. run'[w] = [run[w] EXCEPT !.lock = FALSE] /\ \A v \in Workers : v # w => run'[v] = run[v]
  BY DEF Lapse, ProvTypeOK
<1>4. StepOn(w)' = StepOn(w) /\ Subject(w)' = Subject(w) /\ ~Holds(w)' /\ Running(w)'
  <2>1. run'[w].tenant \in Tenants
    BY <1>2, <1>3
  <2> QED BY <1>2, <1>3, <2>1, ProvisioningAssumption DEF StepOn, Subject, Holds, Running, AtRest
<1>5. \A t \in Tenants : job[t] \in JobRow
  BY DEF ProvTypeOK, JobRow
<1>6. /\ job'[Subject(w)] = [job[Subject(w)] EXCEPT !.lapsed = TRUE]
      /\ \A t \in Tenants : t # Subject(w) => job'[t] = job[t]
  BY <1>1 DEF Lapse, ProvTypeOK
<1> QED BY <1>1, <1>3, <1>4, <1>5, <1>6 DEF JobRow

\* One worker moves at a time.
LEMMA OneMoves ==
    ASSUME ProvTypeOK, ProvNext, NEW v \in Workers
    PROVE  \/ run'[v] = run[v] /\ \A w \in Workers : GoesOn(w) => w # v
           \/ GoesOn(v) \/ (\E t \in Tenants : TakeJob(v, t)) \/ Lapse(v)
           \/ Return(v) \/ Throw(v) \/ EndLate(v) \/ Crash(v)
<1>1. ASSUME NEW w \in Workers, w # v, Proceed(w) \/ Fail(w) \/ CatchFails(w) \/ Lapse(w) \/ Crash(w)
      PROVE  run'[v] = run[v]
  <2>1. CASE GoesOn(w)
    BY <1>1, <2>1, GoingOn
  <2> QED BY <1>1, <2>1 DEF GoesOn, Proceed, TakeJob, Return, Throw, EndLate, Lapse, Crash, ProvTypeOK
<1> QED BY <1>1 DEF ProvNext, Proceed, Serve, GoesOn, Retry, Stalled, Expire, ClearStatus, SetActive

\* A run that ends is gone.
LEMMA EndsAtRest ==
    ASSUME ProvTypeOK, NEW v \in Workers, Return(v) \/ Throw(v) \/ EndLate(v) \/ Crash(v)
    PROVE  ~Running(v)' /\ \A w \in Workers : w # v => run'[w] = run[w]
BY DEF Return, Throw, EndLate, Crash, ProvTypeOK, Running

\* A run finds what it has come past, although any attempt may have built it.
LEMMA RunsFindParts ==
    ASSUME ProvInv, ProvNext, NEW v \in Workers, Running(v)'
    PROVE  BuiltBefore(StepOn(v)') \subseteq db'[Subject(v)']
<1> USE DEF ProvInv
<1>0. ProvTypeOK /\ PartsBuilt /\ \A t \in Tenants : db[t] \subseteq db'[t]
  BY DatabaseGrows
<1>1. CASE run'[v] = run[v]
  <2>1. Running(v) /\ Subject(v) \in Tenants
    BY <1>1, RunningShape DEF Running
  <2> QED BY <1>0, <1>1, <2>1 DEF PartsBuilt, StepOn, Subject
<1>2. ASSUME Mark(v) \/ Announce(v) \/ Activate(v) \/ Welcome(v)
      PROVE  BuiltBefore(StepOn(v)') \subseteq db'[Subject(v)']
  <2>1. Running(v) /\ Subject(v) \in Tenants
    BY <1>2, GoingOn DEF GoesOn
  <2>2. StepOn(v) \in Announced \cup {"mark", "activate", "welcome"} /\ Goto(v, After[StepOn(v)])
    BY <1>2 DEF Mark, Announce, Activate, Welcome
  <2>3. StepOn(v)' = After[StepOn(v)] /\ Subject(v)' = Subject(v)
    BY <2>1, <2>2, AfterSteps, GotoLeaves
  <2>4. BuiltBefore(After[StepOn(v)]) \subseteq BuiltBefore(StepOn(v))
    BY <2>2, BuildOrder
  <2> QED BY <1>0, <2>1, <2>3, <2>4 DEF PartsBuilt
<1>3. ASSUME Build(v) PROVE BuiltBefore(StepOn(v)') \subseteq db'[Subject(v)']
  <2>1. Running(v) /\ Subject(v) \in Tenants
    BY <1>3, GoingOn DEF GoesOn
  <2>2. StepOn(v) \in Everything /\ Goto(v, After[StepOn(v)])
    BY <1>3 DEF Build
  <2>3. StepOn(v)' = After[StepOn(v)] /\ Subject(v)' = Subject(v)
    BY <2>1, <2>2, AfterSteps, GotoLeaves
  <2>4. StepOn(v) \in db'[Subject(v)]
    BY <1>3, <2>1 DEF Build, ProvTypeOK
  <2>5. BuiltBefore(After[StepOn(v)]) \subseteq BuiltBefore(StepOn(v)) \cup {StepOn(v)}
    BY <2>2, BuildOrder
  <2> QED BY <1>0, <2>1, <2>3, <2>4, <2>5 DEF PartsBuilt
<1>4. ASSUME Fail(v) \/ ReportFailure(v) \/ RecordFailure(v) \/ CatchFails(v)
      PROVE  BuiltBefore(StepOn(v)') \subseteq db'[Subject(v)']
  <2>1. Running(v)
    BY <1>4, GoingOn DEF GoesOn
  <2>2. \E pc \in Failing : Goto(v, pc)
    BY <1>4 DEF Fail, ReportFailure, RecordFailure, CatchFails, Failing
  <2>3. StepOn(v)' \in Failing
    BY <2>1, <2>2, GotoLeaves
  <2> QED BY <2>3, BuildOrder
<1>5. ASSUME NEW t \in Tenants, TakeJob(v, t)
      PROVE  BuiltBefore(StepOn(v)') \subseteq db'[Subject(v)']
  <2>1. StepOn(v)' = "mark"
    BY <1>5 DEF TakeJob, ProvTypeOK, StepOn
  <2> QED BY <2>1, BuildOrder
<1>6. ASSUME Return(v) \/ Throw(v) \/ EndLate(v) \/ Crash(v)
      PROVE  BuiltBefore(StepOn(v)') \subseteq db'[Subject(v)']
  BY <1>0, <1>6, EndsAtRest
<1>7. ASSUME Lapse(v) PROVE BuiltBefore(StepOn(v)') \subseteq db'[Subject(v)']
  BY <1>0, <1>7, LapseLeaves DEF PartsBuilt
<1> QED BY <1>0, <1>1, <1>2, <1>3, <1>4, <1>5, <1>6, <1>7, OneMoves DEF GoesOn

\* The row and the record say completed only after the last part was built.
LEMMA CompletionKept ==
    ASSUME ProvInv, ProvNext, NEW t \in Tenants,
           "completed" \in {tenants'[t].status, progress'[t]}
    PROVE  db'[t] = Everything
<1> USE DEF ProvInv
<1>0. ProvTypeOK' /\ db[t] \subseteq db'[t] /\ db'[t] \subseteq Everything
  BY TypingKept, DatabaseGrows DEF ProvTypeOK
<1>1. ASSUME "completed" \in {tenants[t].status, progress[t]} PROVE db'[t] = Everything
  BY <1>0, <1>1 DEF PartsBuilt
<1>2. ASSUME NEW w \in Workers, Activate(w) \/ Announce(w), Subject(w) = t,
             StepOn(w) \in {"activate", "completed"}
      PROVE  db'[t] = Everything
  BY <1>0, <1>2, GoingOn, BuildOrder DEF GoesOn, PartsBuilt
<1>3. ASSUME NEW w \in Workers, Mark(w) PROVE db'[t] = Everything
  BY <1>1, <1>3 DEF Mark, ProvTypeOK, TenantRow
<1>4. ASSUME NEW w \in Workers, Announce(w) PROVE db'[t] = Everything
  BY <1>1, <1>2, <1>4 DEF Announce, AnnouncedBy, ProvTypeOK
<1>5. ASSUME NEW w \in Workers, Activate(w) PROVE db'[t] = Everything
  BY <1>1, <1>2, <1>5 DEF Activate, Opened, ProvTypeOK, TenantRow
<1>6. ASSUME NEW w \in Workers, ReportFailure(w) \/ RecordFailure(w) PROVE db'[t] = Everything
  BY <1>1, <1>6 DEF ReportFailure, RecordFailure, ProvTypeOK, TenantRow
<1>7. ASSUME NEW u \in Tenants, Expire(u) \/ \E w \in Workers : ClearStatus(w, u)
      PROVE  db'[t] = Everything
  BY <1>1, <1>7 DEF Expire, ClearStatus, ProvTypeOK
<1>8. ASSUME NEW u \in Tenants, NEW b \in BOOLEAN, SetActive(u, b) PROVE db'[t] = Everything
  BY <1>1, <1>8 DEF SetActive, ProvTypeOK, TenantRow
<1> QED BY <1>1, <1>3, <1>4, <1>5, <1>6, <1>7, <1>8
        DEF ProvNext, Proceed, Serve, TakeJob, Build, Welcome, Return, Fail, CatchFails, Throw,
            EndLate, Lapse, Retry, Stalled, Crash

LEMMA PartsKept ==
    ASSUME ProvInv, ProvNext
    PROVE  PartsBuilt'
BY RunsFindParts, CompletionKept DEF PartsBuilt

\* Only the run of a tenant's job changes the status of its row and how many failures it counts.
LEMMA RowIsItsRuns ==
    ASSUME ProvTypeOK, ProvNext, NEW t \in Tenants,
           \A w \in Workers : GoesOn(w) => Subject(w) # t
    PROVE  tenants'[t].status = tenants[t].status /\ tenants'[t].attempts = tenants[t].attempts
<1>1. ASSUME NEW w \in Workers, Mark(w) \/ Activate(w) \/ RecordFailure(w)
      PROVE  tenants'[t] = tenants[t]
  BY <1>1 DEF GoesOn, Mark, Activate, RecordFailure, ProvTypeOK
<1>2. ASSUME NEW u \in Tenants, NEW b \in BOOLEAN, SetActive(u, b)
      PROVE  tenants'[t].status = tenants[t].status /\ tenants'[t].attempts = tenants[t].attempts
  BY <1>2 DEF SetActive, ProvTypeOK, TenantRow
<1> QED BY <1>1, <1>2
        DEF ProvNext, Proceed, Serve, TakeJob, Announce, Build, Welcome, Return, Fail,
            ReportFailure, CatchFails, Throw, EndLate, Lapse, Retry, Stalled, Crash, Expire,
            ClearStatus

\* A run is past the activation only with the tenant open, and at its end the administrator's
\* account is, too.
LEMMA RunOpensKept ==
    ASSUME ProvInv, ProvNext
    PROVE  RunOpens'
<1>0. ProvTypeOK /\ OneRunHolds /\ JobHasOwner /\ RunOpens
  BY DEF ProvInv
<1> SUFFICES ASSUME NEW v \in Workers, Running(v)'
             PROVE  /\ StepOn(v)' \in {"welcome", "return"} =>
                          job'[Subject(v)'].lapsed \/ tenants'[Subject(v)'].status = "completed"
                    /\ StepOn(v)' = "return" => users'[tenants'[Subject(v)'].email].active
  BY DEF RunOpens
<1> DEFINE t == Subject(v)
           Kept2 == /\ StepOn(v)' \in {"welcome", "return"} =>
                          job'[t].lapsed \/ tenants'[t].status = "completed"
                    /\ StepOn(v)' = "return" => users'[tenants'[t].email].active
<1>1. ASSUME GoesOn(v) PROVE Kept2
  <2>1. Running(v) /\ t \in Tenants
    BY <1>0, <1>1, GoingOn
  <2>2. CASE Activate(v)
    <3>1. StepOn(v)' = "welcome"
      BY <1>0, <2>1, <2>2, AfterSteps, GotoLeaves DEF Activate
    <3>2. tenants'[t].status = "completed"
      BY <1>0, <2>1, <2>2 DEF Activate, Opened, ProvTypeOK, TenantRow
    <3> QED BY <3>1, <3>2
  <2>3. CASE Welcome(v)
    <3>1. tenants' = tenants /\ StepOn(v) = "welcome"
      BY <2>3 DEF Welcome
    <3>2. job[t].lapsed \/ tenants[t].status = "completed"
      BY <1>0, <2>1, <3>1 DEF RunOpens
    <3>3. tenants[t].email \in Emails /\ users[tenants[t].email].tenant = t
      BY <1>0, <2>1 DEF OneRunHolds, JobHasOwner
    <3>4. t # "none"
      BY <2>1, ProvisioningAssumption
    <3>5. users'[tenants[t].email].active
      BY <1>0, <2>3, <3>3, <3>4 DEF Welcome, ProvTypeOK
    <3>6. job' = job
      BY <2>3 DEF Welcome
    <3> QED BY <3>1, <3>2, <3>5, <3>6
  <2>4. CASE Mark(v) \/ Announce(v) \/ Build(v)
    <3>1. StepOn(v) \in Announced \cup Everything \cup {"mark"} /\ Goto(v, After[StepOn(v)])
      BY <2>4 DEF Mark, Announce, Build
    <3>2. StepOn(v)' = After[StepOn(v)]
      BY <1>0, <2>1, <3>1, AfterSteps, GotoLeaves
    <3> QED BY <3>1, <3>2 DEF After, Announced, Everything
  <2>5. CASE Fail(v) \/ ReportFailure(v) \/ RecordFailure(v) \/ CatchFails(v)
    <3>1. \E pc \in Failing : Goto(v, pc)
      BY <2>5 DEF Fail, ReportFailure, RecordFailure, CatchFails, Failing
    <3>2. StepOn(v)' \in Failing
      BY <1>0, <2>1, <3>1, GotoLeaves
    <3> QED BY <3>2 DEF Failing
  <2> QED BY <1>1, <2>2, <2>3, <2>4, <2>5 DEF GoesOn
<1>2. ASSUME StepOn(v)' = StepOn(v), Running(v), \A w \in Workers : GoesOn(w) => w # v
      PROVE  Kept2
  <2>1. t \in Tenants /\ job[t].state # "none"
    BY <1>0, <1>2, RunningShape DEF OneRunHolds
  <2>2. ASSUME NEW w \in Workers, GoesOn(w), Subject(w) = t PROVE job[t].lapsed
    BY <1>0, <1>2, <2>2, GoingOn DEF OneRunHolds
  <2>3. ~job[t].lapsed => tenants'[t].status = tenants[t].status
    BY <1>0, <2>1, <2>2, RowIsItsRuns
  <2>4. tenants[t].email \in Emails
    BY <1>0, <2>1 DEF JobHasOwner
  <2>5. /\ job[t].lapsed => job'[t].lapsed
        /\ tenants'[t].email = tenants[t].email
        /\ users[tenants[t].email].active => users'[tenants[t].email].active
    BY <1>0, <2>1, <2>4, OwnersStay
  <2>6. /\ StepOn(v) \in {"welcome", "return"} => job[t].lapsed \/ tenants[t].status = "completed"
        /\ StepOn(v) = "return" => users[tenants[t].email].active
    BY <1>0, <1>2 DEF RunOpens
  <2> QED BY <1>2, <2>3, <2>5, <2>6
<1>3. CASE run'[v] = run[v] /\ \A w \in Workers : GoesOn(w) => w # v
  <2>1. Running(v) /\ StepOn(v)' = StepOn(v) /\ Subject(v)' = t
    BY <1>3 DEF Running, StepOn, Subject
  <2> QED BY <1>2, <1>3, <2>1
<1>4. CASE Lapse(v)
  <2>1. /\ Running(v) /\ StepOn(v)' = StepOn(v) /\ Subject(v)' = t
        /\ UNCHANGED <<tenants, users>> /\ job'[t].lapsed
    BY <1>0, <1>4, LapseLeaves DEF Lapse
  <2> QED BY <1>0, <2>1 DEF RunOpens
<1>5. CASE GoesOn(v)
  <2>1. Subject(v)' = t
    BY <1>0, <1>5, GoingOn
  <2> QED BY <1>1, <1>5, <2>1
<1>6. ASSUME NEW u \in Tenants, TakeJob(v, u) PROVE StepOn(v)' = "mark"
  BY <1>0, <1>6 DEF TakeJob, ProvTypeOK, StepOn
<1>7. ASSUME Return(v) \/ Throw(v) \/ EndLate(v) \/ Crash(v) PROVE ~Running(v)'
  BY <1>0, <1>7, EndsAtRest
<1> QED BY <1>0, <1>3, <1>4, <1>5, <1>6, <1>7, OneMoves

\* A job completes with its run at the return. No later run closes the account that has opened;
\* the row is as it was left then, unless a run goes on without its lock.
LEMMA CompletedJobKept ==
    ASSUME ProvInv, ProvNext
    PROVE  CompletedJobOpensTenant'
<1>0. ProvTypeOK /\ OneRunHolds /\ JobHasOwner /\ RunOpens /\ CompletedJobOpensTenant
  BY DEF ProvInv
<1> SUFFICES ASSUME NEW t \in Tenants, job'[t].state = "completed"
             PROVE  /\ users'[tenants'[t].email].active
                    /\ job'[t].lapsed \/ tenants'[t].status = "completed"
  BY DEF CompletedJobOpensTenant
<1>1. job[t].state # "none" /\ (job[t].lapsed => job'[t].lapsed) /\ tenants'[t].email = tenants[t].email
  BY <1>0, OwnersStay
<1>2. tenants[t].email \in Emails
  BY <1>0, <1>1 DEF JobHasOwner
<1>3. users[tenants[t].email].active => users'[tenants[t].email].active
  BY <1>0, <1>2, OwnersStay
<1>4. CASE job[t].state = "completed"
  <2>1. ASSUME NEW w \in Workers, GoesOn(w), Subject(w) = t PROVE job[t].lapsed
    BY <1>0, <1>4, <2>1, GoingOn DEF OneRunHolds
  <2>2. ~job[t].lapsed => tenants'[t].status = tenants[t].status
    BY <1>0, <2>1, RowIsItsRuns
  <2>3. users[tenants[t].email].active /\ (job[t].lapsed \/ tenants[t].status = "completed")
    BY <1>0, <1>4 DEF CompletedJobOpensTenant
  <2> QED BY <1>1, <1>3, <2>2, <2>3
<1>5. ASSUME NEW w \in Workers, Return(w), Subject(w) = t
      PROVE  /\ users'[tenants'[t].email].active
             /\ job'[t].lapsed \/ tenants'[t].status = "completed"
  <2>1. Running(w) /\ UNCHANGED <<tenants, users>> /\ StepOn(w) = "return"
    BY <1>0, <1>5, RunningShape DEF Return
  <2> QED BY <1>0, <1>1, <1>5, <2>1 DEF RunOpens
<1>6. ASSUME job[t].state # "completed" PROVE \E w \in Workers : Return(w) /\ Subject(w) = t
  <2>1. ASSUME NEW u \in Tenants, Retry(u) \/ \E w \in Workers : TakeJob(w, u) \/ Stalled(w, u)
        PROVE  FALSE
    <3>1. u # t => job'[t] = job[t]
      BY <1>0, <2>1 DEF TakeJob, Retry, Stalled, ProvTypeOK
    <3>2. u = t => job'[t].state \in {"active", "waiting", "failed"}
      BY <1>0, <2>1 DEF TakeJob, Retry, Stalled, ProvTypeOK
    <3> QED BY <1>6, <3>1, <3>2
  <2>2. ASSUME NEW w \in Workers, Throw(w) PROVE FALSE
    <3>1. Subject(w) # t => job'[t] = job[t]
      BY <1>0, <2>2 DEF Throw, ProvTypeOK
    <3>2. Subject(w) = t => job'[t].state \in {"delayed", "failed"}
      BY <1>0, <2>2 DEF Throw, ProvTypeOK
    <3> QED BY <1>6, <3>1, <3>2
  <2>3. ASSUME NEW w \in Workers, Return(w) PROVE Subject(w) = t
    BY <1>0, <1>6, <2>3 DEF Return, ProvTypeOK
  <2>4. ASSUME NEW w \in Workers, Lapse(w) PROVE FALSE
    BY <1>0, <1>6, <2>4, LapseLeaves
  <2> QED BY <1>0, <1>6, <2>1, <2>2, <2>3, <2>4, GoingOn
          DEF ProvNext, Proceed, Serve, GoesOn, EndLate, Crash, Expire, ClearStatus, SetActive
<1> QED BY <1>4, <1>5, <1>6

\* The catch block counts a failure, and nothing else does.
LEMMA CountsRise ==
    ASSUME ProvTypeOK, ProvNext, NEW t \in Tenants,
           \A w \in Workers : RecordFailure(w) => Subject(w) # t
    PROVE  tenants'[t].attempts = tenants[t].attempts
<1>0. tenants \in [Tenants -> TenantRow]
  BY DEF ProvTypeOK
<1>1. ASSUME NEW w \in Workers, Mark(w) \/ RecordFailure(w)
      PROVE  tenants'[t].attempts = tenants[t].attempts
  <2>1. CASE Mark(w)
    BY <1>0, <2>1 DEF Mark, TenantRow
  <2>2. CASE RecordFailure(w)
    BY <1>0, <2>2 DEF RecordFailure, TenantRow
  <2> QED BY <1>1, <2>1, <2>2
<1>2. ASSUME NEW w \in Workers, Activate(w)
      PROVE  tenants'[t].attempts = tenants[t].attempts
  BY <1>0, <1>2 DEF Activate, Opened, TenantRow
<1>3. ASSUME NEW u \in Tenants, NEW b \in BOOLEAN, SetActive(u, b)
      PROVE  tenants'[t].attempts = tenants[t].attempts
  BY <1>0, <1>3 DEF SetActive, TenantRow
<1> QED BY <1>1, <1>2, <1>3
        DEF ProvNext, Proceed, Serve, TakeJob, Announce, Build, Welcome, Return, Fail,
            ReportFailure, CatchFails, Throw, EndLate, Lapse, Retry, Stalled, Crash, Expire,
            ClearStatus

\* The runs of a job the queue has seen the end of, or of which it still waits for it.
RunsSeen(t) == job[t].made + job[t].stalls + (IF job[t].state = "active" THEN 1 ELSE 0)

\* The queue sees no run twice, and loses count of none but one that returns.
LEMMA QueueCounts ==
    ASSUME ProvTypeOK, ProvNext, NEW t \in Tenants
    PROVE  /\ RunsSeen(t) \in Int /\ RunsSeen(t)' \in Int
           /\ (\E w \in Workers : TakeJob(w, t)) => RunsSeen(t)' = RunsSeen(t) + 1
           /\ (\A w \in Workers : Return(w) => Subject(w) # t) => RunsSeen(t)' >= RunsSeen(t)
           /\ RunsSeen(t)' >= RunsSeen(t) - 1
<1>0. /\ job[t].made \in Int /\ job[t].stalls \in Int
      /\ job \in [Tenants -> JobRow] /\ job[t] \in JobRow
  BY ProvisioningAssumption DEF ProvTypeOK, JobRow
<1> DEFINE P == /\ RunsSeen(t)' \in Int
                /\ (\E w \in Workers : TakeJob(w, t)) => RunsSeen(t)' = RunsSeen(t) + 1
                /\ (\A w \in Workers : Return(w) => Subject(w) # t) => RunsSeen(t)' >= RunsSeen(t)
                /\ RunsSeen(t)' >= RunsSeen(t) - 1
<1>a. RunsSeen(t) \in Int
  BY <1>0 DEF RunsSeen
<1>b. ASSUME NEW w \in Workers, TakeJob(w, t)
      PROVE  job[t].state = "waiting" /\ job'[t] = [job[t] EXCEPT !.state = "active"]
  BY <1>0, <1>b DEF TakeJob
<1>1. ASSUME job'[t].made = job[t].made, job'[t].stalls = job[t].stalls,
             job'[t].state = job[t].state
      PROVE P
  <2>1. RunsSeen(t)' = RunsSeen(t)
    BY <1>1 DEF RunsSeen
  <2>2. \A w \in Workers : ~TakeJob(w, t)
    BY <1>0, <1>1, <1>b DEF JobRow
  <2> QED BY <1>a, <2>1, <2>2
<1>2. ASSUME NEW w \in Workers, TakeJob(w, t) PROVE P
  <2>1. /\ job[t].state = "waiting" /\ job'[t].state = "active"
        /\ job'[t].made = job[t].made /\ job'[t].stalls = job[t].stalls
    BY <1>0, <1>2, <1>b DEF JobRow
  <2> QED BY <1>0, <1>a, <2>1 DEF RunsSeen
<1>3. ASSUME NEW w \in Workers, Return(w), Subject(w) = t PROVE P
  <2>1. job'[t] = [job[t] EXCEPT !.state = "completed"]
    BY <1>0, <1>3 DEF Return
  <2>2. /\ job'[t].state = "completed" /\ job'[t].made = job[t].made
        /\ job'[t].stalls = job[t].stalls
    BY <1>0, <2>1 DEF JobRow
  <2>3. \A x \in Workers : ~TakeJob(x, t)
    BY <1>0, <1>b, <2>2 DEF JobRow
  <2> QED BY <1>0, <1>3, <1>a, <2>2, <2>3 DEF RunsSeen
<1>4. ASSUME job'[t].made + job'[t].stalls = job[t].made + job[t].stalls + 1,
             job'[t].made \in Int, job'[t].stalls \in Int,
             job'[t].state \in {"delayed", "failed", "waiting"}
      PROVE  P
  <2>1. \A w \in Workers : ~TakeJob(w, t)
    BY <1>0, <1>4, <1>b DEF JobRow
  <2> QED BY <1>0, <1>4, <1>a, <2>1 DEF RunsSeen
<1>5. ASSUME NEW w \in Workers, Return(w) \/ Throw(w), Subject(w) # t PROVE job'[t] = job[t]
  BY <1>0, <1>5 DEF Return, Throw
<1>6. ASSUME NEW u \in Tenants, u # t,
             Retry(u) \/ \E w \in Workers : TakeJob(w, u) \/ Stalled(w, u)
      PROVE  job'[t] = job[t]
  BY <1>0, <1>6 DEF Retry, TakeJob, Stalled
<1>7. ASSUME NEW w \in Workers, Throw(w), Subject(w) = t PROVE P
  <2>1. /\ job'[t].made = job[t].made + 1 /\ job'[t].stalls = job[t].stalls
        /\ job'[t].state \in {"delayed", "failed"}
    BY <1>0, <1>7 DEF Throw, MadeNow, JobRow
  <2> QED BY <1>0, <1>4, <2>1
<1>8. ASSUME NEW w \in Workers, Stalled(w, t) PROVE P
  <2>1. \/ /\ job'[t].made = job[t].made /\ job'[t].stalls = job[t].stalls + 1
           /\ job'[t].state = "waiting"
        \/ /\ job'[t].made = job[t].made + 1 /\ job'[t].stalls = job[t].stalls
           /\ job'[t].state = "failed"
    BY <1>0, <1>8 DEF Stalled, JobRow
  <2> QED BY <1>0, <1>4, <2>1
<1>9. ASSUME Retry(t) PROVE P
  <2>1. /\ job[t].state = "delayed" /\ job'[t].state = "waiting"
        /\ job'[t].made = job[t].made /\ job'[t].stalls = job[t].stalls
    BY <1>0, <1>9 DEF Retry, JobRow
  <2>2. \A w \in Workers : ~TakeJob(w, t)
    BY <2>1, <1>b
  <2> QED BY <1>0, <1>a, <2>1, <2>2 DEF RunsSeen
<1>10. ASSUME NEW w \in Workers, Lapse(w) PROVE P
  BY <1>1, <1>10, LapseLeaves
<1>11. ASSUME job'[t] = job[t] PROVE P
  BY <1>1, <1>11
<1>12. P
  <2>1. ASSUME NEW w \in Workers, Return(w) \/ Throw(w) PROVE P
    BY <1>3, <1>5, <1>7, <1>11, <2>1
  <2>2. ASSUME NEW u \in Tenants, Retry(u) \/ \E w \in Workers : TakeJob(w, u) \/ Stalled(w, u)
        PROVE  P
    BY <1>2, <1>6, <1>8, <1>9, <1>11, <2>2
  <2>3. ASSUME job' = job PROVE P
    BY <1>11, <2>3
  <2> HIDE DEF P
  <2> QED BY <1>10, <2>1, <2>2, <2>3, GoingOn
          DEF ProvNext, Proceed, Serve, GoesOn, EndLate, Crash, Expire, ClearStatus, SetActive
<1> QED BY <1>a, <1>12

\* Of finitely many workers, the uncounted runs can be counted.
LEMMA UncountedFinite ==
    ASSUME NEW t \in Tenants
    PROVE  /\ IsFiniteSet(Uncounted(t)) /\ Cardinality(Uncounted(t)) \in Nat
           /\ \A w \in Workers : Cardinality(Uncounted(t) \cup {w}) <= Cardinality(Uncounted(t)) + 1
<1>1. Uncounted(t) \subseteq Workers
  BY DEF Uncounted
<1>2. IsFiniteSet(Uncounted(t))
  BY <1>1, ProvisioningAssumption, FS_Subset
<1>3. Cardinality(Uncounted(t)) \in Nat
  BY <1>2, FS_CardinalityType
<1>4. ASSUME NEW w \in Workers
      PROVE  Cardinality(Uncounted(t) \cup {w}) <= Cardinality(Uncounted(t)) + 1
  <2>1. Cardinality(Uncounted(t) \cup {w})
           = IF w \in Uncounted(t) THEN Cardinality(Uncounted(t)) ELSE Cardinality(Uncounted(t)) + 1
    BY <1>2, FS_AddElement
  <2> QED BY <1>3, <2>1
<1> QED BY <1>2, <1>3, <1>4

\* A run becomes one more only when the job is taken.
LEMMA UncountedRuns ==
    ASSUME ProvTypeOK, ProvNext, NEW t \in Tenants, NEW v \in Workers, v \in Uncounted(t)'
    PROVE  v \in Uncounted(t) \/ TakeJob(v, t)
<1>1. Running(v)' /\ Subject(v)' = t /\ StepOn(v)' # "throw"
  BY DEF Uncounted
<1>2. CASE run'[v] = run[v]
  BY <1>1, <1>2 DEF Uncounted, Running, Subject, StepOn
<1>3. CASE GoesOn(v)
  <2>1. Running(v) /\ Subject(v) = t
    BY <1>1, <1>3, GoingOn
  <2>2. StepOn(v) \in Working \cup {"report", "record"}
    BY <1>3, AfterSteps DEF GoesOn, Mark, Announce, Build, Activate, Welcome, Fail, ReportFailure,
                            RecordFailure, CatchFails
  <2>3. StepOn(v) # "throw"
    BY <2>2, AfterSteps DEF Failing
  <2> QED BY <2>1, <2>3 DEF Uncounted
<1>4. CASE Lapse(v)
  BY <1>1, <1>4, LapseLeaves DEF Uncounted
<1>5. ASSUME NEW u \in Tenants, TakeJob(v, u) PROVE u = t
  BY <1>1, <1>5 DEF TakeJob, ProvTypeOK, Subject
<1>6. CASE Return(v) \/ Throw(v) \/ EndLate(v) \/ Crash(v)
  BY <1>1, <1>6, EndsAtRest
<1> QED BY <1>2, <1>3, <1>4, <1>5, <1>6, OneMoves

\* So the failures counted and those that may still be are never more than the runs.
LEMMA RunsCountedKept ==
    ASSUME ProvInv, ProvNext
    PROVE  RunsCounted'
<1>0. ProvTypeOK /\ ProvTypeOK' /\ RunsCounted
  BY TypingKept DEF ProvInv
<1> SUFFICES ASSUME NEW t \in Tenants
             PROVE  tenants'[t].attempts + Cardinality(Uncounted(t)') <= RunsSeen(t)'
  BY DEF RunsCounted, RunsSeen
<1> DEFINE n == Cardinality(Uncounted(t))
           m == Cardinality(Uncounted(t)')
<1>1. tenants[t].attempts \in Int /\ tenants'[t].attempts \in Int
  BY <1>0 DEF ProvTypeOK, TenantRow
<1>2. /\ n \in Nat /\ IsFiniteSet(Uncounted(t))
      /\ \A w \in Workers : Cardinality(Uncounted(t) \cup {w}) <= n + 1
  BY UncountedFinite
<1>3. m \in Nat /\ IsFiniteSet(Uncounted(t)')
  <2>1. Uncounted(t)' \subseteq Workers
    BY DEF Uncounted
  <2> QED BY <2>1, ProvisioningAssumption, FS_Subset, FS_CardinalityType
<1>4. tenants[t].attempts + n <= RunsSeen(t)
  BY <1>0 DEF RunsCounted, RunsSeen
<1>5. /\ RunsSeen(t) \in Int /\ RunsSeen(t)' \in Int
      /\ (\E w \in Workers : TakeJob(w, t)) => RunsSeen(t)' = RunsSeen(t) + 1
      /\ (\A w \in Workers : Return(w) => Subject(w) # t) => RunsSeen(t)' >= RunsSeen(t)
      /\ RunsSeen(t)' >= RunsSeen(t) - 1
  BY <1>0, QueueCounts
<1>6. (\A w \in Workers : RecordFailure(w) => Subject(w) # t) =>
         tenants'[t].attempts = tenants[t].attempts
  BY <1>0, CountsRise
<1>7. ASSUME NEW S \in SUBSET Uncounted(t) PROVE Cardinality(S) \in Nat /\ Cardinality(S) <= n
  BY <1>2, FS_Subset, FS_CardinalityType
<1>8. ASSUME NEW w \in Uncounted(t), \A v \in Workers : v # w => run'[v] = run[v],
             ~Running(w)' \/ StepOn(w)' = "throw"
      PROVE  m = n - 1
  <2>1. Uncounted(t)' = Uncounted(t) \ {w}
    BY <1>8 DEF Uncounted, Running, Subject, StepOn
  <2> QED BY <1>2, <2>1, FS_RemoveElement
<1>9. CASE \E w \in Workers : TakeJob(w, t)
  <2>1. PICK w \in Workers : TakeJob(w, t)
    BY <1>9
  <2>2. \A v \in Workers : v # w => run'[v] = run[v]
    BY <1>0, <2>1 DEF TakeJob, ProvTypeOK
  <2>3. Uncounted(t)' \subseteq Uncounted(t) \cup {w}
    BY <2>2 DEF Uncounted, Running, Subject, StepOn
  <2>4. m <= Cardinality(Uncounted(t) \cup {w})
    <3>1. IsFiniteSet(Uncounted(t) \cup {w})
      BY <1>2, FS_AddElement
    <3> QED BY <2>3, <3>1, FS_Subset
  <2>5. Cardinality(Uncounted(t) \cup {w}) \in Nat
    BY <1>2, FS_AddElement, FS_CardinalityType
  <2>6. \A v \in Workers : ~RecordFailure(v)
    BY <1>0, <2>1 DEF TakeJob, RecordFailure, StepOn, ProvTypeOK, AtRest
  <2>7. tenants'[t].attempts = tenants[t].attempts
    BY <1>6, <2>6
  <2>8. RunsSeen(t)' = RunsSeen(t) + 1
    BY <1>5, <2>1
  <2>9. m <= n + 1
    BY <1>2, <1>3, <2>4, <2>5
  <2> QED BY <1>1, <1>2, <1>3, <1>4, <1>5, <2>7, <2>8, <2>9
<1>10. ASSUME NEW w \in Workers, RecordFailure(w), Subject(w) = t
       PROVE  tenants'[t].attempts + m <= RunsSeen(t)'
  <2>1. /\ Running(w) /\ job' = job /\ StepOn(w) = "record"
        /\ \A v \in Workers : v # w => run'[v] = run[v]
    BY <1>0, <1>10, GoingOn DEF GoesOn, RecordFailure
  <2>2. StepOn(w)' = "throw"
    BY <1>0, <1>10, <2>1, GotoLeaves DEF RecordFailure, Failing
  <2>3. m = n - 1
    BY <1>8, <1>10, <2>1, <2>2 DEF Uncounted
  <2>4. tenants'[t].attempts = tenants[t].attempts + 1
    BY <1>0, <1>10 DEF RecordFailure, ProvTypeOK, TenantRow
  <2>5. RunsSeen(t)' = RunsSeen(t)
    BY <2>1 DEF RunsSeen
  <2> QED BY <1>1, <1>2, <1>4, <1>5, <2>3, <2>4, <2>5
<1>11. ASSUME NEW w \in Workers, Return(w), Subject(w) = t
       PROVE  tenants'[t].attempts + m <= RunsSeen(t)'
  <2>1. Running(w) /\ StepOn(w) = "return" /\ tenants' = tenants
    BY <1>0, <1>11, RunningShape DEF Return
  <2>2. ~Running(w)' /\ \A v \in Workers : v # w => run'[v] = run[v]
    BY <1>0, <1>11, EndsAtRest
  <2>3. m = n - 1
    BY <1>8, <1>11, <2>1, <2>2 DEF Uncounted
  <2> QED BY <1>1, <1>2, <1>4, <1>5, <2>1, <2>3
<1>12. CASE /\ \A w \in Workers : ~TakeJob(w, t)
            /\ \A w \in Workers : RecordFailure(w) \/ Return(w) => Subject(w) # t
  <2>1. Uncounted(t)' \subseteq Uncounted(t)
    <3>1. Uncounted(t)' \subseteq Workers
      BY DEF Uncounted
    <3> QED BY <1>0, <1>12, <3>1, UncountedRuns
  <2>2. m <= n
    BY <1>7, <2>1
  <2> QED BY <1>1, <1>2, <1>3, <1>4, <1>5, <1>6, <1>12, <2>2
<1> QED BY <1>9, <1>10, <1>11, <1>12

\* All parts together.
LEMMA ProvInvKept ==
    ASSUME ProvInv, ProvNext
    PROVE  ProvInv'
BY TypingKept, OneRunKept, AttemptsKept, OwnersKept, PartsKept, RunOpensKept, CompletedJobKept,
   RunsCountedKept DEF ProvInv

\* Where nothing happens to the rows, what is known of them stays.
LEMMA NothingProvisioned ==
    ASSUME ProvInv, UNCHANGED pvars
    PROVE  ProvInv'
BY DEF ProvInv, ProvTypeOK, OneRunHolds, AttemptLeft, JobHasOwner, PartsBuilt, RunOpens, RunsCounted,
       CompletedJobOpensTenant, Uncounted, Running, StepOn, Subject, Holds, Over, pvars

\* The jobs no worker has taken yet.
QueuedOnly == [state: {"none", "waiting"}, made: {0}, stalls: {0}, lapsed: {FALSE}]

\* Nothing is built, counted or worked on at first.
LEMMA UnbuiltStart ==
    ASSUME Unbuilt,
           job \in [Tenants -> QueuedOnly],
           tenants \in [Tenants -> TenantRow], users \in [Emails -> UserRow],
           \A t \in Tenants : tenants[t].status # "completed" /\ tenants[t].attempts = 0,
           JobHasOwner
    PROVE  ProvInv
<1>1. ProvTypeOK
  <2>1. QueuedOnly \subseteq JobRow
    <3>1. 0 \in 0..MaxAttempts /\ 0 \in 0..MaxStalls
      BY ProvisioningAssumption
    <3> QED BY Zenon, <3>1 DEF QueuedOnly, JobRow
  <2> QED BY <2>1, ProvisioningAssumption DEF Unbuilt, ProvTypeOK, JobRow, UserRow, Announced, Everything
<1>2. \A w \in Workers : ~Running(w)
  BY DEF Unbuilt, Running
<1>3. \A t \in Tenants : job[t].state \in {"none", "waiting"} /\ job[t].made = 0 /\ job[t].stalls = 0
  BY DEF QueuedOnly
<1>4. AttemptLeft /\ CompletedJobOpensTenant
  BY <1>3, ProvisioningAssumption DEF AttemptLeft, CompletedJobOpensTenant
<1>5. PartsBuilt
  BY <1>2 DEF PartsBuilt, Unbuilt
<1>6. \A t \in Tenants : Cardinality(Uncounted(t)) = 0
  BY <1>2, FS_EmptySet DEF Uncounted
<1>7. RunsCounted
  BY <1>3, <1>6 DEF RunsCounted
<1> QED BY <1>1, <1>2, <1>4, <1>5, <1>7 DEF ProvInv, OneRunHolds, RunOpens

\* The tenants that wait for their jobs are registered with an address each.
LEMMA ProvStarts == ProvStart => ProvInv
<1> SUFFICES ASSUME NEW a \in Addresses, Registered(a), Unbuilt PROVE ProvInv
  BY DEF ProvStart
<1>1. \A t \in Tenants : a[t] \in Emails /\ users[a[t]].tenant = t
  <2> SUFFICES ASSUME NEW t \in Tenants PROVE a[t] \in Emails /\ users[a[t]].tenant = t
    OBVIOUS
  <2>1. a[t] \in Emails /\ \A u \in Tenants : a[u] = a[t] => u = t
    BY DEF Addresses
  <2>2. (CHOOSE u \in Tenants : a[u] = a[t]) = t
    BY <2>1
  <2> QED BY <2>1, <2>2 DEF Registered
<1>2. \A t \in Tenants : tenants[t] = [status |-> "pending", active |-> FALSE, attempts |-> 0,
                                       slug |-> "none", email |-> a[t]]
  BY DEF Registered
<1>3. tenants \in [Tenants -> TenantRow]
  BY <1>1 DEF Registered, TenantRow
<1>4. users \in [Emails -> UserRow]
  <2>1. \A e \in Emails : (\E t \in Tenants : a[t] = e) => (CHOOSE t \in Tenants : a[t] = e) \in Tenants
    OBVIOUS
  <2> QED BY <2>1 DEF Registered, UserRow, NoUser
<1>5. job \in [Tenants -> QueuedOnly]
  BY DEF Registered, NoJob, QueuedOnly
<1>6. JobHasOwner
  <2> SUFFICES ASSUME NEW t \in Tenants
               PROVE  /\ tenants[t].status # "absent" /\ tenants[t].email \in Emails
                      /\ users[tenants[t].email].tenant = t
    BY DEF JobHasOwner
  <2>1. tenants[t] = [status |-> "pending", active |-> FALSE, attempts |-> 0,
                      slug |-> "none", email |-> a[t]]
    BY <1>2
  <2>2. tenants[t].status = "pending" /\ tenants[t].email = a[t]
    BY <2>1
  <2> QED BY <1>1, <2>2
<1>7. \A t \in Tenants : tenants[t].status # "completed" /\ tenants[t].attempts = 0
  <2> SUFFICES ASSUME NEW t \in Tenants PROVE tenants[t].status # "completed" /\ tenants[t].attempts = 0
    OBVIOUS
  <2>1. tenants[t] = [status |-> "pending", active |-> FALSE, attempts |-> 0,
                      slug |-> "none", email |-> a[t]]
    BY <1>2
  <2> QED BY <2>1
<1> QED BY <1>3, <1>4, <1>5, <1>6, <1>7, UnbuiltStart

\* Everything ProvInv says holds throughout.
LEMMA ProvInvariant == ProvSpec => []ProvInv
<1>1. ProvInv /\ [ProvNext]_pvars => ProvInv'
  BY ProvInvKept, NothingProvisioned
<1> QED BY <1>1, ProvStarts, PTL DEF ProvSpec

\* The row of a tenant and what a client is told of it: either says completed for a whole
\* database only (process 96-268, getProvisioningStatus).
LEMMA BuiltIfCompleted == ProvInv => CompletedIsBuilt
BY DEF ProvInv, PartsBuilt, CompletedIsBuilt, Reported

\* However often workers die and attempts fail, and whatever each attempt finds, a tenant
\* marked or reported completed has its whole database.
THEOREM CompletedTenantsAreBuilt == ProvSpec => []CompletedIsBuilt
BY ProvInvariant, BuiltIfCompleted, PTL

\* A job that completed has opened the administrator's account, and no repeated or late run of it
\* closes it again; it has marked the tenant row completed, which only a run that went on without
\* the lock of the job may mark otherwise.
THEOREM CompletedJobsOpenTenants == ProvSpec => []CompletedJobOpensTenant
<1>1. ProvInv => CompletedJobOpensTenant
  BY DEF ProvInv
<1> QED BY <1>1, ProvInvariant, PTL

\* The failures counted in the tenant row are never more than the runs of its job, also when
\* several of them, all but one without its lock, go on at a time.
THEOREM FailuresAreRuns == ProvSpec => []AttemptsAreRuns
<1>1. ProvInv => AttemptsAreRuns
  <2> SUFFICES ASSUME ProvInv, NEW t \in Tenants
               PROVE  tenants[t].attempts <= RunsSeen(t)
    BY DEF AttemptsAreRuns, RunsSeen
  <2>1. tenants[t].attempts \in Int /\ RunsSeen(t) \in Int
    BY ProvisioningAssumption DEF ProvInv, ProvTypeOK, TenantRow, RunsSeen
  <2>2. tenants[t].attempts + Cardinality(Uncounted(t)) <= RunsSeen(t)
    BY DEF ProvInv, RunsCounted, RunsSeen
  <2> QED BY <2>1, <2>2, UncountedFinite
<1> QED BY <1>1, ProvInvariant, PTL

-----------------------------------------------------------------------------
(* Signing up *)

SignupRow == [pc: SignupSteps, kind: Kinds \cup {"none"},
              slug: Slugs \cup {"none"}, email: Emails \cup {"none"}]

\* A registration that has inserted its tenant row finds it as it wrote it, and its user too;
\* a job is queued by the last step of one only.
RegistrationsHold ==
    /\ signup \in [Tenants -> SignupRow]
    /\ \A t \in Tenants :
          /\ signup[t].pc \in {"email", "slug", "tenant", "user", "hold", "queue"} => Email(t) \in Emails
          /\ signup[t].pc \in {"user", "hold", "queue"} =>
                tenants[t].status # "absent" /\ tenants[t].email = Email(t)
          /\ signup[t].pc \in {"hold", "queue"} => users[Email(t)].tenant = t
          /\ job[t].state # "none" => signup[t].pc = "done"

\* A user row is the work of a registration that has a tenant row; nobody without a tenant
\* may log in.
UsersAreRegistered ==
    \A e \in Emails :
        /\ users[e].tenant # "none" =>
              /\ Email(users[e].tenant) = e
              /\ signup[users[e].tenant].pc \in {"hold", "queue", "done", "dropped"}
              /\ tenants[users[e].tenant].status # "absent"
        /\ users[e].active => users[e].tenant # "none"

SignupInv == ProvInv /\ RegistrationsHold /\ UsersAreRegistered /\ ActiveUserHasHome

\* The row of a tenant that has no job may be written as long as it does not say completed.
LEMMA RowReplaced ==
    ASSUME ProvInv, NEW t \in Tenants, job[t].state = "none", NEW row \in TenantRow,
           row.status # "completed", row.attempts = 0,
           tenants' = [tenants EXCEPT ![t] = row],
           UNCHANGED <<users, job, run, db, progress, timers, crashes>>
    PROVE  ProvInv'
<1>1. tenants'[t] = row /\ \A u \in Tenants : u # t => tenants'[u] = tenants[u]
  BY DEF ProvInv, ProvTypeOK
<1>2. ProvTypeOK'
  BY DEF ProvInv, ProvTypeOK
<1>3. \A w \in Workers : Running(w) => Subject(w) \in Tenants /\ Subject(w) # t
  BY RunningShape DEF ProvInv, OneRunHolds
<1>4. OneRunHolds' /\ AttemptLeft'
  BY DEF ProvInv, OneRunHolds, AttemptLeft, Running, Subject, Holds, Over
<1>5. JobHasOwner' /\ CompletedJobOpensTenant'
  BY <1>1 DEF ProvInv, JobHasOwner, CompletedJobOpensTenant
<1>6. PartsBuilt'
  BY <1>1 DEF ProvInv, PartsBuilt, Running, Subject, StepOn
<1>7. RunOpens'
  BY <1>1, <1>3 DEF ProvInv, RunOpens, Running, Subject, StepOn
<1>8. RunsCounted'
  <2>1. \A u \in Tenants : Uncounted(u)' = Uncounted(u)
    BY DEF Uncounted, Running, Subject, StepOn
  <2>2. Cardinality(Uncounted(t)) = 0
    BY <1>3, FS_EmptySet DEF Uncounted
  <2>3. job[t].made \in Nat /\ job[t].stalls \in Nat
    BY ProvisioningAssumption DEF ProvInv, ProvTypeOK
  <2> QED BY <1>1, <2>1, <2>2, <2>3 DEF ProvInv, RunsCounted
<1> QED BY <1>2, <1>4, <1>5, <1>6, <1>7, <1>8 DEF ProvInv

\* So may the row of a user no job is for.
LEMMA UserReplaced ==
    ASSUME ProvInv, NEW e \in Emails, NEW u \in UserRow, users' = [users EXCEPT ![e] = u],
           \A t \in Tenants : job[t].state # "none" => tenants[t].email # e,
           UNCHANGED <<tenants, job, run, db, progress, timers, crashes>>
    PROVE  ProvInv'
<1>1. \A d \in Emails : d # e => users'[d] = users[d]
  BY DEF ProvInv, ProvTypeOK
<1>2. ProvTypeOK'
  BY DEF ProvInv, ProvTypeOK, UserRow
<1>3. \A t \in Tenants : job[t].state # "none" => tenants[t].email \in Emails /\ tenants[t].email # e
  BY DEF ProvInv, JobHasOwner
<1>4. JobHasOwner' /\ CompletedJobOpensTenant'
  BY <1>1, <1>3 DEF ProvInv, JobHasOwner, CompletedJobOpensTenant
<1>5. RunOpens'
  <2>1. \A w \in Workers : Running(w) => Subject(w) \in Tenants /\ job[Subject(w)].state # "none"
    BY RunningShape DEF ProvInv, OneRunHolds
  <2> QED BY <1>1, <1>3, <2>1 DEF ProvInv, RunOpens, Running, Subject, StepOn
<1>6. OneRunHolds' /\ AttemptLeft' /\ PartsBuilt' /\ RunsCounted'
  BY DEF ProvInv, OneRunHolds, AttemptLeft, PartsBuilt, RunsCounted, Uncounted, Running,
         Subject, StepOn, Holds, Over
<1> QED BY <1>2, <1>4, <1>5, <1>6 DEF ProvInv

\* A step of a registration or of createTenant leaves every job in good order.
LEMMA SignupKeepsProv ==
    ASSUME SignupInv, NEW t \in Tenants, SignupStep(t)
    PROVE  ProvInv'
<1>0. ProvInv /\ ProvTypeOK /\ RegistrationsHold /\ UsersAreRegistered
  BY DEF SignupInv, ProvInv
<1>1. ASSUME CreateTenantRow(t) \/ InsertActiveTenant(t) PROVE ProvInv'
  <2>1. job[t].state = "none"
    BY <1>0, <1>1 DEF CreateTenantRow, InsertActiveTenant, Step, RegistrationsHold
  <2>2. PICK b \in BOOLEAN : InsertTenant(t, b)
    BY <1>1 DEF CreateTenantRow, InsertActiveTenant
  <2> DEFINE row == [status |-> "pending", active |-> b, attempts |-> 0,
                     slug |-> Slug(t), email |-> Email(t)]
  <2>3. row \in TenantRow
    BY <1>0 DEF TenantRow, RegistrationsHold, SignupRow, Slug, Email
  <2> QED BY <1>0, <2>1, <2>2, <2>3, RowReplaced DEF InsertTenant
<1>2. ASSUME Undo(t) PROVE ProvInv'
  <2>1. job[t].state = "none"
    BY <1>0, <1>2 DEF Undo, Step, RegistrationsHold
  <2>2. NoTenant \in TenantRow /\ NoTenant.status # "completed" /\ NoTenant.attempts = 0
    BY DEF NoTenant, TenantRow
  <2> QED BY <1>0, <1>2, <2>1, <2>2, RowReplaced DEF Undo
<1>3. ASSUME CreateUser(t) PROVE ProvInv'
  <2>1. Email(t) \in Emails /\ users[Email(t)].tenant = "none"
    BY <1>0, <1>3 DEF CreateUser, Step, RegistrationsHold
  <2>2. \A u \in Tenants : job[u].state # "none" => tenants[u].email # Email(t)
    BY <1>0, <2>1, ProvisioningAssumption DEF ProvInv, JobHasOwner
  <2>3. [tenant |-> t, active |-> TRUE] \in UserRow
    BY DEF UserRow
  <2> QED BY <1>0, <1>3, <2>1, <2>2, <2>3, UserReplaced DEF CreateUser
<1>4. ASSUME HoldUser(t) PROVE ProvInv'
  <2>1. Email(t) \in Emails /\ users[Email(t)].tenant = t /\ job[t].state = "none"
    BY <1>0, <1>4 DEF HoldUser, Step, RegistrationsHold
  <2>2. \A u \in Tenants : job[u].state # "none" => tenants[u].email # Email(t)
    BY <1>0, <2>1 DEF ProvInv, JobHasOwner
  <2>3. Held(users[Email(t)]) \in UserRow
    <3>1. users[Email(t)] \in UserRow
      BY <1>0, <2>1 DEF ProvTypeOK, UserRow
    <3> QED BY <3>1, UserChanges
  <2>4. users' = [users EXCEPT ![Email(t)] = Held(users[Email(t)])]
    BY <1>4 DEF HoldUser
  <2> QED BY <1>0, <1>4, <2>1, <2>2, <2>3, <2>4, UserReplaced DEF HoldUser
<1>5. ASSUME QueueJob(t) PROVE ProvInv'
  <2>1. /\ job[t].state = "none" /\ tenants[t].status # "absent"
        /\ tenants[t].email \in Emails /\ users[tenants[t].email].tenant = t
    BY <1>0, <1>5 DEF QueueJob, Step, RegistrationsHold
  <2>2. /\ job'[t] = [job[t] EXCEPT !.state = "waiting"]
        /\ \A u \in Tenants : u # t => job'[u] = job[u]
        /\ UNCHANGED <<tenants, users, run, db, progress, timers, crashes>>
    BY <1>0, <1>5 DEF QueueJob, ProvTypeOK
  <2>3. ProvTypeOK'
    BY <1>0, <1>5 DEF QueueJob, ProvTypeOK
  <2>4. \A w \in Workers : Running(w) => Subject(w) \in Tenants /\ Subject(w) # t
    BY <1>0, <2>1, RunningShape DEF ProvInv, OneRunHolds
  <2>5. OneRunHolds' /\ RunOpens'
    BY <1>0, <2>2, <2>4 DEF ProvInv, OneRunHolds, RunOpens, Running, Subject, StepOn, Holds
  <2>6. job'[t].state = "waiting" /\ job'[t].made = job[t].made /\ job'[t].stalls = job[t].stalls
    <3>1. job[t] \in JobRow
      BY <1>0 DEF ProvTypeOK, JobRow
    <3> QED BY <2>2, <3>1 DEF JobRow
  <2>7. AttemptLeft' /\ JobHasOwner'
    BY <1>0, <2>1, <2>2, <2>6 DEF ProvInv, AttemptLeft, JobHasOwner, Over
  <2>9. CompletedJobOpensTenant'
    BY <1>0, <2>2, <2>6 DEF ProvInv, CompletedJobOpensTenant
  <2>10. PartsBuilt'
    BY <1>0, <2>2 DEF ProvInv, PartsBuilt, Running, Subject, StepOn
  <2>8. RunsCounted'
    <3>1. \A u \in Tenants : Uncounted(u)' = Uncounted(u)
      BY <2>2 DEF Uncounted, Running, Subject, StepOn
    <3> QED BY <1>0, <2>1, <2>2, <2>6, <3>1 DEF ProvInv, RunsCounted
  <2> QED BY <2>3, <2>5, <2>7, <2>8, <2>9, <2>10 DEF ProvInv
<1>6. ASSUME NEW part \in {"database", "schema"}, NEW from, NEW to, BuildNow(t, part, from, to)
      PROVE  ProvInv'
  <2>1. /\ \A u \in Tenants : db[u] \subseteq db'[u] /\ db'[u] \subseteq Everything
        /\ UNCHANGED <<tenants, users, job, run, progress, timers, crashes>>
    BY <1>0, <1>6 DEF BuildNow, ProvTypeOK, Everything
  <2>2. ProvTypeOK'
    <3>1. part \in Everything
      BY DEF Everything
    <3>2. db' \in [Tenants -> SUBSET Everything]
      BY <1>0, <1>6, <3>1 DEF BuildNow, ProvTypeOK
    <3> QED BY <1>0, <2>1, <3>2 DEF ProvTypeOK
  <2>3. PartsBuilt'
    <3>1. \A w \in Workers : Running(w) => Subject(w) \in Tenants
      BY <1>0, RunningShape
    <3>2. \A w \in Workers : Running(w)' => BuiltBefore(StepOn(w))' \subseteq db'[Subject(w)']
      BY <1>0, <2>1, <3>1 DEF ProvInv, PartsBuilt, Running, Subject, StepOn, BuiltBefore
    <3>3. \A u \in Tenants : "completed" \in {tenants[u].status, progress[u]} => db'[u] = Everything
      BY <1>0, <2>1 DEF ProvInv, PartsBuilt
    <3> QED BY <2>1, <3>2, <3>3 DEF PartsBuilt
  <2>4. /\ OneRunHolds' /\ AttemptLeft' /\ JobHasOwner' /\ RunOpens' /\ CompletedJobOpensTenant'
        /\ RunsCounted'
    BY <1>0, <2>1 DEF ProvInv, OneRunHolds, AttemptLeft, JobHasOwner, RunOpens, RunsCounted,
         CompletedJobOpensTenant, Uncounted, Running, Subject, StepOn, Holds, Over
  <2> QED BY <2>2, <2>3, <2>4 DEF ProvInv
<1>7. ASSUME UNCHANGED pvars PROVE ProvInv'
  BY <1>0, <1>7, NothingProvisioned
<1> QED BY <1>1, <1>2, <1>3, <1>4, <1>5, <1>6, <1>7
        DEF SignupStep, Register, CreateTenant, Arrive, CheckEmail, CheckSlug, LookForSlug, Close,
            BuildFails, Drop

\* A step of one request leaves the rows of other requests, the jobs but its own, and the
\* owner of a user row; the one user row it may write is that of its own address.
LEMMA SignupFrame ==
    ASSUME SignupInv, NEW t \in Tenants, SignupStep(t)
    PROVE  /\ \A u \in Tenants : u # t => /\ signup'[u] = signup[u] /\ tenants'[u] = tenants[u]
                                          /\ job'[u] = job[u]
           /\ \A u \in Tenants : db[u] \subseteq db'[u]
           /\ \A e \in Emails : users[e].tenant # "none" => users'[e].tenant = users[e].tenant
           /\ \A e \in Emails : users'[e] # users[e] =>
                 e = Email(t) /\ users'[e].tenant = t /\ signup[t].pc \in {"user", "hold"}
<1>0. ProvTypeOK /\ RegistrationsHold
  BY DEF SignupInv, ProvInv
<1>1. \A u \in Tenants : u # t => /\ signup'[u] = signup[u] /\ tenants'[u] = tenants[u] /\ job'[u] = job[u]
  BY <1>0 DEF RegistrationsHold, ProvTypeOK, SignupStep, Register, CreateTenant, Arrive, CheckEmail,
         CheckSlug, CreateTenantRow, InsertTenant, CreateUser, HoldUser, QueueJob, LookForSlug,
         InsertActiveTenant, BuildNow, Close, BuildFails, Undo, Drop, Step, pvars
<1>2. \A u \in Tenants : db[u] \subseteq db'[u]
  BY <1>0 DEF ProvTypeOK, SignupStep, Register, CreateTenant, Arrive, CheckEmail, CheckSlug,
         CreateTenantRow, InsertTenant, CreateUser, HoldUser, QueueJob, LookForSlug,
         InsertActiveTenant, BuildNow, Close, BuildFails, Undo, Drop, Step, pvars
<1>3. ASSUME CreateUser(t)
      PROVE  \A e \in Emails :
                /\ users[e].tenant # "none" => users'[e].tenant = users[e].tenant
                /\ users'[e] # users[e] => e = Email(t) /\ users'[e].tenant = t /\ signup[t].pc = "user"
  BY <1>0, <1>3 DEF CreateUser, Step, ProvTypeOK
<1>4. ASSUME HoldUser(t)
      PROVE  \A e \in Emails :
                /\ users[e].tenant # "none" => users'[e].tenant = users[e].tenant
                /\ users'[e] # users[e] => e = Email(t) /\ users'[e].tenant = t /\ signup[t].pc = "hold"
  <2>1. Email(t) \in Emails /\ users[Email(t)].tenant = t /\ signup[t].pc = "hold"
    BY <1>0, <1>4 DEF HoldUser, Step, RegistrationsHold
  <2>2. users[Email(t)] \in UserRow
    BY <1>0, <2>1 DEF ProvTypeOK, UserRow
  <2>3. Held(users[Email(t)]).tenant = t
    BY <2>1, <2>2 DEF UserRow, Held
  <2> QED BY <1>0, <1>4, <2>1, <2>3 DEF HoldUser, ProvTypeOK
<1>5. ASSUME ~CreateUser(t), ~HoldUser(t) PROVE users' = users
  BY <1>5 DEF SignupStep, Register, CreateTenant, Arrive, CheckEmail,
         CheckSlug, CreateTenantRow, InsertTenant, QueueJob, LookForSlug,
         InsertActiveTenant, BuildNow, Close, BuildFails, Undo, Drop, pvars
<1> QED BY <1>1, <1>2, <1>3, <1>4, <1>5

\* A step of a request leaves its address.
LEMMA StepLeaves ==
    ASSUME RegistrationsHold, NEW t \in Tenants, NEW from, NEW to, Step(t, from, to)
    PROVE  signup[t].pc = from /\ signup'[t].pc = to /\ Email(t)' = Email(t)
<1>1. signup[t] \in SignupRow
  BY DEF RegistrationsHold
<1>2. signup'[t] = [signup[t] EXCEPT !.pc = to]
  BY DEF RegistrationsHold, Step
<1> QED BY <1>1, <1>2 DEF Step, SignupRow, Email

\* A tenant row, once inserted, only a createTenant that fails takes away again; what a
\* registration has come to does not go back.
LEMMA SignupKeepsRegistrations ==
    ASSUME SignupInv, NEW t \in Tenants, SignupStep(t)
    PROVE  RegistrationsHold'
<1>0. ProvInv /\ ProvTypeOK /\ RegistrationsHold /\ UsersAreRegistered
  BY DEF SignupInv, ProvInv
<1>1. signup' \in [Tenants -> SignupRow]
  <2>1. ASSUME NEW s \in Slugs, NEW e \in Emails \cup {"none"}, NEW kind \in Kinds, NEW pc \in SignupSteps,
               Arrive(t, kind, s, e, pc)
        PROVE  signup' \in [Tenants -> SignupRow]
    <3>1. [pc |-> pc, kind |-> kind, slug |-> s, email |-> e] \in SignupRow
      BY DEF SignupRow
    <3> QED BY <1>0, <2>1, <3>1 DEF Arrive, RegistrationsHold
  <2>2. ASSUME NEW pc \in SignupSteps, signup' = [signup EXCEPT ![t].pc = pc]
        PROVE  signup' \in [Tenants -> SignupRow]
    <3>1. signup[t] \in SignupRow
      BY <1>0 DEF RegistrationsHold
    <3>2. [signup[t] EXCEPT !.pc = pc] \in SignupRow
      BY <3>1 DEF SignupRow
    <3> QED BY <1>0, <2>2, <3>2 DEF RegistrationsHold
  <2>3. "create" \in SignupSteps /\ {"new", "email", "slug", "tenant", "user", "hold", "queue",
                "look", "insert", "create", "migrate", "close", "undo", "done", "dropped"} = SignupSteps
    BY DEF SignupSteps
  <2>4. ASSUME NEW s \in Slugs, NEW e \in Emails, Register(t, s, e) PROVE signup' \in [Tenants -> SignupRow]
    BY <2>1, <2>3, <2>4 DEF Register, Arrive
  <2>5. ASSUME NEW s \in Slugs, CreateTenant(t, s) PROVE signup' \in [Tenants -> SignupRow]
    BY <2>1, <2>3, <2>5 DEF CreateTenant, Arrive
  <2> QED BY <2>2, <2>3, <2>4, <2>5
          DEF SignupStep, CheckEmail, CheckSlug, CreateTenantRow, CreateUser, HoldUser, QueueJob,
              LookForSlug, InsertActiveTenant, BuildNow, Close, BuildFails, Undo, Drop, Step, AfterTenant
<1>2. ASSUME NEW u \in Tenants, u # t
      PROVE  /\ signup'[u].pc \in {"email", "slug", "tenant", "user", "hold", "queue"} => Email(u)' \in Emails
             /\ signup'[u].pc \in {"user", "hold", "queue"} =>
                   tenants'[u].status # "absent" /\ tenants'[u].email = Email(u)'
             /\ signup'[u].pc \in {"hold", "queue"} => users'[Email(u)'].tenant = u
             /\ job'[u].state # "none" => signup'[u].pc = "done"
  BY <1>0, <1>2, SignupFrame, ProvisioningAssumption DEF RegistrationsHold, Email
<1> DEFINE Own == /\ signup'[t].pc \in {"email", "slug", "tenant", "user", "hold", "queue"} => Email(t)' \in Emails
                  /\ signup'[t].pc \in {"user", "hold", "queue"} =>
                        tenants'[t].status # "absent" /\ tenants'[t].email = Email(t)'
                  /\ signup'[t].pc \in {"hold", "queue"} => users'[Email(t)'].tenant = t
                  /\ job'[t].state # "none" => signup'[t].pc = "done"
<1>4. ASSUME NEW s \in Slugs, NEW e \in Emails, Register(t, s, e) PROVE Own
  BY <1>0, <1>4 DEF Register, Arrive, RegistrationsHold, Email, pvars
<1>5. ASSUME NEW s \in Slugs, CreateTenant(t, s) PROVE Own
  BY <1>0, <1>5 DEF CreateTenant, Arrive, RegistrationsHold, Email, pvars
<1>6. ASSUME CheckEmail(t) \/ CheckSlug(t) PROVE Own
  BY <1>0, StepLeaves, <1>6 DEF CheckEmail, CheckSlug, RegistrationsHold, pvars
<1>7. ASSUME CreateTenantRow(t) PROVE Own
  <2>1. /\ signup[t].pc = "tenant" /\ signup'[t].pc = "user" /\ Email(t)' = Email(t)
        /\ InsertTenant(t, FALSE)
    BY <1>0, StepLeaves, <1>7 DEF CreateTenantRow, AfterTenant
  <2> QED BY <1>0, <2>1 DEF InsertTenant, RegistrationsHold, ProvTypeOK
<1>8. ASSUME CreateUser(t) PROVE Own
  <2>1. signup[t].pc = "user" /\ signup'[t].pc = "hold" /\ Email(t)' = Email(t)
    BY <1>0, StepLeaves, <1>8 DEF CreateUser
  <2> QED BY <1>0, <1>8, <2>1 DEF CreateUser, RegistrationsHold, ProvTypeOK
<1>9. ASSUME HoldUser(t) PROVE Own
  <2>1. signup[t].pc = "hold" /\ signup'[t].pc = "queue" /\ Email(t)' = Email(t)
    BY <1>0, StepLeaves, <1>9 DEF HoldUser
  <2>2. users'[Email(t)].tenant = t
    BY <1>0, <2>1, SignupFrame, ProvisioningAssumption DEF RegistrationsHold
  <2> QED BY <1>0, <1>9, <2>1, <2>2 DEF HoldUser, RegistrationsHold
<1>10. ASSUME QueueJob(t) PROVE Own
  BY <1>0, StepLeaves, <1>10 DEF QueueJob
<1>11. ASSUME \/ LookForSlug(t) \/ InsertActiveTenant(t) \/ BuildNow(t, "database", "create", "migrate")
              \/ BuildNow(t, "schema", "migrate", "close") \/ Close(t) \/ Undo(t)
       PROVE Own
  BY <1>0, StepLeaves, <1>11 DEF LookForSlug, InsertActiveTenant, InsertTenant, BuildNow, Close, Undo,
     RegistrationsHold, pvars
<1>12. ASSUME BuildFails(t) \/ Drop(t) PROVE Own
  <2>1. signup'[t].pc \in {"undo", "dropped"} /\ signup[t].pc # "done" /\ job' = job
    <3>1. signup[t] \in SignupRow
      BY <1>0 DEF RegistrationsHold
    <3> QED BY <1>0, <1>12, <3>1 DEF BuildFails, Drop, RegistrationsHold, pvars, SignupRow
  <2> QED BY <1>0, <2>1 DEF RegistrationsHold
<1>13. Own
  BY <1>4, <1>5, <1>6, <1>7, <1>8, <1>9, <1>10, <1>11, <1>12 DEF SignupStep
<1> QED BY <1>1, <1>2, <1>13 DEF RegistrationsHold

\* A user row has the address of its registration, and a tenant row to go with it.
LEMMA SignupKeepsUsers ==
    ASSUME SignupInv, NEW t \in Tenants, SignupStep(t)
    PROVE  UsersAreRegistered'
<1>0. ProvInv /\ ProvTypeOK /\ RegistrationsHold /\ UsersAreRegistered
  BY DEF SignupInv, ProvInv
<1>1. ASSUME signup[t].pc \in {"hold", "queue", "done", "dropped"}
      PROVE  /\ signup'[t].pc \in {"hold", "queue", "done", "dropped"}
             /\ Email(t)' = Email(t) /\ tenants'[t] = tenants[t]
  <2>1. HoldUser(t) \/ QueueJob(t) \/ Drop(t)
    BY <1>1 DEF SignupStep, Register, CreateTenant, Arrive, CheckEmail, CheckSlug, CreateTenantRow,
       CreateUser, LookForSlug, InsertActiveTenant, BuildNow, Close, BuildFails, Undo, Step
  <2>2. CASE HoldUser(t) \/ QueueJob(t)
    BY <1>0, <2>2, StepLeaves DEF HoldUser, QueueJob
  <2>3. CASE Drop(t)
    <3>1. signup[t] \in SignupRow
      BY <1>0 DEF RegistrationsHold
    <3> QED BY <1>0, <2>3, <3>1 DEF Drop, RegistrationsHold, SignupRow, Email, pvars
  <2> QED BY <2>1, <2>2, <2>3
<1>2. ASSUME NEW e \in Emails, users'[e].tenant # "none"
      PROVE  /\ signup'[users'[e].tenant].email = e
             /\ signup'[users'[e].tenant].pc \in {"hold", "queue", "done", "dropped"}
             /\ tenants'[users'[e].tenant].status # "absent"
  <2>1. CASE users'[e] = users[e]
    <3> DEFINE d == users[e].tenant
    <3>1. d \in Tenants /\ d = users'[e].tenant
      BY <1>0, <1>2, <2>1 DEF ProvTypeOK
    <3>2. /\ signup[d].email = e /\ signup[d].pc \in {"hold", "queue", "done", "dropped"}
          /\ tenants[d].status # "absent"
      BY <1>0, <3>1, ProvisioningAssumption DEF UsersAreRegistered, Email
    <3>3. CASE d = t
      BY <1>1, <3>1, <3>2, <3>3 DEF Email
    <3>4. CASE d # t
      BY <3>1, <3>2, <3>4, SignupFrame
    <3> QED BY <3>3, <3>4
  <2>2. CASE users'[e] # users[e]
    <3>1. e = Email(t) /\ users'[e].tenant = t
      BY <2>2, SignupFrame
    <3>2. CreateUser(t) \/ HoldUser(t)
      <4>1. users' # users
        BY <2>2
      <4> QED BY <4>1 DEF SignupStep, Register, CreateTenant, Arrive, CheckEmail,
           CheckSlug, CreateTenantRow, InsertTenant, QueueJob, LookForSlug,
           InsertActiveTenant, BuildNow, Close, BuildFails, Undo, Drop, pvars
    <3>3. signup[t].pc \in {"user", "hold"} /\ signup'[t].pc \in {"hold", "queue"}
          /\ Email(t)' = Email(t) /\ tenants' = tenants
      BY <1>0, <3>2, StepLeaves DEF CreateUser, HoldUser
    <3>4. signup'[t].email = e
      BY <3>1, <3>3 DEF Email
    <3>5. tenants[t].status # "absent"
      BY <1>0, <3>3 DEF RegistrationsHold
    <3> QED BY <3>1, <3>3, <3>4, <3>5
  <2> QED BY <2>1, <2>2
<1>3. ASSUME NEW e \in Emails, users'[e].active PROVE users'[e].tenant # "none"
  <2>1. CASE users'[e] = users[e]
    BY <1>0, <1>3, <2>1 DEF UsersAreRegistered
  <2>2. CASE users'[e] # users[e]
    BY <2>2, SignupFrame, ProvisioningAssumption
  <2> QED BY <2>1, <2>2
<1> QED BY <1>2, <1>3 DEF UsersAreRegistered, Email

\* An account is opened by the statement that creates it, which the next one holds back, or
\* when its tenant has its database.
LEMMA SignupKeepsHomes ==
    ASSUME SignupInv, NEW t \in Tenants, SignupStep(t)
    PROVE  ActiveUserHasHome'
<1>0. ProvTypeOK /\ RegistrationsHold /\ UsersAreRegistered /\ ActiveUserHasHome
  BY DEF SignupInv, ProvInv
<1>1. SUFFICES ASSUME NEW e \in Emails, users'[e].active
               PROVE  /\ tenants'[users'[e].tenant].status # "absent"
                      /\ \/ db'[users'[e].tenant] = Everything
                         \/ signup'[users'[e].tenant].pc \in {"hold", "dropped"}
  BY DEF ActiveUserHasHome
<1>2. tenants'[users'[e].tenant].status # "absent"
  BY <1>1, SignupKeepsUsers DEF UsersAreRegistered
<1> DEFINE d == users[e].tenant
<1>3. CASE users'[e] = users[e]
  <2>1. d \in Tenants /\ d = users'[e].tenant /\ signup[d].email = e
    BY <1>0, <1>1, <1>3, ProvisioningAssumption DEF ProvTypeOK, UsersAreRegistered, Email
  <2>2. db[d] = Everything \/ signup[d].pc \in {"hold", "dropped"}
    BY <1>0, <1>1, <1>3 DEF ActiveUserHasHome
  <2>3. db[d] = Everything => db'[d] = Everything
    <3>1. db[d] \subseteq db'[d]
      BY <2>1, SignupFrame
    <3>2. db'[d] \subseteq Everything
      BY <2>1, SignupKeepsProv DEF ProvInv, ProvTypeOK
    <3> QED BY <3>1, <3>2
  <2>4. CASE signup[d].pc \in {"hold", "dropped"} /\ d # t
    BY <1>2, <2>1, <2>4, SignupFrame
  <2>5. CASE signup[d].pc \in {"hold", "dropped"} /\ d = t
    <3>1. HoldUser(t) \/ Drop(t)
      BY <2>5 DEF SignupStep, Register, CreateTenant, Arrive, CheckEmail, CheckSlug, CreateTenantRow,
         CreateUser, LookForSlug, InsertActiveTenant, BuildNow, Close, BuildFails, Undo, Step, QueueJob
    <3>2. CASE HoldUser(t)
      <4>1. e = Email(t) /\ users[e] \in UserRow
        BY <1>0, <2>1, <2>5 DEF Email, ProvTypeOK, UserRow
      <4>2. users'[e] = Held(users[e])
        BY <1>0, <3>2, <4>1 DEF HoldUser, ProvTypeOK
      <4>3. ~users'[e].active
        BY <4>1, <4>2 DEF Held, UserRow
      <4> QED BY <1>1, <4>3
    <3>3. CASE Drop(t)
      <4>1. signup[t] \in SignupRow
        BY <1>0, <2>1, <2>5 DEF RegistrationsHold
      <4>2. signup'[t].pc = "dropped"
        BY <1>0, <3>3, <4>1 DEF Drop, RegistrationsHold, SignupRow
      <4> QED BY <1>2, <2>1, <2>5, <4>2
    <3> QED BY <3>1, <3>2, <3>3
  <2> QED BY <1>2, <2>1, <2>2, <2>3, <2>4, <2>5
<1>4. CASE users'[e] # users[e]
  <2>1. e = Email(t) /\ users'[e].tenant = t
    BY <1>4, SignupFrame
  <2>2. CreateUser(t) \/ HoldUser(t)
    <3>1. users' # users
      BY <1>4
    <3> QED BY <3>1 DEF SignupStep, Register, CreateTenant, Arrive, CheckEmail,
         CheckSlug, CreateTenantRow, InsertTenant, QueueJob, LookForSlug,
         InsertActiveTenant, BuildNow, Close, BuildFails, Undo, Drop, pvars
  <2>3. ~HoldUser(t)
    <3>1. SUFFICES ASSUME HoldUser(t) PROVE FALSE
      OBVIOUS
    <3>2. users[e] \in UserRow /\ users'[e] = Held(users[e])
      BY <1>0, <2>1, <3>1 DEF HoldUser, ProvTypeOK, UserRow
    <3> QED BY <1>1, <3>2 DEF Held, UserRow
  <2>4. signup'[t].pc = "hold"
    BY <1>0, <2>2, <2>3, StepLeaves DEF CreateUser
  <2> QED BY <1>2, <2>1, <2>4
<1> QED BY <1>2, <1>3, <1>4

\* The job and its queue, and the superadmin, leave what registrations wrote.
LEMMA ProvisioningKeepsSignups ==
    ASSUME SignupInv, ProvNext, UNCHANGED signup
    PROVE  RegistrationsHold' /\ UsersAreRegistered'
<1>0. ProvTypeOK /\ OneRunHolds /\ RegistrationsHold /\ UsersAreRegistered
  BY DEF SignupInv, ProvInv
<1>1. RegistrationsHold'
  BY <1>0, OwnersStay DEF RegistrationsHold, Email
<1>2. \A e \in Emails : users'[e].active => users[e].active \/ users[e].tenant # "none"
  <2>1. ASSUME NEW w \in Workers, Welcome(w)
        PROVE  \A e \in Emails : users'[e].active => users[e].active \/ users[e].tenant # "none"
    BY <1>0, <2>1 DEF Welcome, ProvTypeOK
  <2> QED BY <2>1 DEF ProvNext, Proceed, Serve, TakeJob, Mark, Announce, Build, Activate, Return, Fail,
          ReportFailure, RecordFailure, CatchFails, Throw, Retry, Crash, Stalled, ClearStatus, Expire, SetActive,
          Lapse, EndLate
<1>3. \A e \in Emails : users'[e].tenant # "none" => users'[e].tenant \in Tenants
  BY TypingKept DEF SignupInv, ProvTypeOK
<1>4. UsersAreRegistered'
  BY <1>0, <1>2, <1>3, OwnersStay DEF UsersAreRegistered, Email
<1> QED BY <1>1, <1>4

\* The account a run activates is that of its own tenant, whose database it has built.
LEMMA ProvisioningKeepsHomes ==
    ASSUME SignupInv, ProvNext, UNCHANGED signup
    PROVE  ActiveUserHasHome'
<1>0. ProvInv /\ ProvTypeOK /\ OneRunHolds /\ JobHasOwner /\ PartsBuilt /\ UsersAreRegistered /\ ActiveUserHasHome
  BY DEF SignupInv, ProvInv
<1>1. SUFFICES ASSUME NEW e \in Emails, users'[e].active
               PROVE  /\ tenants'[users'[e].tenant].status # "absent"
                      /\ \/ db'[users'[e].tenant] = Everything
                         \/ signup[users'[e].tenant].pc \in {"hold", "dropped"}
  BY DEF ActiveUserHasHome
<1>2. tenants'[users'[e].tenant].status # "absent"
  BY <1>1, ProvisioningKeepsSignups DEF UsersAreRegistered
<1>3. users'[e].tenant = users[e].tenant /\ users'[e].tenant \in Tenants
  BY <1>0, <1>1, OwnersStay, ProvisioningKeepsSignups, TypingKept DEF UsersAreRegistered, ProvTypeOK
<1> DEFINE d == users[e].tenant
<1>4. db[d] = Everything => db'[d] = Everything
  <2>1. db[d] \subseteq db'[d]
    BY <1>0, <1>3, DatabaseGrows
  <2>2. db'[d] \subseteq Everything
    BY <1>0, <1>3, TypingKept DEF ProvTypeOK
  <2> QED BY <2>1, <2>2
<1>5. CASE users[e].active
  BY <1>0, <1>2, <1>3, <1>4, <1>5 DEF ActiveUserHasHome
<1>6. CASE ~users[e].active
  <2>1. PICK w \in Workers : Welcome(w)
    <3>1. users' # users
      BY <1>1, <1>6
    <3> QED BY <3>1 DEF ProvNext, Proceed, Serve, TakeJob, Mark, Announce, Build, Activate, Return, Fail,
          ReportFailure, RecordFailure, CatchFails, Throw, Retry, Crash, Stalled, ClearStatus, Expire, SetActive,
          Lapse, EndLate
  <2>2. StepOn(w) = "welcome" /\ e = tenants[Subject(w)].email
    BY <1>0, <1>1, <1>6, <2>1 DEF Welcome, ProvTypeOK
  <2>3. Running(w) /\ Subject(w) \in Tenants
    BY <1>0, <2>2, RunningShape, AfterSteps
  <2>4. users[e].tenant = Subject(w)
    BY <1>0, <2>2, <2>3 DEF OneRunHolds, JobHasOwner
  <2>5. db[Subject(w)] = Everything
    <3>1. Everything \subseteq db[Subject(w)]
      BY <1>0, <2>2, <2>3, BuildOrder DEF PartsBuilt
    <3> QED BY <1>0, <2>3, <3>1 DEF ProvTypeOK
  <2> QED BY <1>2, <1>3, <1>4, <2>4, <2>5
<1> QED BY <1>5, <1>6

\* Before the first request there is no row, no job and no database.
LEMMA SignupStarts ==
    ASSUME SignupInit
    PROVE  SignupInv
<1>1. NoTenant \in TenantRow /\ NoTenant.status = "absent" /\ NoTenant.attempts = 0
  BY DEF NoTenant, TenantRow
<1>2. NoUser \in UserRow /\ NoUser.tenant = "none" /\ NoUser.active = FALSE
  BY DEF NoUser, UserRow
<1>3. NoJob \in QueuedOnly /\ NoJob.state = "none"
  BY DEF NoJob, QueuedOnly
<1>4. NotAsked \in SignupRow /\ NotAsked.pc = "new"
  BY DEF NotAsked, SignupRow, SignupSteps
<1>5. ProvInv
  <2>1. JobHasOwner
    BY <1>3 DEF SignupInit, JobHasOwner
  <2>2. \A t \in Tenants : tenants[t].status # "completed" /\ tenants[t].attempts = 0
    BY <1>1 DEF SignupInit
  <2>3. /\ job \in [Tenants -> QueuedOnly]
        /\ tenants \in [Tenants -> TenantRow] /\ users \in [Emails -> UserRow]
    BY <1>1, <1>2, <1>3 DEF SignupInit
  <2> QED BY <2>1, <2>2, <2>3, UnbuiltStart DEF SignupInit
<1>6. RegistrationsHold
  BY <1>3, <1>4 DEF SignupInit, RegistrationsHold
<1>7. UsersAreRegistered /\ ActiveUserHasHome
  BY <1>2 DEF SignupInit, UsersAreRegistered, ActiveUserHasHome
<1> QED BY <1>5, <1>6, <1>7 DEF SignupInv

\* However registrations, jobs and crashes interleave, the rows, the jobs and the accounts
\* fit together.
LEMMA SignupInvariant == SignupSpec => []SignupInv
<1>1. ASSUME SignupInv, [SignupNext]_svars PROVE SignupInv'
  <2>1. ASSUME NEW t \in Tenants, SignupStep(t) PROVE SignupInv'
    BY <1>1, <2>1, SignupKeepsProv, SignupKeepsRegistrations, SignupKeepsUsers, SignupKeepsHomes DEF SignupInv
  <2>2. ASSUME ProvNext, UNCHANGED signup PROVE SignupInv'
    <3>1. ProvInv'
      BY <1>1, <2>2, ProvInvKept DEF SignupInv
    <3> QED BY <1>1, <2>2, <3>1, ProvisioningKeepsSignups, ProvisioningKeepsHomes DEF SignupInv
  <2>3. ASSUME UNCHANGED svars PROVE SignupInv'
    <3>1. ProvInv'
      BY <1>1, <2>3, NothingProvisioned DEF SignupInv, svars, pvars
    <3> QED BY <1>1, <2>3, <3>1 DEF SignupInv, svars, RegistrationsHold, UsersAreRegistered,
               ActiveUserHasHome, Email
  <2> QED BY <1>1, <2>1, <2>2, <2>3 DEF SignupNext
<1> QED BY <1>1, SignupStarts, PTL DEF SignupSpec

\* A job that register has queued has its tenant and its administrator, and that account is no
\* other job's, whichever registrations race for the address and the slug.
THEOREM QueuedJobsAreRegistered == SignupSpec => []QueuedIsRegistered
<1>1. SignupInv => QueuedIsRegistered
  BY DEF SignupInv, ProvInv, JobHasOwner, QueuedIsRegistered
<1> QED BY <1>1, SignupInvariant, PTL

\* An account that is open has a tenant with a whole database, but between the statement of
\* register that creates it and the next.
THEOREM ActiveUsersHaveHomes == SignupSpec => []ActiveUserHasHome
<1>1. SignupInv => ActiveUserHasHome
  BY DEF SignupInv
<1> QED BY <1>1, SignupInvariant, PTL

\* What the job promises of a tenant holds of those that race to be registered too: completed is
\* whole, and a job that completed has opened its administrator's account for good and its tenant
\* unless a run went on without the lock.
THEOREM RegisteredTenantsAreBuilt == SignupSpec => [](CompletedIsBuilt /\ CompletedJobOpensTenant)
<1>1. SignupInv => CompletedIsBuilt /\ CompletedJobOpensTenant
  BY BuiltIfCompleted DEF SignupInv, ProvInv
<1> QED BY <1>1, SignupInvariant, PTL
=============================================================================

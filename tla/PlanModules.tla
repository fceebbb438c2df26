------------------------------ MODULE PlanModules ------------------------------
(***************************************************************************)
(* Which modules a plan gives its tenants is kept twice: in the column     *)
(* enabledModules of the plan and in the rows of modulePlanAssignment.     *)
(* PlansService writes the column and then brings the rows in line, row by *)
(* row, swallowing errors; its findOne brings the column in line with the  *)
(* rows; the modules services write the rows alone. One plan, one tenant.  *)
(***************************************************************************)
EXTENDS Requests

CONSTANT Modules   \* names of modules, defined or not

VARIABLES
    plan,      \* the plan: whether it is there, and its column enabledModules
    module,    \* module[m]: the definition named m
    assigned,  \* assigned[m]: the row of m and the plan
    direct     \* direct[m]: the row of m and the tenant; off: disabled or out of its dates

mvars == <<plan, module, assigned, direct>>

RowStates == {"none", "on", "off"}
SyncPcs   == {"names", "current", "enable", "disable"}
PlanSteps == {"idle", "names", "current", "enable", "disable", "assigned", "repair",
              "assign", "delete", "done", "swallowed", "lost"}

PlanTypeOK ==
    /\ plan \in [there: BOOLEAN, list: SUBSET Modules]
    /\ module \in [Modules -> {"absent", "active", "inactive"}]
    /\ assigned \in [Modules -> RowStates]
    /\ direct \in [Modules -> RowStates]
    /\ \A r \in Requests : call[r].pc \in PlanSteps

PlanInit ==
    /\ \E there \in BOOLEAN : plan = [there |-> there, list |-> {}]
    /\ \E state \in {"absent", "active"} : module = [m \in Modules |-> state]
    /\ assigned = [m \in Modules |-> "none"]
    /\ direct = [m \in Modules |-> "none"]

Known == {m \in Modules : module[m] # "absent"}
On    == {m \in Modules : assigned[m] = "on"}
Rows  == {m \in Modules : assigned[m] # "none"}

\* getTenantModules, for a tenant with an active subscription.
TenantModules(given, extra, def) ==
    {m \in given \cup {d \in Modules : extra[d] = "on"} : def[m] = "active"}

-----------------------------------------------------------------------------
(* PlansService: create, update, syncModuleAssignments *)

\* want: the modules to enable; seen: the modules with a row; todo: the rows still to write.
Sync(L) == [pc |-> "names", want |-> L, seen |-> {}, todo |-> {}]

CreatePlan(r, L) ==
    /\ ~plan.there
    /\ Begin(r, IF L = {} THEN Over ELSE Sync(L))
    /\ plan' = [there |-> TRUE, list |-> L]
    /\ UNCHANGED <<module, assigned, direct>>

UpdatePlan(r, L) ==
    /\ plan.there
    /\ Begin(r, Sync(L))
    /\ plan' = [plan EXCEPT !.list = L]
    /\ UNCHANGED <<module, assigned, direct>>

SyncNames(r) ==
    /\ call[r].pc = "names"
    /\ Go(r, "names", [At(r, "current") EXCEPT !.want = @ \cap Known])
    /\ UNCHANGED mvars

\* Mutant: the rows that are not wanted any more are left on.
NextRowForgetful(q) ==
    IF q.todo # {} THEN q ELSE Over

\* First the wanted rows, then those that are not wanted.
NextRow(q) ==
    IF q.todo # {} THEN q
    ELSE IF q.pc = "enable" /\ q.seen \ q.want # {}
         THEN [q EXCEPT !.pc = "disable", !.todo = q.seen \ q.want]
         ELSE Over

SyncCurrent(r) ==
    /\ call[r].pc = "current"
    /\ Go(r, "current", NextRow([At(r, "enable") EXCEPT !.seen = Rows, !.todo = call[r].want]))
    /\ UNCHANGED mvars

\* upsert; without the module the row cannot be written, and SyncFails is what is left.
EnableRow(r) ==
    /\ call[r].pc = "enable"
    /\ \E m \in call[r].todo \cap Known :
          /\ Go(r, "enable", NextRow([call[r] EXCEPT !.todo = @ \ {m}]))
          /\ assigned' = [assigned EXCEPT ![m] = "on"]
    /\ UNCHANGED <<plan, module, direct>>

\* updateMany touches no row that is gone.
DisableRow(r) ==
    /\ call[r].pc = "disable"
    /\ \E m \in call[r].todo :
          /\ Go(r, "disable", NextRow([call[r] EXCEPT !.todo = @ \ {m}]))
          /\ assigned' = [assigned EXCEPT ![m] = IF @ = "none" THEN "none" ELSE "off"]
    /\ UNCHANGED <<plan, module, direct>>

\* An error of any of these queries is swallowed: the rows stay where the sync has left them,
\* and create or update answers with the plan.
SyncFails(r) ==
    /\ call[r].pc \in SyncPcs
    /\ Swallow(r)
    /\ UNCHANGED mvars

-----------------------------------------------------------------------------
(* PlansService.findOne *)

ReadPlan(r) ==
    /\ plan.there
    /\ Begin(r, [pc |-> "assigned", want |-> {}, seen |-> plan.list, todo |-> {}])
    /\ UNCHANGED mvars

ReadAssigned(r) ==
    /\ call[r].pc = "assigned"
    /\ Go(r, "assigned", IF call[r].seen = On THEN Over ELSE [At(r, "repair") EXCEPT !.want = On])
    /\ UNCHANGED mvars

Repair(r) ==
    /\ Go(r, "repair", Over)
    /\ plan' = [plan EXCEPT !.list = call[r].want]
    /\ UNCHANGED <<module, assigned, direct>>

-----------------------------------------------------------------------------
(* ModulesService and TenantAssignmentsService *)

AssignToPlan(r, m, to) ==
    /\ m \in Known /\ plan.there
    /\ Begin(r, [pc |-> "assign", module |-> m, to |-> to])
    /\ UNCHANGED mvars

Assign(r) ==
    /\ call[r].pc = "assign"
    /\ call[r].module \in Known
    /\ Go(r, "assign", Over)
    /\ assigned' = [assigned EXCEPT ![call[r].module] = call[r].to]
    /\ UNCHANGED <<plan, module, direct>>

RemoveFromPlan(r, m) ==
    /\ m \in Rows
    /\ Begin(r, Over)
    /\ assigned' = [assigned EXCEPT ![m] = "none"]
    /\ UNCHANGED <<plan, module, direct>>

\* create, for a name that is free, and update of isActive.
WriteModule(r, m, to) ==
    /\ Begin(r, Over)
    /\ module' = [module EXCEPT ![m] = to]
    /\ UNCHANGED <<plan, assigned, direct>>

RemoveModule(r, m) ==
    /\ m \in Known
    /\ Begin(r, [pc |-> "delete", module |-> m])
    /\ assigned' = [assigned EXCEPT ![m] = "none"]
    /\ UNCHANGED <<plan, module, direct>>

\* The rows that refer to a module go with it.
DeleteModule(r) ==
    /\ call[r].pc = "delete"
    /\ Go(r, "delete", Over)
    /\ LET m == call[r].module IN
        /\ module' = [module EXCEPT ![m] = "absent"]
        /\ assigned' = [assigned EXCEPT ![m] = "none"]
        /\ direct' = [direct EXCEPT ![m] = "none"]
    /\ UNCHANGED plan

\* assignModuleToTenant, or removeModuleFromTenant.
WriteDirect(r, m, to) ==
    /\ IF to = "none" THEN direct[m] # "none" ELSE m \in Known
    /\ Begin(r, Over)
    /\ direct' = [direct EXCEPT ![m] = to]
    /\ UNCHANGED <<plan, module, assigned>>

PlanStep(r) ==
    \/ \E L \in SUBSET Modules : CreatePlan(r, L) \/ UpdatePlan(r, L)
    \/ SyncNames(r) \/ SyncCurrent(r) \/ EnableRow(r) \/ DisableRow(r) \/ SyncFails(r)
    \/ ReadPlan(r) \/ ReadAssigned(r) \/ Repair(r)
    \/ \E m \in Modules :
          \/ \E to \in {"on", "off"} : AssignToPlan(r, m, to)
          \/ RemoveFromPlan(r, m) \/ RemoveModule(r, m)
          \/ \E to \in {"active", "inactive"} : WriteModule(r, m, to)
          \/ \E to \in RowStates : WriteDirect(r, m, to)
    \/ Assign(r) \/ DeleteModule(r)
    \/ Lose(r) /\ UNCHANGED mvars

PlanNext == \E r \in Requests : PlanStep(r)

PlanSpec == (RequestsInit /\ PlanInit) /\ [][PlanNext]_<<rvars, mvars>>

-----------------------------------------------------------------------------
(* Properties *)

\* A step leaves the tenants of the plan with the modules its column names, and their own.
InLineAfter ==
    TenantModules(On', direct', module') = TenantModules(plan'.list, direct', module')

\* A step takes no module from them that the column names, nor gives them one it does not name.
NoFurther ==
    LET before == TenantModules(On, direct, module)
        after  == TenantModules(On', direct', module')
        column == TenantModules(plan'.list, direct', module')
    IN  before \cap column \subseteq after /\ after \subseteq before \cup column

\* Whatever races and swallowed errors came before, and nothing overlaps the request: a sync
\* takes the tenants' modules no further from the column in any step, so also when an error is
\* swallowed half-way; one that comes to its end without an error leaves them as the column
\* names them; and so does a reading, whatever a half-done sync has left (syncModuleAssignments
\* 314-389, findOne 152-178). A sync whose error is swallowed promises no more than the first,
\* though create and update answer as ever: see AnswersAgree.
SoloAgrees ==
    [][\A r \in Requests :
          /\ EndsAlone(r) /\ call[r].pc \in {"current", "enable", "disable", "assigned", "repair"} =>
                InLineAfter
          /\ alone'[r] /\ call'[r] # call[r] /\ call[r].pc \in SyncPcs => NoFurther
      ]_<<rvars, mvars>>

\* The tenants have the modules of the column when an update that nothing overlaps has answered
\* (update 284-303).
AnswersAgree ==
    [][\A r \in Requests :
          alone'[r] /\ call[r].pc \in SyncPcs /\ call'[r].pc \in {"done", "swallowed"} =>
              InLineAfter
      ]_<<rvars, mvars>>

\* Column and rows agree whenever no request is being served (syncModuleAssignments).
QuietAgrees ==
    (\A r \in Requests : ~Open(r)) => On = plan.list \cap Known
=============================================================================

------------------------------ MODULE MCServices ------------------------------
(* The services that share nothing but the requests they serve: a behaviour is one of the *)
(* services, any of them, serving up to Most of them.                                      *)
EXTENDS TenantClients, UserLogins, PlanModules, UserAdministration, Categories, Stock,
        PrimaryAccounts, Customers, MonthlyMessages, Transactions, CompanySettings,
        Subscriptions, TLC

CONSTANTS Values2, Values3   \* the names, rows and persons that are all alike

VARIABLE focus   \* the service

ServiceNames == {"clients", "logins", "plan", "users", "categories", "stock", "accounts",
                 "customers", "messages", "entries", "settings", "billing"}

Most == [s \in ServiceNames |->
            IF s \in {"categories", "stock", "messages", "billing"} THEN 2 ELSE Cardinality(Requests)]

\* What cannot be told apart in any service.
MCSymmetry == Permutations(Requests) \cup Permutations(Values2) \cup Permutations(Values3)

\* The services that are not looked at have nothing to do.
ServicesStart ==
    /\ focus \in ServiceNames
    /\ RequestsInit /\ ClientsInit /\ LoginsInit /\ AccountsInit /\ CustomersInit
    /\ EntriesInit /\ SettingsInit
    /\ IF focus = "plan" THEN PlanInit
       ELSE /\ plan = [there |-> FALSE, list |-> {}]
            /\ module = [m \in Modules |-> "absent"]
            /\ assigned = [m \in Modules |-> "none"]
            /\ direct = [m \in Modules |-> "none"]
    /\ IF focus = "users" THEN UsersInit
       ELSE /\ member = [u \in Members |-> NoMember]
            /\ role = [n \in Roles |-> "none"]
            /\ admin = [x \in Admins |-> NoAdmin]
    /\ IF focus = "categories" THEN CatsInit ELSE cat = [c \in CategoryIds |-> NoCategory]
    /\ IF focus = "stock" THEN StockInit
       ELSE /\ stock = [i \in Items |-> 0]
            /\ movements = [i \in Items |-> <<>>]
            /\ unresolved = {}
    /\ IF focus = "messages" THEN MessagesInit ELSE message = [m \in Messages |-> NoMessage]
    /\ IF focus = "billing" THEN SubsInit
       ELSE /\ chosen = "none"
            /\ price = [p \in Plans |-> 0]
            /\ billed = <<>>

ServicesNext ==
    /\ CASE focus = "clients"    -> ClientsNext
         [] focus = "logins"     -> LoginsNext
         [] focus = "plan"       -> PlanNext
         [] focus = "users"      -> UsersNext
         [] focus = "categories" -> CatsNext
         [] focus = "stock"      -> StockNext
         [] focus = "accounts"   -> AccountsNext
         [] focus = "customers"  -> CustomersNext
         [] focus = "messages"   -> MessagesNext
         [] focus = "entries"    -> EntriesNext
         [] focus = "settings"   -> SettingsNext
         [] focus = "billing"    -> BillingNext
    /\ Cardinality(Asked(call')) <= Most[focus]
    /\ IF focus = "clients" THEN TRUE ELSE UNCHANGED cvars
    /\ IF focus = "logins" THEN TRUE ELSE UNCHANGED lvars
    /\ IF focus = "plan" THEN TRUE ELSE UNCHANGED mvars
    /\ IF focus = "users" THEN TRUE ELSE UNCHANGED uvars
    /\ IF focus = "categories" THEN TRUE ELSE UNCHANGED kvars
    /\ IF focus = "stock" THEN TRUE ELSE UNCHANGED ivars
    /\ IF focus = "accounts" THEN TRUE ELSE UNCHANGED avars
    /\ IF focus = "customers" THEN TRUE ELSE UNCHANGED cuvars
    /\ IF focus = "messages" THEN TRUE ELSE UNCHANGED gvars
    /\ IF focus = "entries" THEN TRUE ELSE UNCHANGED bvars
    /\ IF focus = "settings" THEN TRUE ELSE UNCHANGED svars
    /\ IF focus = "billing" THEN TRUE ELSE UNCHANGED pvars
    /\ UNCHANGED focus

ServicesSpec ==
    ServicesStart /\ [][ServicesNext]_<<rvars, cvars, lvars, mvars, uvars, kvars, ivars, avars,
                                        cuvars, gvars, bvars, svars, pvars, focus>>

\* Every row is what the schema says, and the requests stand where their service has steps.
ServicesTypeOK ==
    CASE focus = "clients"    -> ClientsTypeOK
      [] focus = "logins"     -> LoginsTypeOK
      [] focus = "plan"       -> PlanTypeOK
      [] focus = "users"      -> UsersTypeOK
      [] focus = "categories" -> CatsTypeOK
      [] focus = "stock"      -> StockTypeOK
      [] focus = "accounts"   -> AccountsTypeOK
      [] focus = "customers"  -> CustomersTypeOK
      [] focus = "messages"   -> MessagesTypeOK
      [] focus = "entries"    -> EntriesTypeOK
      [] focus = "settings"   -> SettingsTypeOK
      [] focus = "billing"    -> SubsTypeOK
=============================================================================

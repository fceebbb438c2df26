-------------------------- MODULE UserAdministration --------------------------
(***************************************************************************)
(* Who may work with the system: the users and roles of a tenant           *)
(* (UsersService, RolesService, with PlanLimitsGuard in front of create)   *)
(* and the system users of the superadmin database (SystemUsersService).   *)
(* Every rule is a count or a lookup that a later statement relies on.     *)
(***************************************************************************)
EXTENDS Requests, Naturals, FiniteSets

CONSTANTS Members,   \* users of the tenant, named by their address
          Admins,    \* system users
          Roles,     \* names of roles
          MaxUsers   \* what the plan allows, not 0

ASSUME UsersAssumption == IsFiniteSet(Members) /\ IsFiniteSet(Admins) /\ MaxUsers \in Nat \ {0}

VARIABLES
    member,  \* member[u]: whether the row is there, is active, and its role
    role,    \* role[n]: the row of the role n
    admin    \* admin[x]: systemRole and isActive

uvars == <<member, role, admin>>

AdminSteps == {"idle", "check", "email", "enroll", "change", "count", "delete", "bare",
               "drop", "admin", "edit", "remove", "leave", "done", "lost"}

NoMember == [state |-> "none", role |-> "none"]
NoAdmin  == [kind |-> "none", active |-> FALSE]

UsersTypeOK ==
    /\ member \in [Members -> [state: {"none", "active", "inactive"}, role: Roles \cup {"none"}]]
    /\ role \in [Roles -> {"none", "custom", "system"}]
    /\ admin \in [Admins -> [kind: {"none", "super_admin", "support"}, active: BOOLEAN]]
    /\ \A r \in Requests : call[r].pc \in AdminSteps

\* The tenant's administrator is its first user; any number of system users to begin with.
UsersInit ==
    /\ \E u \in Members, n \in Roles :
          member = [m \in Members |-> IF m = u THEN [state |-> "active", role |-> n] ELSE NoMember]
    /\ role = [n \in Roles |-> "custom"]
    /\ admin \in [Admins -> [kind: {"super_admin"}, active: {TRUE}] \cup {NoAdmin}]
    /\ \E x \in Admins : admin[x].active

ActiveMembers == {u \in Members : member[u].state = "active"}
SuperAdmins   == {x \in Admins : admin[x] = [kind |-> "super_admin", active |-> TRUE]}

-----------------------------------------------------------------------------
(* Users of the tenant *)

\* Mutant: one user more than the plan allows.
SeatFreeLate(n) == n <= MaxUsers

SeatFree(n) == n < MaxUsers

AskUser(r, u, state, n) ==
    /\ Begin(r, [pc |-> "check", user |-> u, state |-> state, role |-> n, checked |-> TRUE])
    /\ UNCHANGED uvars

\* canCreateUser, asked by the guard: an error allows.
CheckSeats(r) ==
    /\ call[r].pc = "check"
    /\ \/ Go(r, "check", At(r, IF SeatFree(Cardinality(ActiveMembers)) THEN "email" ELSE "lost"))
       \/ Go(r, "check", [At(r, "email") EXCEPT !.checked = FALSE])
    /\ UNCHANGED uvars

CheckAddress(r) ==
    /\ call[r].pc = "email"
    /\ Pass(r, "email", IF member[call[r].user].state = "none" THEN "enroll" ELSE "lost")
    /\ UNCHANGED uvars

\* The address is unique.
InsertUser(r) ==
    /\ call[r].pc = "enroll"
    /\ member[call[r].user].state = "none"
    /\ Go(r, "enroll", Over)
    /\ member' = [member EXCEPT ![call[r].user] = [state |-> call[r].state, role |-> call[r].role]]
    /\ UNCHANGED <<role, admin>>

\* updateTenantUser: found first; isActive and role are written as they are asked for. A user
\* keeps the address, which a change would check as CheckAddress does.
AskUpdate(r, u, state, n) ==
    /\ member[u].state # "none"
    /\ Begin(r, [pc |-> "change", user |-> u, state |-> state, role |-> n])
    /\ UNCHANGED uvars

UpdateUser(r) ==
    /\ call[r].pc = "change"
    /\ member[call[r].user].state # "none"
    /\ Go(r, "change", Over)
    /\ member' = [member EXCEPT ![call[r].user] = [state |-> call[r].state, role |-> call[r].role]]
    /\ UNCHANGED <<role, admin>>

\* deleteTenantUser: found, then counted what was created by the user.
AskDelete(r, u) ==
    /\ member[u].state # "none"
    /\ Begin(r, [pc |-> "count", user |-> u])
    /\ UNCHANGED uvars

CountWork(r) ==
    /\ Pass(r, "count", "delete") \/ Pass(r, "count", "bare")
    /\ UNCHANGED uvars

\* A user with orders, tasks or customers is deactivated; another is deleted.
DeleteUser(r) ==
    /\ call[r].pc \in {"delete", "bare"}
    /\ member[call[r].user].state # "none"
    /\ Go(r, call[r].pc, Over)
    /\ member' = [member EXCEPT ![call[r].user] =
                     IF call[r].pc = "bare" THEN NoMember ELSE [@ EXCEPT !.state = "inactive"]]
    /\ UNCHANGED <<role, admin>>

-----------------------------------------------------------------------------
(* Roles *)

\* create, and createSystemRoles for the predefined names.
CreateRole(r, n, kind) ==
    /\ role[n] = "none"
    /\ Begin(r, Over)
    /\ role' = [role EXCEPT ![n] = kind]
    /\ UNCHANGED <<member, admin>>

\* remove: found, not a system role, held by nobody, active or not.
AskRemoveRole(r, n) ==
    /\ role[n] = "custom"
    /\ \A u \in Members : member[u].role # n
    /\ Begin(r, [pc |-> "drop", role |-> n])
    /\ UNCHANGED uvars

RemoveRole(r) ==
    /\ Go(r, "drop", Over)
    /\ role' = [role EXCEPT ![call[r].role] = "none"]
    /\ UNCHANGED <<member, admin>>

-----------------------------------------------------------------------------
(* System users *)

CreateAdmin(r, x, a) ==
    /\ admin[x] = NoAdmin
    /\ Begin(r, Over)
    /\ admin' = [admin EXCEPT ![x] = a]
    /\ UNCHANGED <<member, role>>

\* update: found first, then any systemRole and any isActive is written.
AskEdit(r, x, a) ==
    /\ admin[x] # NoAdmin
    /\ Begin(r, [pc |-> "edit", admin |-> x, to |-> a])
    /\ UNCHANGED uvars

EditAdmin(r) ==
    /\ Go(r, "edit", Over)
    /\ admin' = [admin EXCEPT ![call[r].admin] = call[r].to]
    /\ UNCHANGED <<member, role>>

\* remove: findOne ...
AskRemove(r, x) ==
    /\ admin[x] # NoAdmin
    /\ Begin(r, [pc |-> "remove", admin |-> x, kind |-> admin[x].kind])
    /\ UNCHANGED uvars

AdminToSpare(n) == n > 1

\* ... the count, for a super_admin ...
CountAdmins(r) ==
    /\ call[r].pc = "remove"
    /\ call[r].kind # "super_admin" \/ AdminToSpare(Cardinality(SuperAdmins))
    /\ Pass(r, "remove", "leave")
    /\ UNCHANGED uvars

\* ... and the row is deactivated.
RemoveAdmin(r) ==
    /\ call[r].pc = "leave"
    /\ Go(r, "leave", Over)
    /\ admin' = [admin EXCEPT ![call[r].admin].active = FALSE]
    /\ UNCHANGED <<member, role>>

AdminValues == [kind: {"super_admin", "support"}, active: BOOLEAN]

UserStep(r) ==
    \/ \E u \in Members, s \in {"active", "inactive"}, n \in Roles :
          AskUser(r, u, s, n) \/ AskUpdate(r, u, s, n)
    \/ CheckSeats(r) \/ CheckAddress(r) \/ InsertUser(r) \/ UpdateUser(r)
    \/ \E u \in Members : AskDelete(r, u)
    \/ CountWork(r) \/ DeleteUser(r)
    \/ \E n \in Roles : AskRemoveRole(r, n) \/ \E k \in {"custom", "system"} : CreateRole(r, n, k)
    \/ RemoveRole(r)
    \/ \E x \in Admins : AskRemove(r, x) \/ \E a \in AdminValues : CreateAdmin(r, x, a) \/ AskEdit(r, x, a)
    \/ EditAdmin(r) \/ CountAdmins(r) \/ RemoveAdmin(r)
    \/ Lose(r) /\ UNCHANGED uvars

UsersNext == \E r \in Requests : UserStep(r)

UsersSpec == (RequestsInit /\ UsersInit) /\ [][UsersNext]_<<rvars, uvars>>

-----------------------------------------------------------------------------
(* Properties *)

\* A user created through a check that answered, with nothing in between, is within the
\* plan, however many were brought back or let in before.
SoloSeat(r) ==
    EndsAlone(r) /\ call[r].pc = "enroll" /\ call[r].checked /\ call[r].state = "active"
        => Cardinality(ActiveMembers') <= MaxUsers

\* A removal of a super_admin that nothing overlaps leaves an active one.
SoloRemoval(r) ==
    EndsAlone(r) /\ call[r].pc = "leave" /\ call[r].kind = "super_admin" => SuperAdmins' # {}

\* Counts that nothing gets in between are relied on rightly, whatever came before.
SoloCounts == [][\A r \in Requests : SoloSeat(r) /\ SoloRemoval(r)]_<<rvars, uvars>>

\* There is always an active super administrator (SystemUsersService.remove).
AdminLeft == SuperAdmins # {}

\* The tenant never has more active users than its plan allows (canCreateUser).
SeatsWithinPlan == Cardinality(ActiveMembers) <= MaxUsers
=============================================================================

---------------------------- MODULE ServicesProofs ----------------------------
(***************************************************************************)
(* Theorems about the behaviours of MCServices, one service at a time: the *)
(* rows of the service are always what its schema says and its requests    *)
(* where it has steps. What the invariants of AccessProofs and             *)
(* RecordsProofs leave open of the types is shown here, service by         *)
(* service, from those invariants.                                         *)
(***************************************************************************)
EXTENDS MCServices, AccessProofs, RecordsProofs

\* In a step of r its record becomes q and the other records stay.
Moves(r, q) == call'[r] = q /\ \A s \in Requests : s # r => call'[s] = call[s]

\* A request that comes in moves.
LEMMA BeginMoves ==
    ASSUME Kept, NEW r \in Requests, NEW q, Begin(r, q)
    PROVE  Moves(r, q)
BY DEF Begin, Kept, Moves

\* A request that goes on moves, from where it stood.
LEMMA GoMoves ==
    ASSUME Kept, NEW r \in Requests, NEW pc, NEW q, Go(r, pc, q)
    PROVE  Moves(r, q) /\ call[r].pc = pc
BY DEF Go, Kept, Moves

\* A request that is lost moves.
LEMMA LoseMoves ==
    ASSUME Kept, NEW r \in Requests, Lose(r)
    PROVE  Moves(r, [pc |-> "lost"])
BY DEF Lose, Kept, Moves

\* Nor does one whose error is swallowed stay.
LEMMA SwallowMoves ==
    ASSUME Kept, NEW r \in Requests, Swallow(r)
    PROVE  Moves(r, [pc |-> "swallowed"])
BY DEF Swallow, Kept, Moves

-----------------------------------------------------------------------------
(* PlansService and the modules services *)

PlanRowsTyped ==
    /\ plan \in [there: BOOLEAN, list: SUBSET Modules]
    /\ module \in [Modules -> {"absent", "active", "inactive"}]
    /\ assigned \in [Modules -> RowStates]
    /\ direct \in [Modules -> RowStates]

\* What an assignment is to write.
AssignTyped(q) == q.pc = "assign" => q.to \in {"on", "off"}

PlanTyped == PlanRowsTyped /\ \A r \in Requests : AssignTyped(call[r])

\* A request that moves to a record that is no assignment, or a well-typed one.
LEMMA PlanMoveTyped ==
    ASSUME PlanTyped, NEW r \in Requests, NEW q, Moves(r, q), AssignTyped(q), PlanRowsTyped'
    PROVE  PlanTyped'
<1>1. ASSUME NEW s \in Requests PROVE AssignTyped(call[s])'
  <2>1. CASE s = r
    BY <2>1 DEF Moves, AssignTyped
  <2>2. CASE s # r
    BY <2>2 DEF Moves, PlanTyped, AssignTyped
  <2> QED BY <2>1, <2>2
<1> QED BY <1>1 DEF PlanTyped

\* The record of the next row is no assignment.
LEMMA NextRowTyped ==
    ASSUME NEW q \in PlanCall, q.pc \in {"enable", "disable"}
    PROVE  AssignTyped(NextRow(q))
BY NextRowIs DEF AssignTyped, Over

\* Every step of the plans' services keeps the types.
LEMMA PlanStepTyped ==
    ASSUME PlanInv, PlanTyped, NEW r \in Requests, PlanStep(r)
    PROVE  PlanTyped'
<1> USE DEF RowStates
<1>1. Kept /\ (call[r].pc \in PlanPcs => call[r] \in PlanCall)
  BY DEF PlanInv, PlanShape
<1>2. AssignTyped(Over) /\ AssignTyped([pc |-> "lost"]) /\ AssignTyped([pc |-> "swallowed"])
  BY DEF AssignTyped, Over
<1>3. ASSUME NEW L \in SUBSET Modules, CreatePlan(r, L) \/ UpdatePlan(r, L) PROVE PlanTyped'
  <2>1. AssignTyped(Sync(L))
    BY DEF AssignTyped, Sync
  <2>2. PICK q : Begin(r, q) /\ AssignTyped(q)
    BY <1>2, <1>3, <2>1 DEF CreatePlan, UpdatePlan
  <2>3. module' = module /\ assigned' = assigned /\ direct' = direct
    BY <1>3 DEF CreatePlan, UpdatePlan
  <2>4. plan' \in [there: BOOLEAN, list: SUBSET Modules]
    <3>1. CASE plan' = [there |-> TRUE, list |-> L]
      BY <3>1
    <3>2. CASE plan' = [plan EXCEPT !.list = L]
      BY <3>2 DEF PlanTyped, PlanRowsTyped
    <3> QED BY <1>3, <3>1, <3>2 DEF CreatePlan, UpdatePlan
  <2>5. PlanRowsTyped'
    BY <2>3, <2>4 DEF PlanTyped, PlanRowsTyped
  <2> QED BY <1>1, <2>2, <2>5, BeginMoves, PlanMoveTyped
<1>4. ASSUME SyncNames(r) PROVE PlanTyped'
  <2>1. PICK q : q = [At(r, "current") EXCEPT !.want = @ \cap Known]
    OBVIOUS
  <2>2. Go(r, "names", q) /\ call[r] \in PlanCall
    BY <1>1, <1>4, <2>1 DEF SyncNames, PlanPcs
  <2>3. q.pc = "current"
    BY <2>1, <2>2 DEF At, PlanCall
  <2>4. PlanRowsTyped'
    BY <1>4 DEF SyncNames, mvars, PlanTyped, PlanRowsTyped
  <2> QED BY <1>1, <2>2, <2>3, <2>4, GoMoves, PlanMoveTyped DEF AssignTyped
<1>5. ASSUME SyncCurrent(r) PROVE PlanTyped'
  <2>1. PICK q : q = [At(r, "enable") EXCEPT !.seen = Rows, !.todo = call[r].want]
    OBVIOUS
  <2>2. Go(r, "current", NextRow(q)) /\ call[r] \in PlanCall
    BY <1>1, <1>5, <2>1 DEF SyncCurrent, PlanPcs
  <2>3. q \in PlanCall /\ q.pc = "enable"
    BY <2>1, <2>2 DEF At, PlanCall, PlanPcs, Rows
  <2>4. PlanRowsTyped'
    BY <1>5 DEF SyncCurrent, mvars, PlanTyped, PlanRowsTyped
  <2> QED BY <1>1, <2>2, <2>3, <2>4, GoMoves, NextRowTyped, PlanMoveTyped
<1>6. ASSUME EnableRow(r) \/ DisableRow(r) PROVE PlanTyped'
  <2>1. call[r] \in PlanCall /\ call[r].pc \in {"enable", "disable"}
    BY <1>1, <1>6 DEF EnableRow, DisableRow, PlanPcs
  <2>2. PICK m \in call[r].todo : \E to \in {"enable", "disable"} :
            Go(r, to, NextRow([call[r] EXCEPT !.todo = @ \ {m}]))
    BY <1>6 DEF EnableRow, DisableRow
  <2>3. PICK q : q = [call[r] EXCEPT !.todo = @ \ {m}]
    OBVIOUS
  <2>4. q \in PlanCall /\ q.pc \in {"enable", "disable"}
    BY <2>1, <2>3 DEF PlanCall
  <2>5. PlanRowsTyped'
    BY <1>6, <2>1 DEF EnableRow, DisableRow, PlanTyped, PlanRowsTyped, PlanCall
  <2> QED BY <1>1, <2>2, <2>3, <2>4, <2>5, GoMoves, NextRowTyped, PlanMoveTyped
<1>7. ASSUME ReadPlan(r) PROVE PlanTyped'
  <2>1. PICK q : q = [pc |-> "assigned", want |-> {}, seen |-> plan.list, todo |-> {}]
    OBVIOUS
  <2>2. Begin(r, q) /\ AssignTyped(q)
    BY <1>7, <2>1 DEF ReadPlan, AssignTyped
  <2>3. PlanRowsTyped'
    BY <1>7 DEF ReadPlan, mvars, PlanTyped, PlanRowsTyped
  <2> QED BY <1>1, <2>2, <2>3, BeginMoves, PlanMoveTyped
<1>8. ASSUME ReadAssigned(r) PROVE PlanTyped'
  <2>1. PICK q : q = [At(r, "repair") EXCEPT !.want = On]
    OBVIOUS
  <2>2. call[r] \in PlanCall /\ (Go(r, "assigned", Over) \/ Go(r, "assigned", q))
    BY <1>1, <1>8, <2>1 DEF ReadAssigned, PlanPcs
  <2>3. AssignTyped(q)
    BY <2>1, <2>2 DEF At, PlanCall, AssignTyped
  <2>4. PlanRowsTyped'
    BY <1>8 DEF ReadAssigned, mvars, PlanTyped, PlanRowsTyped
  <2> QED BY <1>1, <1>2, <2>2, <2>3, <2>4, GoMoves, PlanMoveTyped
<1>9. ASSUME Repair(r) PROVE PlanTyped'
  <2>1. call[r] \in PlanCall /\ Moves(r, Over)
    BY <1>1, <1>9, GoMoves DEF Repair, PlanPcs
  <2>2. PlanRowsTyped'
    BY <1>9, <2>1 DEF Repair, PlanTyped, PlanRowsTyped, PlanCall
  <2> QED BY <1>2, <2>1, <2>2, PlanMoveTyped
<1>10. ASSUME NEW m \in Modules, NEW to \in {"on", "off"}, AssignToPlan(r, m, to) PROVE PlanTyped'
  <2>1. PICK q : q = [pc |-> "assign", module |-> m, to |-> to]
    OBVIOUS
  <2>2. Begin(r, q) /\ AssignTyped(q)
    BY <1>10, <2>1 DEF AssignToPlan, AssignTyped
  <2>3. PlanRowsTyped'
    BY <1>10 DEF AssignToPlan, mvars, PlanTyped, PlanRowsTyped
  <2> QED BY <1>1, <2>2, <2>3, BeginMoves, PlanMoveTyped
<1>11. ASSUME NEW m \in Modules,
              \/ RemoveFromPlan(r, m)
              \/ \E to \in {"active", "inactive"} : WriteModule(r, m, to)
              \/ \E to \in RowStates : WriteDirect(r, m, to)
       PROVE  PlanTyped'
  <2>1. Moves(r, Over)
    BY <1>1, <1>11, BeginMoves DEF RemoveFromPlan, WriteModule, WriteDirect
  <2>2. PlanRowsTyped'
    BY <1>11 DEF RemoveFromPlan, WriteModule, WriteDirect, PlanTyped, PlanRowsTyped
  <2> QED BY <1>2, <2>1, <2>2, PlanMoveTyped
<1>12. ASSUME NEW m \in Modules, RemoveModule(r, m) PROVE PlanTyped'
  <2>1. PICK q : q = [pc |-> "delete", module |-> m]
    OBVIOUS
  <2>2. Begin(r, q) /\ AssignTyped(q)
    BY <1>12, <2>1 DEF RemoveModule, AssignTyped
  <2>3. PlanRowsTyped'
    BY <1>12 DEF RemoveModule, PlanTyped, PlanRowsTyped
  <2> QED BY <1>1, <2>2, <2>3, BeginMoves, PlanMoveTyped
<1>13. ASSUME Assign(r) \/ DeleteModule(r) PROVE PlanTyped'
  <2>1. Moves(r, Over)
    BY <1>1, <1>13, GoMoves DEF Assign, DeleteModule
  <2>2. PlanRowsTyped'
    BY <1>13 DEF Assign, DeleteModule, PlanTyped, PlanRowsTyped, AssignTyped
  <2> QED BY <1>2, <2>1, <2>2, PlanMoveTyped
<1>14. ASSUME (Lose(r) /\ UNCHANGED mvars) \/ SyncFails(r) PROVE PlanTyped'
  <2>1. PlanRowsTyped'
    BY <1>14 DEF SyncFails, mvars, PlanTyped, PlanRowsTyped
  <2> QED BY <1>1, <1>2, <1>14, <2>1, LoseMoves, SwallowMoves, PlanMoveTyped DEF SyncFails
<1> QED BY <1>3, <1>4, <1>5, <1>6, <1>7, <1>8, <1>9, <1>10, <1>11, <1>12, <1>13, <1>14 DEF PlanStep

\* The types hold at first.
LEMMA PlanTypedAtFirst == RequestsInit /\ PlanInit => PlanTyped
BY DEF RequestsInit, PlanInit, Unasked, PlanTyped, PlanRowsTyped, AssignTyped, RowStates

\* Every step keeps them.
LEMMA PlanTypedStays == PlanInv /\ PlanTyped /\ [PlanNext]_<<rvars, mvars>> => PlanTyped'
<1>1. PlanTyped /\ UNCHANGED <<rvars, mvars>> => PlanTyped'
  BY DEF rvars, mvars, PlanTyped, PlanRowsTyped, AssignTyped
<1> QED BY <1>1, PlanStepTyped DEF PlanNext

\* The invariants make the type invariant.
LEMMA PlanTypes == PlanInv /\ PlanTyped => PlanTypeOK
BY DEF PlanInv, PlanShape, PlanTyped, PlanRowsTyped, PlanTypeOK

-----------------------------------------------------------------------------
(* UsersService, RolesService and SystemUsersService *)

MemberRow == [state: {"none", "active", "inactive"}, role: Roles \cup {"none"}]

UserRowsTyped ==
    /\ member \in [Members -> MemberRow]
    /\ role \in [Roles -> {"none", "custom", "system"}]

\* What an update is to write.
ChangeTyped(q) == q.pc = "change" => q.state \in {"active", "inactive"} /\ q.role \in Roles

UsersTyped == UserRowsTyped /\ \A r \in Requests : ChangeTyped(call[r])

\* A request that moves to a record that is no update, or a well-typed one.
LEMMA UserMoveTyped ==
    ASSUME UsersTyped, NEW r \in Requests, NEW q, Moves(r, q), ChangeTyped(q), UserRowsTyped'
    PROVE  UsersTyped'
<1>1. ASSUME NEW s \in Requests PROVE ChangeTyped(call[s])'
  <2>1. CASE s = r
    BY <2>1 DEF Moves, ChangeTyped
  <2>2. CASE s # r
    BY <2>2 DEF Moves, UsersTyped, ChangeTyped
  <2> QED BY <2>1, <2>2
<1> QED BY <1>1 DEF UsersTyped

\* Every step of the users' services keeps the types.
LEMMA UserStepTyped ==
    ASSUME UsersInv, UsersTyped, NEW r \in Requests, UserStep(r)
    PROVE  UsersTyped'
<1>1. Kept /\ UserShape(call[r])
  BY DEF UsersInv
<1>2. ChangeTyped(Over) /\ ChangeTyped([pc |-> "lost"])
  BY DEF ChangeTyped, Over
<1>3. UNCHANGED uvars => UserRowsTyped'
  BY DEF uvars, UsersTyped, UserRowsTyped
<1>4. ASSUME NEW u \in Members, NEW s \in {"active", "inactive"}, NEW n \in Roles, AskUser(r, u, s, n)
      PROVE  UsersTyped'
  <2>1. PICK q : q = [pc |-> "check", user |-> u, state |-> s, role |-> n, checked |-> TRUE]
    OBVIOUS
  <2>2. Begin(r, q) /\ ChangeTyped(q)
    BY <1>4, <2>1 DEF AskUser, ChangeTyped
  <2> QED BY <1>1, <1>3, <1>4, <2>2, BeginMoves, UserMoveTyped DEF AskUser
<1>5. ASSUME NEW u \in Members, NEW s \in {"active", "inactive"}, NEW n \in Roles, AskUpdate(r, u, s, n)
      PROVE  UsersTyped'
  <2>1. PICK q : q = [pc |-> "change", user |-> u, state |-> s, role |-> n]
    OBVIOUS
  <2>2. Begin(r, q) /\ ChangeTyped(q)
    BY <1>5, <2>1 DEF AskUpdate, ChangeTyped
  <2> QED BY <1>1, <1>3, <1>5, <2>2, BeginMoves, UserMoveTyped DEF AskUpdate
<1>6. ASSUME CheckSeats(r) \/ CheckAddress(r) PROVE UsersTyped'
  <2>1. call[r] \in AskedUser
    BY <1>1, <1>6, GoMoves DEF UserShape, CheckSeats, CheckAddress
  <2>2. \A to \in {"email", "enroll", "lost"} : ChangeTyped(At(r, to))
    BY <2>1 DEF AskedUser, At, ChangeTyped
  <2>3. ChangeTyped([At(r, "email") EXCEPT !.checked = FALSE])
    BY <2>1 DEF AskedUser, At, ChangeTyped
  <2>4. PICK q : ChangeTyped(q) /\ \E pc : Go(r, pc, q)
    BY <1>6, <2>2, <2>3 DEF CheckSeats, CheckAddress, Pass
  <2> QED BY <1>1, <1>3, <1>6, <2>4, GoMoves, UserMoveTyped DEF CheckSeats, CheckAddress
<1>7. ASSUME InsertUser(r) \/ UpdateUser(r) PROVE UsersTyped'
  <2>1. Moves(r, Over)
    BY <1>1, <1>7, GoMoves DEF InsertUser, UpdateUser
  <2>2. call[r].state \in {"active", "inactive"} /\ call[r].role \in Roles
    BY <1>1, <1>7 DEF InsertUser, UpdateUser, UserShape, AskedUser, UsersTyped, ChangeTyped
  <2>3. UserRowsTyped'
    BY <1>7, <2>2 DEF InsertUser, UpdateUser, UsersTyped, UserRowsTyped, MemberRow
  <2> QED BY <1>2, <2>1, <2>3, UserMoveTyped
<1>8. ASSUME NEW u \in Members, AskDelete(r, u) PROVE UsersTyped'
  <2>1. PICK q : q = [pc |-> "count", user |-> u]
    OBVIOUS
  <2>2. Begin(r, q) /\ ChangeTyped(q)
    BY <1>8, <2>1 DEF AskDelete, ChangeTyped
  <2> QED BY <1>1, <1>3, <1>8, <2>2, BeginMoves, UserMoveTyped DEF AskDelete
<1>9. ASSUME CountWork(r) PROVE UsersTyped'
  <2>1. \A to \in {"delete", "bare"} : Pass(r, "count", to) => ChangeTyped(At(r, to))
    BY <1>1, GoMoves DEF Pass, UserShape, At, ChangeTyped
  <2>2. PICK to \in {"delete", "bare"} : Pass(r, "count", to)
    BY <1>9 DEF CountWork
  <2>3. Moves(r, At(r, to)) /\ ChangeTyped(At(r, to))
    BY <1>1, <2>1, <2>2, GoMoves DEF Pass
  <2> QED BY <1>3, <1>9, <2>3, UserMoveTyped DEF CountWork
<1>10. ASSUME DeleteUser(r) PROVE UsersTyped'
  <2>1. Moves(r, Over)
    BY <1>1, <1>10, GoMoves DEF DeleteUser
  <2>2. NoMember \in MemberRow /\ \A x \in MemberRow : [x EXCEPT !.state = "inactive"] \in MemberRow
    BY DEF NoMember, MemberRow
  <2>3. PICK S : S = MemberRow
    OBVIOUS
  <2>4. member' \in [Members -> S] /\ role' = role
    BY <1>10, <2>2, <2>3 DEF DeleteUser, UsersTyped, UserRowsTyped
  <2>5. UserRowsTyped'
    BY <2>3, <2>4 DEF UsersTyped, UserRowsTyped, MemberRow
  <2> QED BY <1>2, <2>1, <2>5, UserMoveTyped
<1>11. ASSUME NEW n \in Roles, AskRemoveRole(r, n) PROVE UsersTyped'
  <2>1. PICK q : q = [pc |-> "drop", role |-> n]
    OBVIOUS
  <2>2. Begin(r, q) /\ ChangeTyped(q)
    BY <1>11, <2>1 DEF AskRemoveRole, ChangeTyped
  <2> QED BY <1>1, <1>3, <1>11, <2>2, BeginMoves, UserMoveTyped DEF AskRemoveRole
<1>12. ASSUME NEW n \in Roles, NEW k \in {"custom", "system"}, CreateRole(r, n, k) PROVE UsersTyped'
  <2>1. Moves(r, Over)
    BY <1>1, <1>12, BeginMoves DEF CreateRole
  <2>2. UserRowsTyped'
    BY <1>12 DEF CreateRole, UsersTyped, UserRowsTyped
  <2> QED BY <1>2, <2>1, <2>2, UserMoveTyped
<1>13. ASSUME RemoveRole(r) PROVE UsersTyped'
  <2>1. Moves(r, Over)
    BY <1>1, <1>13, GoMoves DEF RemoveRole
  <2>2. UserRowsTyped'
    BY <1>13 DEF RemoveRole, UsersTyped, UserRowsTyped
  <2> QED BY <1>2, <2>1, <2>2, UserMoveTyped
<1>14. ASSUME NEW x \in Admins, AskRemove(r, x) PROVE UsersTyped'
  <2>1. PICK q : q = [pc |-> "remove", admin |-> x, kind |-> admin[x].kind]
    OBVIOUS
  <2>2. Begin(r, q) /\ ChangeTyped(q)
    BY <1>14, <2>1 DEF AskRemove, ChangeTyped
  <2> QED BY <1>1, <1>3, <1>14, <2>2, BeginMoves, UserMoveTyped DEF AskRemove
<1>15. ASSUME NEW x \in Admins, NEW a \in AdminValues, CreateAdmin(r, x, a) \/ AskEdit(r, x, a)
       PROVE  UsersTyped'
  <2>1. PICK q : q = [pc |-> "edit", admin |-> x, to |-> a]
    OBVIOUS
  <2>2. ChangeTyped(q) /\ (Begin(r, q) \/ Begin(r, Over))
    BY <1>15, <2>1 DEF CreateAdmin, AskEdit, ChangeTyped
  <2>3. UserRowsTyped'
    BY <1>15 DEF CreateAdmin, AskEdit, uvars, UsersTyped, UserRowsTyped
  <2> QED BY <1>1, <1>2, <2>2, <2>3, BeginMoves, UserMoveTyped
<1>16. ASSUME EditAdmin(r) \/ RemoveAdmin(r) PROVE UsersTyped'
  <2>1. Moves(r, Over)
    BY <1>1, <1>16, GoMoves DEF EditAdmin, RemoveAdmin
  <2>2. UserRowsTyped'
    BY <1>16 DEF EditAdmin, RemoveAdmin, UsersTyped, UserRowsTyped
  <2> QED BY <1>2, <2>1, <2>2, UserMoveTyped
<1>17. ASSUME CountAdmins(r) PROVE UsersTyped'
  <2>1. call[r] \in AskedRemoval
    BY <1>1, <1>17 DEF CountAdmins, UserShape
  <2>2. Moves(r, At(r, "leave")) /\ ChangeTyped(At(r, "leave"))
    BY <1>1, <1>17, <2>1, GoMoves DEF CountAdmins, Pass, AskedRemoval, At, ChangeTyped
  <2> QED BY <1>3, <1>17, <2>2, UserMoveTyped DEF CountAdmins
<1>18. ASSUME Lose(r), UNCHANGED uvars PROVE UsersTyped'
  BY <1>1, <1>2, <1>3, <1>18, LoseMoves, UserMoveTyped
<1> QED BY <1>4, <1>5, <1>6, <1>7, <1>8, <1>9, <1>10, <1>11, <1>12, <1>13, <1>14, <1>15, <1>16,
           <1>17, <1>18 DEF UserStep

\* The types hold at first.
LEMMA UsersTypedAtFirst == RequestsInit /\ UsersInit => UsersTyped
BY DEF RequestsInit, UsersInit, Unasked, NoMember, UsersTyped, UserRowsTyped, MemberRow, ChangeTyped

\* Every step keeps them.
LEMMA UsersTypedStays == UsersInv /\ UsersTyped /\ [UsersNext]_<<rvars, uvars>> => UsersTyped'
<1>1. UsersTyped /\ UNCHANGED <<rvars, uvars>> => UsersTyped'
  BY DEF rvars, uvars, UsersTyped, UserRowsTyped, ChangeTyped
<1> QED BY <1>1, UserStepTyped DEF UsersNext

\* The invariants make the type invariant.
LEMMA UsersTypes == UsersInv /\ UsersTyped => UsersTypeOK
BY DEF UsersInv, UserRows, UserShape, UsersTyped, UserRowsTyped, MemberRow, UsersTypeOK

-----------------------------------------------------------------------------
(* CategoryService *)

CategoryRow == [parent: CategoryIds \cup {"none"}, name: Names \cup {"none"}, active: BOOLEAN]

CatRowsTyped == cat \in [CategoryIds -> CategoryRow]

\* What a creation, or an update, is to write.
CatTyped(q) ==
    /\ q.pc \in {"name", "insert"} => q.parent \in CategoryIds \cup {"none"} /\ q.name \in Names
    /\ q.pc \in {"climb", "rename", "rewrite"} =>
          /\ q.parent \in CategoryIds \cup {"none", "keep"}
          /\ q.name \in Names \cup {"keep"}

CatsTyped == CatRowsTyped /\ \A r \in Requests : CatTyped(call[r])

\* A request that moves to a well-typed record.
LEMMA CatMoveTyped ==
    ASSUME CatsTyped, NEW r \in Requests, NEW q, Moves(r, q), CatTyped(q), CatRowsTyped'
    PROVE  CatsTyped'
<1>1. ASSUME NEW s \in Requests PROVE CatTyped(call[s])'
  <2>1. CASE s = r
    BY <2>1 DEF Moves, CatTyped
  <2>2. CASE s # r
    BY <2>2 DEF Moves, CatsTyped, CatTyped
  <2> QED BY <2>1, <2>2
<1> QED BY <1>1 DEF CatsTyped

\* A request that goes on keeps what it is to write.
LEMMA CatPassTyped ==
    ASSUME CatInv, CatsTyped, NEW r \in Requests, NEW from, NEW to,
           \/ from = "name" /\ to = "insert"
           \/ from \in {"climb", "rename"} /\ to \in {"rename", "rewrite"},
           Go(r, from, At(r, to)), UNCHANGED cat
    PROVE  CatsTyped'
<1>1. Kept /\ CatShape(call[r]) /\ CatTyped(call[r])
  BY DEF CatInv, CatsTyped
<1>2. Moves(r, At(r, to)) /\ call[r].pc = from
  BY <1>1, GoMoves
<1>3. CatTyped(At(r, to))
  <2>1. CASE from = "name"
    BY <1>1, <1>2, <2>1 DEF CatShape, CatTyped, At
  <2>2. CASE from \in {"climb", "rename"}
    BY <1>1, <1>2, <2>2 DEF CatShape, CatTyped, At
  <2> QED BY <2>1, <2>2
<1>4. CatRowsTyped'
  BY DEF CatsTyped, CatRowsTyped
<1> QED BY <1>2, <1>3, <1>4, CatMoveTyped

\* Every step of the service keeps the types.
LEMMA CatStepTyped ==
    ASSUME CatInv, CatsTyped, NEW r \in Requests, CatStep(r)
    PROVE  CatsTyped'
<1>1. Kept /\ CatShape(call[r]) /\ CatTyped(call[r])
  BY DEF CatInv, CatsTyped
<1>2. CatTyped(Over) /\ CatTyped([pc |-> "lost"])
  BY DEF CatTyped, Over
<1>3. UNCHANGED cat => CatRowsTyped'
  BY DEF CatsTyped, CatRowsTyped
<1>4. ASSUME NEW c \in CategoryIds, NEW p \in CategoryIds \cup {"none"}, NEW n \in Names,
             CreateCategory(r, c, p, n)
      PROVE  CatsTyped'
  <2>1. PICK q : q = [pc |-> "name", cat |-> c, parent |-> p, name |-> n]
    OBVIOUS
  <2>2. Begin(r, q) /\ CatTyped(q)
    BY <1>4, <2>1 DEF CreateCategory, CatTyped
  <2> QED BY <1>1, <1>3, <1>4, <2>2, BeginMoves, CatMoveTyped DEF CreateCategory
<1>5. ASSUME NEW c \in CategoryIds, NEW p \in CategoryIds \cup {"none", "keep"},
             NEW n \in Names \cup {"keep"}, UpdateCategory(r, c, p, n)
      PROVE  CatsTyped'
  <2>1. PICK q : q = [pc |-> IF p \in CategoryIds THEN "climb" ELSE "rename",
                      cat |-> c, parent |-> p, name |-> n, at |-> c, was |-> cat[c]]
    OBVIOUS
  <2>2. Begin(r, q) /\ CatTyped(q)
    BY <1>5, <2>1 DEF UpdateCategory, CatTyped
  <2> QED BY <1>1, <1>3, <1>5, <2>2, BeginMoves, CatMoveTyped DEF UpdateCategory
<1>6. ASSUME LookForName(r) PROVE CatsTyped'
  BY <1>6, CatPassTyped DEF LookForName, Pass
<1>7. ASSUME CheckName(r) PROVE CatsTyped'
  BY <1>7, CatPassTyped DEF CheckName, Pass
<1>8. ASSUME Climb(r) PROVE CatsTyped'
  <2>1. CASE Go(r, "climb", At(r, "rename"))
    BY <1>8, <2>1, CatPassTyped DEF Climb
  <2>2. CASE \E up : Go(r, "climb", [call[r] EXCEPT !.at = up])
    <3>1. PICK up : Go(r, "climb", [call[r] EXCEPT !.at = up])
      BY <2>2
    <3>2. PICK q : q = [call[r] EXCEPT !.at = up]
      OBVIOUS
    <3>3. CatTyped(q) /\ Moves(r, q)
      BY <1>1, <3>1, <3>2, GoMoves DEF CatShape, CatTyped
    <3> QED BY <1>3, <1>8, <3>3, CatMoveTyped DEF Climb
  <2> QED BY <1>8, <2>1, <2>2 DEF Climb
<1>9. ASSUME InsertCategory(r) PROVE CatsTyped'
  <2>1. Moves(r, Over)
    BY <1>1, <1>9, GoMoves DEF InsertCategory
  <2>2. PICK S : S = CategoryRow
    OBVIOUS
  <2>3. \A active \in BOOLEAN :
            [parent |-> call[r].parent, name |-> call[r].name, active |-> active] \in S
    BY <1>1, <1>9, <2>2 DEF InsertCategory, CatTyped, CategoryRow
  <2>4. cat' \in [CategoryIds -> S]
    BY <1>9, <2>2, <2>3 DEF InsertCategory, CatsTyped, CatRowsTyped
  <2> QED BY <1>2, <2>1, <2>2, <2>4, CatMoveTyped DEF CatRowsTyped
<1>10. ASSUME WriteCategory(r) PROVE CatsTyped'
  <2>1. Moves(r, Over)
    BY <1>1, <1>10, GoMoves DEF WriteCategory
  <2>2. PICK S : S = CategoryRow
    OBVIOUS
  <2>3. \A x \in S, active \in BOOLEAN :
            [parent |-> IF call[r].parent = "keep" THEN x.parent ELSE call[r].parent,
             name   |-> IF call[r].name = "keep" THEN x.name ELSE call[r].name,
             active |-> active] \in S
    BY <1>1, <1>10, <2>2 DEF WriteCategory, CatTyped, CategoryRow
  <2>4. call[r].cat \in CategoryIds /\ cat \in [CategoryIds -> S]
    BY <1>1, <1>10, <2>2 DEF WriteCategory, CatShape, CatsTyped, CatRowsTyped
  <2>5. cat' \in [CategoryIds -> S]
    BY <1>10, <2>3, <2>4 DEF WriteCategory
  <2> QED BY <1>2, <2>1, <2>2, <2>5, CatMoveTyped DEF CatRowsTyped
<1>11. ASSUME NEW c \in CategoryIds, SoftDelete(r, c) PROVE CatsTyped'
  <2>1. PICK q : q = [pc |-> "hide", cat |-> c]
    OBVIOUS
  <2>2. Begin(r, q) /\ CatTyped(q)
    BY <1>11, <2>1 DEF SoftDelete, CatTyped
  <2> QED BY <1>1, <1>3, <1>11, <2>2, BeginMoves, CatMoveTyped DEF SoftDelete
<1>12. ASSUME HideCategory(r) \/ \E c \in CategoryIds : Activate(r, c) PROVE CatsTyped'
  <2>1. Moves(r, Over)
    BY <1>1, <1>12, BeginMoves, GoMoves DEF HideCategory, Activate
  <2>2. PICK S : S = CategoryRow
    OBVIOUS
  <2>3. \A x \in S, active \in BOOLEAN : [x EXCEPT !.active = active] \in S
    BY <2>2 DEF CategoryRow
  <2>4. \E c : \E active \in BOOLEAN : cat' = [cat EXCEPT ![c].active = active]
    BY <1>12, Zenon DEF HideCategory, Activate
  <2>5. cat' \in [CategoryIds -> S]
    <3>1. PICK c : \E active \in BOOLEAN : cat' = [cat EXCEPT ![c].active = active]
      BY <2>4
    <3>2. PICK active \in BOOLEAN : cat' = [cat EXCEPT ![c].active = active]
      BY <3>1
    <3> QED BY <2>2, <2>3, <3>2 DEF CatsTyped, CatRowsTyped
  <2> QED BY <1>2, <2>1, <2>2, <2>5, CatMoveTyped DEF CatRowsTyped
<1>13. ASSUME Lose(r), UNCHANGED cat PROVE CatsTyped'
  BY <1>1, <1>2, <1>3, <1>13, LoseMoves, CatMoveTyped
<1> QED BY <1>4, <1>5, <1>6, <1>7, <1>8, <1>9, <1>10, <1>11, <1>12, <1>13 DEF CatStep

\* The types hold at first.
LEMMA CatsTypedAtFirst == RequestsInit /\ CatsInit => CatsTyped
<1> SUFFICES ASSUME RequestsInit, CatsInit PROVE CatsTyped
  OBVIOUS
<1>1. \A r \in Requests : CatTyped(call[r])
  BY DEF RequestsInit, Unasked, CatTyped
<1>2. PICK S, T :
         /\ S = [parent: CategoryIds \cup {"none"}, name: Names, active: {TRUE}] \cup {NoCategory}
         /\ T = CategoryRow
  OBVIOUS
<1>3. S \subseteq T
  <2>1. NoCategory \in T
    BY <1>2 DEF NoCategory, CategoryRow
  <2>2. \A x \in [parent: CategoryIds \cup {"none"}, name: Names, active: {TRUE}] : x \in T
    BY <1>2 DEF CategoryRow
  <2> QED BY <1>2, <2>1, <2>2
<1>4. cat \in [CategoryIds -> S]
  BY <1>2 DEF CatsInit
<1>5. cat \in [CategoryIds -> T]
  BY <1>3, <1>4
<1> QED BY <1>1, <1>2, <1>5 DEF CatsTyped, CatRowsTyped

\* Every step keeps them.
LEMMA CatsTypedStays == CatInv /\ CatsTyped /\ [CatsNext]_<<rvars, kvars>> => CatsTyped'
<1>1. CatsTyped /\ UNCHANGED <<rvars, kvars>> => CatsTyped'
  BY DEF rvars, kvars, CatsTyped, CatRowsTyped, CatTyped
<1> QED BY <1>1, CatStepTyped DEF CatsNext

\* The invariants make the type invariant.
LEMMA CatsTypes == CatInv /\ CatsTyped => CatsTypeOK
BY DEF CatInv, CatShape, CatsTyped, CatRowsTyped, CategoryRow, CatsTypeOK

-----------------------------------------------------------------------------
(* CustomerService *)

\* The counts are numbers.
HistoryTyped == history \in [People -> [became: Nat, noted: Nat, announced: Nat]]

\* A customer's counts, and those after one more step of a conversion.
StepOfCounts(h) == {[h EXCEPT !.became = @], [h EXCEPT !.became = @ + 1],
                    [h EXCEPT !.noted = @ + 1], [h EXCEPT !.announced = @ + 1]}

\* There are none at first.
LEMMA HistoryTypedAtFirst == CustomersInit => HistoryTyped
BY DEF CustomersInit, HistoryTyped

\* A step of a conversion counts one more, of one customer; every other step counts nothing.
LEMMA HistoryTypedStays == HistoryTyped /\ [CustomersNext]_<<rvars, cuvars>> => HistoryTyped'
<1> SUFFICES ASSUME HistoryTyped, [CustomersNext]_<<rvars, cuvars>> PROVE HistoryTyped'
  OBVIOUS
<1>1. ASSUME UNCHANGED history PROVE HistoryTyped'
  BY <1>1 DEF HistoryTyped
<1>2. ASSUME NEW r \in Requests, TurnLead(r) \/ NoteConversion(r) \/ AnnounceConversion(r)
      PROVE  HistoryTyped'
  <2>1. PICK S : S = [became: Nat, noted: Nat, announced: Nat]
    OBVIOUS
  <2>2. \A h \in S : StepOfCounts(h) \subseteq S
    BY <2>1 DEF StepOfCounts
  <2>3. \E c, v : v \in StepOfCounts(history[c]) /\ history' = [history EXCEPT ![c] = v]
    <3>1. CASE TurnLead(r)
      BY <3>1, Zenon DEF TurnLead, StepOfCounts
    <3>2. CASE NoteConversion(r)
      BY <3>2, Zenon DEF NoteConversion, StepOfCounts
    <3>3. CASE AnnounceConversion(r)
      BY <3>3, Zenon DEF AnnounceConversion, StepOfCounts
    <3> QED BY <1>2, <3>1, <3>2, <3>3
  <2>4. history \in [People -> S]
    BY <2>1 DEF HistoryTyped
  <2>5. history' \in [People -> S]
    BY <2>2, <2>3, <2>4
  <2> QED BY <2>1, <2>5 DEF HistoryTyped
<1>3. ASSUME NEW r \in Requests, CustomerStep(r) PROVE HistoryTyped'
  BY <1>1, <1>2, <1>3
     DEF CustomerStep, CreateCustomer, UpdateCustomer, AskDeleteCustomer, AskConvert, LookForMail,
         WriteCustomer, DeleteCustomer, cuvars
<1> QED BY <1>1, <1>3 DEF CustomersNext, cuvars

\* The invariants make the type invariant.
LEMMA CustomersTypes == CustomersInv /\ HistoryTyped => CustomersTypeOK
BY DEF CustomersInv, CustomerCalls, CustomerCall, TurnCall, TurnSteps, Unasked, Over, CustomerRow,
       HistoryTyped, CustomersTypeOK, CustomerSteps

-----------------------------------------------------------------------------
(* TransactionService *)

EntryRow == [status: {"none", "completed", "cancelled", "gone"}, number: Nat]

EntryRowsTyped == entry \in [Requests -> EntryRow] /\ edited \subseteq Requests

\* The number that a creation is to write.
BookTyped(q) == q.pc \in EntrySteps /\ (q.pc = "book" => q.number \in Nat)

EntriesTyped == EntryRowsTyped /\ \A r \in Requests : BookTyped(call[r])

\* There are finitely many rows, so one has the highest number and the next is a number.
LEMMA NextEntryNumberTyped ==
    ASSUME EntryRowsTyped
    PROVE  NextEntryNumber \in Nat
<1>1. PICK S : S = {0} \cup {entry[s].number : s \in LiveEntries}
  OBVIOUS
<1>2. LiveEntries \subseteq Requests /\ \A s \in LiveEntries : entry[s].number \in Nat
  BY DEF LiveEntries, EntryRowsTyped, EntryRow
<1>3. S \in SUBSET Nat /\ S # {}
  BY <1>1, <1>2
<1>4. IsFiniteSet(S)
  <2>1. IsFiniteSet(LiveEntries)
    BY <1>2, MonthlyAssumption, FS_Subset
  <2>2. IsFiniteSet({entry[s].number : s \in LiveEntries})
    <3>1. PICK T, f : /\ T = {entry[s].number : s \in LiveEntries}
                      /\ f = [s \in LiveEntries |-> entry[s].number]
      OBVIOUS
    <3>2. f \in Surjection(LiveEntries, T)
      BY <3>1 DEF Surjection
    <3> QED BY <2>1, <3>1, <3>2, FS_Surjection
  <2>3. IsFiniteSet({0})
    BY FS_Singleton
  <2> QED BY <1>1, <2>2, <2>3, FS_Union
<1>5. Max(S) \in S
  BY <1>3, <1>4, MaxOfNumbers
<1> QED BY <1>1, <1>3, <1>5 DEF NextEntryNumber

\* A request that moves to a well-typed record.
LEMMA EntryMoveTyped ==
    ASSUME EntriesTyped, NEW r \in Requests, NEW q, Moves(r, q), BookTyped(q), EntryRowsTyped'
    PROVE  EntriesTyped'
<1>1. ASSUME NEW s \in Requests PROVE BookTyped(call[s])'
  <2>1. CASE s = r
    BY <2>1 DEF Moves, BookTyped
  <2>2. CASE s # r
    BY <2>2 DEF Moves, EntriesTyped, BookTyped
  <2> QED BY <2>1, <2>2
<1> QED BY <1>1 DEF EntriesTyped

\* Every step of the service keeps the types.
LEMMA EntryStepTyped ==
    ASSUME EntriesInv, EntriesTyped, NEW r \in Requests, EntryStep(r)
    PROVE  EntriesTyped'
<1>1. Kept /\ BookTyped(call[r]) /\ EntryRowsTyped
  BY DEF EntriesInv, EntriesTyped
<1>2. BookTyped(Over) /\ BookTyped([pc |-> "lost"])
  BY DEF BookTyped, Over, EntrySteps
<1>3. UNCHANGED bvars => EntryRowsTyped'
  BY DEF bvars, EntriesTyped, EntryRowsTyped
<1>4. ASSUME RecordEntry(r) PROVE EntriesTyped'
  <2>1. PICK q : q = [pc |-> "number"]
    OBVIOUS
  <2>2. Begin(r, q) /\ BookTyped(q)
    BY <1>4, <2>1 DEF RecordEntry, BookTyped, EntrySteps
  <2> QED BY <1>1, <1>3, <1>4, <2>2, BeginMoves, EntryMoveTyped DEF RecordEntry
<1>5. ASSUME NumberEntry(r) PROVE EntriesTyped'
  <2>1. PICK q : q = [pc |-> "book", number |-> NextEntryNumber]
    OBVIOUS
  <2>2. Go(r, "number", q) /\ BookTyped(q)
    BY <1>1, <1>5, <2>1, NextEntryNumberTyped DEF NumberEntry, BookTyped, EntrySteps
  <2> QED BY <1>1, <1>3, <1>5, <2>2, GoMoves, EntryMoveTyped DEF NumberEntry
<1>6. ASSUME NEW s \in Requests, FindEntry(r, s) PROVE EntriesTyped'
  <2>1. PICK pc \in {"write", "cancel", "delete"} : Begin(r, [pc |-> pc, row |-> s])
    BY <1>6 DEF FindEntry
  <2>2. BookTyped([pc |-> pc, row |-> s])
    BY DEF BookTyped, EntrySteps
  <2> QED BY <1>1, <1>3, <1>6, <2>1, <2>2, BeginMoves, EntryMoveTyped DEF FindEntry
<1>7. ASSUME InsertEntry(r) \/ WriteEntry(r) \/ CancelEntry(r) \/ DeleteEntry(r) PROVE EntriesTyped'
  <2>1. Moves(r, Over)
    BY <1>1, <1>7, GoMoves DEF InsertEntry, WriteEntry, CancelEntry, DeleteEntry
  <2>2. PICK S : S = EntryRow
    OBVIOUS
  <2>3. \A h \in S : \A status \in {"cancelled", "gone"} : [h EXCEPT !.status = status] \in S
    BY <2>2 DEF EntryRow
  <2>4. entry \in [Requests -> S]
    BY <1>1, <2>2 DEF EntryRowsTyped
  <2>5. CASE InsertEntry(r)
    <3>1. [status |-> "completed", number |-> call[r].number] \in S
      BY <1>1, <2>2, <2>5 DEF InsertEntry, BookTyped, EntryRow
    <3>2. entry' \in [Requests -> S] /\ edited' = edited
      BY <2>4, <2>5, <3>1 DEF InsertEntry
    <3> QED BY <1>1, <1>2, <2>1, <2>2, <3>2, EntryMoveTyped DEF EntryRowsTyped
  <2>6. CASE WriteEntry(r)
    <3>1. EntryRowsTyped'
      BY <1>1, <2>6 DEF WriteEntry, EntryRowsTyped, LiveEntries
    <3> QED BY <1>2, <2>1, <3>1, EntryMoveTyped
  <2>7. CASE CancelEntry(r)
    <3>1. entry' \in [Requests -> S] /\ edited' = edited
      BY <2>3, <2>4, <2>7 DEF CancelEntry
    <3> QED BY <1>1, <1>2, <2>1, <2>2, <3>1, EntryMoveTyped DEF EntryRowsTyped
  <2>8. CASE DeleteEntry(r)
    <3>1. entry' \in [Requests -> S] /\ edited' = edited
      BY <2>3, <2>4, <2>8 DEF DeleteEntry
    <3> QED BY <1>1, <1>2, <2>1, <2>2, <3>1, EntryMoveTyped DEF EntryRowsTyped
  <2> QED BY <1>7, <2>5, <2>6, <2>7, <2>8
<1>8. ASSUME Lose(r), UNCHANGED bvars PROVE EntriesTyped'
  BY <1>1, <1>2, <1>3, <1>8, LoseMoves, EntryMoveTyped
<1> QED BY <1>4, <1>5, <1>6, <1>7, <1>8 DEF EntryStep

\* The types hold at first.
LEMMA EntriesTypedAtFirst == RequestsInit /\ EntriesInit => EntriesTyped
<1> SUFFICES ASSUME RequestsInit, EntriesInit PROVE EntriesTyped
  OBVIOUS
<1>1. \A r \in Requests : BookTyped(call[r])
  BY DEF RequestsInit, Unasked, BookTyped, EntrySteps
<1>2. EntryRowsTyped
  BY DEF EntriesInit, NoEntry, EntryRowsTyped, EntryRow
<1> QED BY <1>1, <1>2 DEF EntriesTyped

\* Every step keeps them.
LEMMA EntriesTypedStays == EntriesInv /\ EntriesTyped /\ [EntriesNext]_<<rvars, bvars>> => EntriesTyped'
<1>1. EntriesTyped /\ UNCHANGED <<rvars, bvars>> => EntriesTyped'
  BY DEF rvars, bvars, EntriesTyped, EntryRowsTyped, BookTyped
<1> QED BY <1>1, EntryStepTyped DEF EntriesNext

\* They make the type invariant.
LEMMA EntriesTypes == EntriesTyped => EntriesTypeOK
BY DEF EntriesTyped, EntryRowsTyped, EntryRow, BookTyped, EntriesTypeOK

-----------------------------------------------------------------------------
(* The services whose invariants contain the types *)

\* Clients, the map of them, and the steps of who asks for one.
LEMMA ClientsTypes == ClientsInv => ClientsTypeOK
<1>1. \A q \in {Unasked} \cup ClientCall : q.pc \in ClientSteps
  BY DEF Unasked, ClientCall, ClientSteps
<1>2. PICK S : S = {Unasked} \cup ClientCall
  OBVIOUS
<1> QED BY <1>1, <1>2 DEF ClientsInv, ClientsTypeOK

\* Accounts, sessions, and the steps of logins, refreshes and logouts.
LEMMA LoginsTypes == LoginsInv => LoginsTypeOK
<1>1. \A q \in LoginCalls : q.pc \in LoginSteps
  BY DEF LoginCalls, LoginCall, Unasked, LoginSteps
<1> QED BY <1>1 DEF LoginsInv, LoginsTypeOK

\* Bank accounts and contacts, and the steps of who writes them.
LEMMA AccountsTypes == AccountsInv => AccountsTypeOK
<1>1. \A q \in AccountCalls : q.pc \in AccountSteps
  <2>1. \A q \in NewBank \cup OldBank : q.pc \in AccountSteps
    BY DEF NewBank, OldBank, AccountSteps
  <2>2. \A q \in ForContact : q.pc \in AccountSteps
    BY DEF ForContact, AccountSteps
  <2>3. \A q \in SwapCall : q.pc \in AccountSteps
    BY DEF SwapCall, AccountSteps
  <2>4. \A q \in AccountCalls \ (NewBank \cup OldBank \cup ForContact \cup SwapCall) :
           q.pc \in AccountSteps
    BY DEF AccountCalls, AccountCall, Unasked, Over, AccountSteps
  <2> QED BY <2>1, <2>2, <2>3, <2>4
<1> QED BY <1>1 DEF AccountsInv, RowsSound, RowShape, AccountsTypeOK

\* Messages, and the steps of who sends or marks them.
LEMMA MessagesTypes == MessageInv => MessagesTypeOK
BY DEF MessageInv, MessageShape, MessageRow, MessagesTypeOK

\* The settings, and the steps of who reads or writes them.
LEMMA SettingsTypes == SettingsInv => SettingsTypeOK
<1>1. \A q \in SettingsCalls : q.pc \in SettingsSteps
  BY DEF SettingsCalls, Unasked, Over, SettingsSteps
<1> QED BY <1>1 DEF SettingsInv, SettingsTypeOK

\* The plan, its prices and the rows billed, and the steps of who changes them.
LEMMA BillingTypes == BillInv => SubsTypeOK
<1>1. PICK S : S = BillingRow
  OBVIOUS
<1>2. BillInv => billed \in Seq(S) /\ \A i \in DOMAIN billed : billed[i] \in S
  BY <1>1 DEF BillInv
<1> QED BY <1>1, <1>2 DEF BillInv, BillShape, BillingRow, SubsTypeOK

-----------------------------------------------------------------------------
(* All of them *)

\* What is known of the service that is looked at.
ServicesInv ==
    /\ focus \in ServiceNames
    /\ focus = "clients" => ClientsInv
    /\ focus = "logins" => LoginsInv
    /\ focus = "plan" => PlanInv /\ PlanTyped
    /\ focus = "users" => UsersInv /\ UsersTyped
    /\ focus = "categories" => CatInv /\ CatsTyped
    /\ focus = "stock" => StockInv /\ RangeInv
    /\ focus = "accounts" => AccountsInv
    /\ focus = "customers" => CustomersInv /\ HistoryTyped
    /\ focus = "messages" => MessageInv
    /\ focus = "entries" => EntriesInv /\ EntriesTyped
    /\ focus = "settings" => SettingsInv
    /\ focus = "billing" => BillInv

\* A step is a step of the service that is looked at, or nothing happens to it.
LEMMA ServiceSteps ==
    ASSUME [ServicesNext]_<<rvars, cvars, lvars, mvars, uvars, kvars, ivars, avars,
                            cuvars, gvars, bvars, svars, pvars, focus>>
    PROVE  /\ focus' = focus
           /\ focus = "clients" => [ClientsNext]_<<rvars, cvars>>
           /\ focus = "logins" => [LoginsNext]_<<rvars, lvars>>
           /\ focus = "plan" => [PlanNext]_<<rvars, mvars>>
           /\ focus = "users" => [UsersNext]_<<rvars, uvars>>
           /\ focus = "categories" => [CatsNext]_<<rvars, kvars>>
           /\ focus = "stock" => [StockNext]_<<rvars, ivars>>
           /\ focus = "accounts" => [AccountsNext]_<<rvars, avars>>
           /\ focus = "customers" => [CustomersNext]_<<rvars, cuvars>>
           /\ focus = "messages" => [MessagesNext]_<<rvars, gvars>>
           /\ focus = "entries" => [EntriesNext]_<<rvars, bvars>>
           /\ focus = "settings" => [SettingsNext]_<<rvars, svars>>
           /\ focus = "billing" => [BillingNext]_<<rvars, pvars>>
<1>1. CASE UNCHANGED <<rvars, cvars, lvars, mvars, uvars, kvars, ivars, avars,
                       cuvars, gvars, bvars, svars, pvars, focus>>
  BY <1>1
<1>2. CASE ServicesNext
  <2>0. focus' = focus
    BY <1>2 DEF ServicesNext
  <2>1. focus = "clients" => ClientsNext
    BY <1>2 DEF ServicesNext
  <2>2. focus = "logins" => LoginsNext
    BY <1>2 DEF ServicesNext
  <2>3. focus = "plan" => PlanNext
    BY <1>2 DEF ServicesNext
  <2>4. focus = "users" => UsersNext
    BY <1>2 DEF ServicesNext
  <2>5. focus = "categories" => CatsNext
    BY <1>2 DEF ServicesNext
  <2>6. focus = "stock" => StockNext
    BY <1>2 DEF ServicesNext
  <2>7. focus = "accounts" => AccountsNext
    BY <1>2 DEF ServicesNext
  <2>8. focus = "customers" => CustomersNext
    BY <1>2 DEF ServicesNext
  <2>9. focus = "messages" => MessagesNext
    BY <1>2 DEF ServicesNext
  <2>10. focus = "entries" => EntriesNext
    BY <1>2 DEF ServicesNext
  <2>11. focus = "settings" => SettingsNext
    BY <1>2 DEF ServicesNext
  <2>12. focus = "billing" => BillingNext
    BY <1>2 DEF ServicesNext
  <2> QED BY <2>0, <2>1, <2>2, <2>3, <2>4, <2>5, <2>6, <2>7, <2>8, <2>9, <2>10, <2>11, <2>12
<1> QED BY <1>1, <1>2

\* The invariant holds at first.
LEMMA ServicesInvAtFirst == ServicesStart => ServicesInv
<1> SUFFICES ASSUME ServicesStart PROVE ServicesInv
  OBVIOUS
<1>1. focus = "clients" => ClientsInv
  BY ClientsInvAtFirst DEF ServicesStart
<1>2. focus = "logins" => LoginsInv
  BY LoginsAtFirst DEF ServicesStart
<1>3. focus = "plan" => PlanInv /\ PlanTyped
  BY PlanInvAtFirst, PlanTypedAtFirst DEF ServicesStart
<1>4. focus = "users" => UsersInv /\ UsersTyped
  BY UsersInvAtFirst, UsersTypedAtFirst DEF ServicesStart
<1>5. focus = "categories" => CatInv /\ CatsTyped
  BY CatInvAtFirst, CatsTypedAtFirst DEF ServicesStart
<1>6. focus = "stock" => StockInv /\ RangeInv
  BY StockInvAtFirst, RangeInvAtFirst DEF ServicesStart
<1>7. focus = "accounts" => AccountsInv
  BY AccountsInvAtFirst DEF ServicesStart
<1>8. focus = "customers" => CustomersInv /\ HistoryTyped
  BY CustomersInvAtFirst, HistoryTypedAtFirst DEF ServicesStart
<1>9. focus = "messages" => MessageInv
  BY MessageInvAtFirst DEF ServicesStart
<1>10. focus = "entries" => EntriesInv /\ EntriesTyped
  BY EntriesInvAtFirst, EntriesTypedAtFirst DEF ServicesStart
<1>11. focus = "settings" => SettingsInv
  BY SettingsInvAtFirst DEF ServicesStart
<1>12. focus = "billing" => BillInv
  BY BillInvAtFirst DEF ServicesStart
<1> QED BY <1>1, <1>2, <1>3, <1>4, <1>5, <1>6, <1>7, <1>8, <1>9, <1>10, <1>11, <1>12
       DEF ServicesStart, ServicesInv

\* Every step keeps the invariant.
LEMMA ServicesInvStays ==
    ASSUME ServicesInv,
           [ServicesNext]_<<rvars, cvars, lvars, mvars, uvars, kvars, ivars, avars,
                            cuvars, gvars, bvars, svars, pvars, focus>>
    PROVE  ServicesInv'
<1>0. focus' = focus /\ focus \in ServiceNames
  BY ServiceSteps DEF ServicesInv
<1>1. focus = "clients" => ClientsInv'
  BY ServiceSteps, ClientsInvStays DEF ServicesInv
<1>2. focus = "logins" => LoginsInv'
  BY ServiceSteps, LoginsInvStays DEF ServicesInv
<1>3. focus = "plan" => PlanInv' /\ PlanTyped'
  BY ServiceSteps, PlanInvStays, PlanTypedStays DEF ServicesInv
<1>4. focus = "users" => UsersInv' /\ UsersTyped'
  BY ServiceSteps, UsersInvStays, UsersTypedStays DEF ServicesInv
<1>5. focus = "categories" => CatInv' /\ CatsTyped'
  BY ServiceSteps, CatInvStays, CatsTypedStays DEF ServicesInv
<1>6. focus = "stock" => StockInv' /\ RangeInv'
  BY ServiceSteps, StockInvStays, RangeInvStays DEF ServicesInv
<1>7. focus = "accounts" => AccountsInv'
  BY ServiceSteps, AccountsInvStays DEF ServicesInv
<1>8. focus = "customers" => CustomersInv' /\ HistoryTyped'
  BY ServiceSteps, CustomersInvStays, HistoryTypedStays DEF ServicesInv
<1>9. focus = "messages" => MessageInv'
  BY ServiceSteps, MessageInvStays DEF ServicesInv
<1>10. focus = "entries" => EntriesInv' /\ EntriesTyped'
  BY ServiceSteps, EntriesInvStays, EntriesTypedStays DEF ServicesInv
<1>11. focus = "settings" => SettingsInv'
  BY ServiceSteps, SettingsInvStays DEF ServicesInv
<1>12. focus = "billing" => BillInv'
  BY ServiceSteps, BillInvStays DEF ServicesInv
<1> QED BY <1>0, <1>1, <1>2, <1>3, <1>4, <1>5, <1>6, <1>7, <1>8, <1>9, <1>10, <1>11, <1>12
       DEF ServicesInv

\* Whichever service is looked at, for any rows and any number of requests: every row is what
\* the schema says and every request stands where its service has a step.
THEOREM ServicesStayTyped == ServicesSpec => []ServicesTypeOK
<1>1. ServicesInv => ServicesTypeOK
  <2> SUFFICES ASSUME ServicesInv PROVE ServicesTypeOK
    OBVIOUS
  <2>1. focus = "clients" => ClientsTypeOK
    BY ClientsTypes DEF ServicesInv
  <2>2. focus = "logins" => LoginsTypeOK
    BY LoginsTypes DEF ServicesInv
  <2>3. focus = "plan" => PlanTypeOK
    BY PlanTypes DEF ServicesInv
  <2>4. focus = "users" => UsersTypeOK
    BY UsersTypes DEF ServicesInv
  <2>5. focus = "categories" => CatsTypeOK
    BY CatsTypes DEF ServicesInv
  <2>6. focus = "stock" => StockTypeOK
    BY DEF ServicesInv, RangeInv
  <2>7. focus = "accounts" => AccountsTypeOK
    BY AccountsTypes DEF ServicesInv
  <2>8. focus = "customers" => CustomersTypeOK
    BY CustomersTypes DEF ServicesInv
  <2>9. focus = "messages" => MessagesTypeOK
    BY MessagesTypes DEF ServicesInv
  <2>10. focus = "entries" => EntriesTypeOK
    BY EntriesTypes DEF ServicesInv
  <2>11. focus = "settings" => SettingsTypeOK
    BY SettingsTypes DEF ServicesInv
  <2>12. focus = "billing" => SubsTypeOK
    BY BillingTypes DEF ServicesInv
  <2> QED BY <2>1, <2>2, <2>3, <2>4, <2>5, <2>6, <2>7, <2>8, <2>9, <2>10, <2>11, <2>12
         DEF ServicesInv, ServiceNames, ServicesTypeOK
<1> QED BY ServicesInvAtFirst, ServicesInvStays, <1>1, PTL DEF ServicesSpec
=============================================================================

---------------------------- MODULE RecordsProofs ----------------------------
(***************************************************************************)
(* Proofs about the services that keep a tenant's records, for any rows    *)
(* and number of requests. One kind says what they keep when requests come *)
(* one after the other and are cut off anywhere, no index of the database  *)
(* helping them; the other what a request does that nothing overlaps, in a *)
(* history that may be as bad as it likes. That only cancelled             *)
(* transactions are removed holds whatever overlaps.                       *)
(***************************************************************************)
EXTENDS PrimaryAccounts, Customers, Transactions, CompanySettings, Stock, Categories,
        MonthlyMessages, Subscriptions, RequestsProofs, FiniteSetTheorems,
        WellFoundedInduction

\* The highest number of a finite, non-empty set of numbers is one of them and above all: of
\* the sets of those that are higher than one of them, one contains no other.
LEMMA MaxOfNumbers ==
    ASSUME NEW S \in SUBSET Nat, IsFiniteSet(S), S # {}
    PROVE  Max(S) \in S /\ \A y \in S : Max(S) >= y
<1> DEFINE Higher(x) == {y \in S : y > x}
           W == {Higher(x) : x \in S}
<1>1. W \subseteq SUBSET S /\ W # {}
  OBVIOUS
<1>2. \E U \in W : \A V \in W : <<V, U>> \notin StrictSubsetOrdering(S)
  <2>1. FiniteSubsetsOf(S) = SUBSET S
    BY FS_FiniteSubsetsOfFinite
  <2>2. IsWellFoundedOn(StrictSubsetOrdering(S), SUBSET S)
    BY <2>1, FS_StrictSubsetOrderingWellFounded
  <2> HIDE DEF W
  <2> QED BY <1>1, <2>2, WFMin
<1>3. PICK x \in S : \A V \in W : <<V, Higher(x)>> \notin StrictSubsetOrdering(S)
  BY <1>2
<1>4. ASSUME NEW y \in S, y > x PROVE FALSE
  <2>1. \A z \in S : z \in Nat
    OBVIOUS
  <2>2. Higher(y) \subseteq Higher(x) /\ y \in Higher(x) /\ y \notin Higher(y)
    <3>1. \A z \in S : z > y => z > x
      BY <1>4, <2>1
    <3>2. ~(y > y)
      BY <2>1
    <3> QED BY <1>4, <3>1, <3>2
  <2>3. Higher(y) \in W /\ Higher(y) \in SUBSET S /\ Higher(x) \in SUBSET S
    OBVIOUS
  <2> HIDE DEF W, Higher
  <2> QED BY <1>3, <2>2, <2>3 DEF StrictSubsetOrdering
<1>5. \A y \in S : x >= y
  BY <1>4
<1> QED BY <1>5 DEF Max

-----------------------------------------------------------------------------
(* BankAccountService and CustomerContactService *)

Word      == {"yes", "no", "left out"}
ContactOwners == CustomerIds \cup {"none"}
RowShape  == [there: BOOLEAN, of: Owners \cup {"none"}, active: BOOLEAN, primary: BOOLEAN]
NewBank   == [pc: {"clear", "write"}, row: Banks, new: {TRUE}, primary: {"yes", "no"},
              active: Word, of: {"tenant"}, to: {"tenant"}]
OldBank   == [pc: {"clear", "write"}, row: Banks, new: {FALSE}, primary: Word,
              active: Word, of: {"tenant"}, to: {"left out"}]
ForContact == [pc: {"clear", "write"}, row: Contacts, new: BOOLEAN, primary: {"yes", "no"},
               active: Word, of: ContactOwners, to: CustomerIds \cup {"left out"}]
AccountCall == NewBank \cup OldBank \cup ForContact
SwapCall    == [pc: {"swap", "commit"}, row: Contacts, of: ContactOwners, to: {"left out"},
                found: SUBSET Entries]
AccountCalls == AccountCall \cup SwapCall \cup [pc: {"hide"}, row: Entries]
            \cup {Unasked, Over, [pc |-> "lost"]}

\* A bank account is the tenant's, and no contact is.
OwnersFit ==
    /\ \A x \in Banks : row[x].there => row[x].of = "tenant"
    /\ \A x \in Contacts : row[x].of \in ContactOwners

\* A request whose turn it is has cleared the other rows of the owner it has read before it makes
\* its own primary, or knows the rows it is going to clear.
AccountSound(q) ==
    /\ q.pc = "clear" => q.primary = "yes"
    /\ q.pc = "write" /\ q.primary = "yes" => \A y \in RowsFor(q.of) \ {q.row} : ~row[y].primary
    /\ q.pc = "commit" => q.found = Primaries(q.of)

RowsSound ==
    /\ row \in [Entries -> RowShape]
    /\ strays \subseteq Contacts
    /\ OwnersFit

AccountsInv ==
    /\ Kept /\ OneOpen
    /\ call \in [Requests -> AccountCalls]
    /\ RowsSound
    /\ OneByOne => \A r \in Requests : AccountSound(call[r])
    /\ OnePrimary

\* What a step of r has to leave: its record sound and one primary row, if its turn it is.
LEMMA AccountMoveKeeps ==
    ASSUME AccountsInv, NEW r \in Requests, NEW q \in AccountCalls,
           Kept', OneOpen', call'[r] = q,
           \A s \in Requests : s # r => call'[s] = call[s],
           OneByOne' => OneByOne /\ \A s \in Requests : s # r => ~Open(s)',
           RowsSound',
           OneByOne' => AccountSound(q)' /\ OnePrimary'
    PROVE  AccountsInv'
<1>1. call' \in [Requests -> AccountCalls]
  <2>1. \A s \in Requests : call'[s] \in AccountCalls
    BY DEF AccountsInv
  <2> QED BY <2>1 DEF Kept
<1>2. ASSUME OneByOne', NEW s \in Requests PROVE AccountSound(call[s])'
  <2>1. CASE s = r
    BY <1>2, <2>1 DEF AccountSound
  <2>2. CASE s # r
    <3>1. call'[s].pc \in {"idle", "done", "swallowed", "lost"}
      BY <1>2, <2>2 DEF Open
    <3> QED BY <3>1 DEF AccountSound
  <2> QED BY <2>1, <2>2
<1>3. OnePrimary'
  BY DEF OnePrimary
<1> QED BY <1>1, <1>2, <1>3 DEF AccountsInv

\* A request comes in and touches no row.
LEMMA AccountComesInKeeps ==
    ASSUME AccountsInv, NEW r \in Requests, NEW q \in AccountCalls, q.pc # "idle",
           Begin(r, q), UNCHANGED avars, OneByOne => AccountSound(q)
    PROVE  AccountsInv'
<1>1. /\ Kept' /\ OneOpen' /\ call'[r] = q
      /\ \A s \in Requests : s # r => call'[s] = call[s]
      /\ OneByOne' => OneByOne /\ \A s \in Requests : s # r => ~Open(s)'
  BY BeginLeaves DEF AccountsInv
<1>2. row' = row /\ strays' = strays
  BY DEF avars
<1>3. RowsSound'
  BY <1>2 DEF AccountsInv, RowsSound, OwnersFit
<1>4. OneByOne' => AccountSound(q)' /\ OnePrimary'
  BY <1>1, <1>2 DEF AccountsInv, OnePrimary, AccountSound, Primaries, RowsFor
<1> QED BY <1>1, <1>3, <1>4, AccountMoveKeeps

\* A request that wants a row written comes in: it clears first if it asks for a primary row,
\* unless the row is a bank account that is primary already.
LEMMA AskRowWriteKeeps ==
    ASSUME AccountsInv, NEW r \in Requests, NEW q \in AccountCall,
           q.pc = "clear" => q.primary = "yes",
           q.pc = "write" /\ q.primary = "yes" =>
              q.row \in Banks /\ row[q.row].there /\ row[q.row].primary,
           Begin(r, q), UNCHANGED avars
    PROVE  AccountsInv'
<1>1. q \in AccountCalls /\ q.pc \in {"clear", "write"}
  BY DEF AccountCalls, AccountCall, NewBank, OldBank, ForContact
<1>2. OneByOne => AccountSound(q)
  <2> SUFFICES ASSUME OneByOne, q.pc = "write", q.primary = "yes",
                      NEW y \in RowsFor(q.of) \ {q.row}, row[y].primary
               PROVE  FALSE
    BY <1>1 DEF AccountSound
  <2>1. q.row \in Banks /\ q.of = "tenant" /\ row[q.row].of = "tenant"
    BY TwoTables DEF AccountCall, NewBank, OldBank, ForContact, AccountsInv, RowsSound, OwnersFit
  <2>2. y \in Entries /\ row[y].of = "tenant"
    BY <2>1 DEF RowsFor
  <2>3. q.row \notin strays /\ y \notin strays
    BY <2>1, <2>2, TwoTables DEF AccountsInv, RowsSound, OwnersFit, ContactOwners
  <2> QED BY <2>1, <2>2, <2>3 DEF AccountsInv, OnePrimary, Entries
<1> QED BY <1>1, <1>2, AccountComesInKeeps

\* The record of a request that goes on.
LEMMA AccountCallShape ==
    ASSUME AccountsInv, NEW r \in Requests
    PROVE  /\ call[r].pc \in {"clear", "write"} => call[r] \in AccountCall
           /\ call[r].pc \in {"swap", "commit"} => call[r] \in SwapCall
           /\ call[r].pc = "hide" => call[r] \in [pc: {"hide"}, row: Entries]
<1>1. call[r] \in AccountCalls
  BY DEF AccountsInv
<1>2. call[r] \in AccountCall => call[r].pc \in {"clear", "write"}
  BY DEF AccountCall, NewBank, OldBank, ForContact
<1>3. call[r] \in SwapCall => call[r].pc \in {"swap", "commit"}
  BY DEF SwapCall
<1>4. call[r] \in {Unasked, Over, [pc |-> "lost"]} => call[r].pc \in {"idle", "done", "lost"}
  BY DEF Unasked, Over
<1> QED BY <1>1, <1>2, <1>3, <1>4 DEF AccountCalls

\* Once the others are cleared only the request's own row may be primary.
LEMMA ClearOthersKeeps ==
    ASSUME AccountsInv, NEW r \in Requests, ClearOthers(r)
    PROVE  AccountsInv'
<1> PICK q : q = At(r, "write")
  OBVIOUS
<1>1. call[r].pc = "clear" /\ call[r] \in AccountCall /\ Go(r, "clear", q) /\ strays' = strays
  BY AccountCallShape DEF ClearOthers, Pass
<1>2. /\ q \in AccountCalls /\ q.pc = "write"
      /\ q.row = call[r].row /\ q.of = call[r].of
  BY <1>1 DEF At, AccountCall, NewBank, OldBank, ForContact, AccountCalls
<1>3. /\ Kept' /\ OneOpen' /\ call'[r] = q
      /\ \A s \in Requests : s # r => call'[s] = call[s]
      /\ OneByOne' => OneByOne /\ \A s \in Requests : s # r => ~Open(s)'
  BY <1>1, <1>2, GoLeaves DEF AccountsInv
<1>4. row' = [y \in Entries |->
                 IF Cleared(call[r], y) THEN [row[y] EXCEPT !.primary = FALSE] ELSE row[y]]
  BY DEF ClearOthers
<1>5. ASSUME NEW y \in Entries
      PROVE  /\ row'[y] \in RowShape
             /\ row'[y].primary = (row[y].primary /\ ~Cleared(call[r], y))
             /\ row'[y].of = row[y].of /\ row'[y].there = row[y].there
  <2>1. row[y] \in RowShape
    BY DEF AccountsInv, RowsSound
  <2>2. CASE Cleared(call[r], y)
    BY <1>4, <2>1, <2>2 DEF RowShape
  <2>3. CASE ~Cleared(call[r], y)
    BY <1>4, <2>1, <2>3 DEF RowShape
  <2> QED BY <2>2, <2>3
<1>6. OneByOne => OnePrimary'
  BY <1>1, <1>5 DEF AccountsInv, OnePrimary
<1>7. AccountSound(q)'
  <2>1. \A y \in RowsFor(q.of)' \ {q.row} : ~row'[y].primary
    BY <1>2, <1>5 DEF RowsFor, Cleared
  <2> QED BY <1>2, <2>1 DEF AccountSound
<1>8. RowsSound'
  BY <1>1, <1>4, <1>5 DEF AccountsInv, RowsSound, OwnersFit, Entries
<1> QED BY <1>2, <1>3, <1>6, <1>7, <1>8, AccountMoveKeeps

\* What a write that ends leaves: the row is a stray one, or it is a bank account as primary as it
\* was, or it is not primary, or its owner's other rows are not.
LEMMA WriteRowKeeps ==
    ASSUME AccountsInv, NEW r \in Requests, WriteRow(r)
    PROVE  AccountsInv'
<1> PICK q, x : q = call[r] /\ x = q.row
  OBVIOUS
<1> DEFINE new == [there |-> TRUE, of |-> OwnerAfter(q), active |-> Said(q.active, row[x].active),
                   primary |-> Said(q.primary, row[x].primary)]
<1>1. /\ q.pc = "write" /\ q \in AccountCall /\ Go(r, "write", Over) /\ row[x].there = ~q.new
      /\ strays' = IF Strays(q, q.primary) THEN strays \cup {x} ELSE strays \ {x}
  BY AccountCallShape DEF WriteRow
<1>2. x \in Entries
  BY <1>1 DEF AccountCall, NewBank, OldBank, ForContact, Entries
<1>3. row[x] \in RowShape
  BY <1>2 DEF AccountsInv, RowsSound
<1>4. /\ x \in Banks => q.of = "tenant" /\ OwnerAfter(q) = "tenant"
      /\ x \in Contacts => OwnerAfter(q) \in ContactOwners
  <2>1. CASE q \in NewBank
    BY <2>1, TwoTables DEF NewBank, OwnerAfter
  <2>2. CASE q \in OldBank
    BY <1>1, <2>2, TwoTables DEF OldBank, OwnerAfter, AccountsInv, RowsSound, OwnersFit
  <2>3. CASE q \in ForContact
    BY <2>3, TwoTables DEF ForContact, OwnerAfter, AccountsInv, RowsSound, OwnersFit, ContactOwners
  <2> QED BY <1>1, <2>1, <2>2, <2>3 DEF AccountCall
<1>5. row' = [row EXCEPT ![x] = new] /\ new.primary = Said(q.primary, row[x].primary)
      /\ new.of = OwnerAfter(q) /\ new \in RowShape
  <2>1. Said(q.primary, row[x].primary) \in BOOLEAN /\ Said(q.active, row[x].active) \in BOOLEAN
    BY <1>3 DEF Said, RowShape
  <2>2. OwnerAfter(q) \in Owners \cup {"none"}
    BY <1>2, <1>4 DEF Entries, Owners, ContactOwners
  <2>3. row' = [row EXCEPT ![x] = new]
    BY <1>2 DEF WriteRow, AccountsInv, RowsSound
  <2> QED BY <2>1, <2>2, <2>3 DEF RowShape
<1> HIDE DEF new
<1>6. Over \in AccountCalls /\ Over.pc = "done"
  BY DEF AccountCalls, Over
<1>7. /\ Kept' /\ OneOpen' /\ call'[r] = Over
      /\ \A s \in Requests : s # r => call'[s] = call[s]
      /\ OneByOne' => OneByOne /\ \A s \in Requests : s # r => ~Open(s)'
  BY <1>1, <1>6, GoLeaves DEF AccountsInv
<1>8. /\ row' \in [Entries -> RowShape] /\ row'[x] = new
      /\ \A y \in Entries : y # x => row'[y] = row[y]
  BY <1>2, <1>5 DEF AccountsInv, RowsSound
<1>9. strays' \subseteq Contacts
  BY <1>1, <1>2, <1>4 DEF AccountsInv, RowsSound, Strays, Entries
<1>10. RowsSound'
  BY <1>4, <1>5, <1>8, <1>9 DEF AccountsInv, RowsSound, OwnersFit, Entries
<1>11. ASSUME OneByOne, NEW y \in Entries, y \notin strays', y # x, row[y].primary,
              x \notin strays', row'[x].primary, row[y].of = row'[x].of
       PROVE  FALSE
  <2>1. CASE q.primary = "yes"
    <3>1. row'[x].of = q.of
      BY <1>1, <1>5, <1>8, <1>11, <2>1 DEF Strays
    <3>2. \A w \in RowsFor(q.of) \ {x} : ~row[w].primary
      BY <1>1, <1>11, <2>1 DEF AccountsInv, AccountSound
    <3> QED BY <1>11, <3>1, <3>2 DEF RowsFor
  <2>2. CASE q.primary # "yes"
    <3>1. q.primary = "left out" /\ row[x].primary
      BY <1>1, <1>5, <1>8, <1>11, <2>2
      DEF Said, AccountCall, NewBank, OldBank, ForContact, Word
    <3>2. q \in OldBank
      BY <1>1, <3>1 DEF AccountCall, NewBank, ForContact
    <3>3. x \in Banks /\ x \notin strays /\ row[x].of = row'[x].of
      BY <1>1, <1>4, <1>5, <1>8, <3>2, TwoTables DEF OldBank, AccountsInv, RowsSound, OwnersFit
    <3>4. y \notin strays
      BY <1>1, <1>11
    <3> QED BY <1>2, <1>11, <3>1, <3>3, <3>4 DEF AccountsInv, OnePrimary
  <2> QED BY <2>1, <2>2
<1>12. ASSUME OneByOne, NEW y \in Entries \ strays', NEW z \in Entries \ strays',
              row'[y].primary, row'[z].primary, row'[y].of = row'[z].of
       PROVE  y = z
  <2>1. CASE x \in {y, z}
    BY <1>8, <1>11, <1>12, <2>1
  <2>2. CASE x \notin {y, z}
    <3>1. y \notin strays /\ z \notin strays
      BY <1>1, <1>12, <2>2
    <3> QED BY <1>8, <1>12, <2>2, <3>1 DEF AccountsInv, OnePrimary
  <2> QED BY <2>1, <2>2
<1>13. OneByOne => OnePrimary'
  BY <1>12 DEF OnePrimary
<1>14. AccountSound(Over)'
  BY <1>6 DEF AccountSound
<1> QED BY <1>6, <1>7, <1>10, <1>13, <1>14, AccountMoveKeeps

\* The setPrimary of contacts: what it finds primary is all there is, if its turn it is.
LEMMA FindPrimariesKeeps ==
    ASSUME AccountsInv, NEW r \in Requests, FindPrimaries(r)
    PROVE  AccountsInv'
<1> PICK q, f : f = Primaries(call[r].of) /\ q = [At(r, "commit") EXCEPT !.found = f]
  OBVIOUS
<1>1. call[r] \in SwapCall /\ call[r].pc = "swap" /\ Go(r, "swap", q) /\ row' = row /\ strays' = strays
  BY AccountCallShape DEF FindPrimaries, avars
<1>2. f \in SUBSET Entries
  BY DEF Primaries, RowsFor
<1>3. At(r, "commit") \in SwapCall /\ At(r, "commit").pc = "commit"
      /\ At(r, "commit").of = call[r].of
  BY <1>1 DEF At, SwapCall
<1>4. q \in AccountCalls /\ q.pc = "commit" /\ q.of = call[r].of /\ q.found = f
  <2>1. q \in SwapCall /\ q.pc = "commit" /\ q.of = call[r].of /\ q.found = f
    BY <1>2, <1>3 DEF SwapCall
  <2> QED BY <2>1 DEF AccountCalls
<1>5. /\ Kept' /\ OneOpen' /\ call'[r] = q
      /\ \A s \in Requests : s # r => call'[s] = call[s]
      /\ OneByOne' => OneByOne /\ \A s \in Requests : s # r => ~Open(s)'
  <2>1. /\ Kept /\ OneOpen /\ q.pc # "idle"
        /\ "swap" \notin {"idle", "done", "swallowed", "lost"} /\ Go(r, "swap", q)
    BY <1>1, <1>4 DEF AccountsInv
  <2> QED BY <2>1, GoLeaves
<1>6. AccountSound(q)' /\ (OneByOne => OnePrimary')
  BY <1>1, <1>4 DEF AccountSound, Primaries, RowsFor, AccountsInv, OnePrimary
<1>7. RowsSound'
  BY <1>1 DEF AccountsInv, RowsSound, OwnersFit
<1> QED BY <1>4, <1>5, <1>6, <1>7, AccountMoveKeeps

\* Its commit leaves its own row primary among the contacts it has found, and every other row
\* as it is.
LEMMA CommitSwapKeeps ==
    ASSUME AccountsInv, NEW r \in Requests, CommitSwap(r)
    PROVE  AccountsInv'
<1> PICK q, x : q = call[r] /\ x = q.row
  OBVIOUS
<1>1. /\ q \in SwapCall /\ q.pc = "commit" /\ Go(r, "commit", Over) /\ x \in Contacts
      /\ strays' = IF Strays(q, "yes") THEN strays \cup {x} ELSE strays \ {x}
  BY AccountCallShape DEF CommitSwap, SwapCall
<1>2. Over \in AccountCalls /\ Over.pc = "done"
  BY DEF AccountCalls, Over
<1>3. /\ Kept' /\ OneOpen' /\ call'[r] = Over
      /\ \A s \in Requests : s # r => call'[s] = call[s]
      /\ OneByOne' => OneByOne /\ \A s \in Requests : s # r => ~Open(s)'
  BY <1>1, <1>2, GoLeaves DEF AccountsInv
<1>4. row' = [y \in Entries |-> [row[y] EXCEPT !.primary = (@ /\ y \notin q.found) \/ y = x]]
  BY DEF CommitSwap
<1>5. ASSUME NEW y \in Entries
      PROVE  /\ row'[y] \in RowShape
             /\ row'[y].primary = ((row[y].primary /\ y \notin q.found) \/ y = x)
             /\ row'[y].of = row[y].of /\ row'[y].there = row[y].there
  <2>1. row[y] \in RowShape
    BY DEF AccountsInv, RowsSound
  <2> QED BY <1>4, <2>1 DEF RowShape
<1>6. ASSUME OneByOne, NEW y \in Entries, y # x, row'[y].primary, x \notin strays',
             row[y].of = row[x].of
      PROVE  FALSE
  <2>1. q.found = Primaries(q.of) /\ row[x].of = q.of
    BY <1>1, <1>6 DEF AccountsInv, AccountSound, Strays, OwnerAfter, SwapCall
  <2> QED BY <1>5, <1>6, <2>1 DEF Primaries, RowsFor
<1>7. ASSUME OneByOne, NEW y \in Entries \ strays', NEW z \in Entries \ strays',
             row'[y].primary, row'[z].primary, row'[y].of = row'[z].of
      PROVE  y = z
  <2>1. CASE x \in {y, z}
    BY <1>5, <1>6, <1>7, <2>1
  <2>2. CASE x \notin {y, z}
    <3>1. y \notin strays /\ z \notin strays
      BY <1>1, <1>7, <2>2
    <3> QED BY <1>5, <1>7, <2>2, <3>1 DEF AccountsInv, OnePrimary
  <2> QED BY <2>1, <2>2
<1>8. OneByOne => OnePrimary'
  BY <1>7 DEF OnePrimary
<1>9. AccountSound(Over)'
  BY <1>2 DEF AccountSound
<1>10. RowsSound'
  <2>1. strays' \subseteq Contacts
    BY <1>1 DEF AccountsInv, RowsSound
  <2> QED BY <1>4, <1>5, <2>1 DEF AccountsInv, RowsSound, OwnersFit, Entries
<1> QED BY <1>2, <1>3, <1>8, <1>9, <1>10, AccountMoveKeeps

\* A row that is hidden keeps its column isPrimary.
LEMMA HideRowKeeps ==
    ASSUME AccountsInv, NEW r \in Requests, HideRow(r)
    PROVE  AccountsInv'
<1> PICK x : x = call[r].row
  OBVIOUS
<1>1. call[r].pc = "hide" /\ Go(r, "hide", Over) /\ x \in Entries
      /\ row' = [row EXCEPT ![x].active = FALSE] /\ strays' = strays
  BY AccountCallShape DEF HideRow
<1>2. Over \in AccountCalls /\ Over.pc = "done"
  BY DEF AccountCalls, Over
<1>3. /\ Kept' /\ OneOpen' /\ call'[r] = Over
      /\ \A s \in Requests : s # r => call'[s] = call[s]
      /\ OneByOne' => OneByOne /\ \A s \in Requests : s # r => ~Open(s)'
  BY <1>1, <1>2, GoLeaves DEF AccountsInv
<1>4. /\ row' \in [Entries -> RowShape]
      /\ \A y \in Entries : /\ row'[y].primary = row[y].primary
                            /\ row'[y].of = row[y].of /\ row'[y].there = row[y].there
  BY <1>1 DEF AccountsInv, RowsSound, RowShape
<1>5. (OneByOne => OnePrimary') /\ AccountSound(Over)'
  BY <1>1, <1>2, <1>4 DEF AccountsInv, OnePrimary, AccountSound
<1>6. RowsSound'
  BY <1>1, <1>4 DEF AccountsInv, RowsSound, OwnersFit, Entries
<1> QED BY <1>2, <1>3, <1>5, <1>6, AccountMoveKeeps

\* The requests that come in with a bank account in mind.
LEMMA AskBankKeeps ==
    ASSUME AccountsInv, NEW r \in Requests, NEW x \in Banks,
           \/ \E p \in {"yes", "no"} : CreateRow(r, x, "tenant", p, "yes")
           \/ \E p, a \in Word : UpdateBank(r, x, p, a)
           \/ SetPrimaryBank(r, x)
    PROVE  AccountsInv'
<1>1. ASSUME NEW p \in {"yes", "no"}, CreateRow(r, x, "tenant", p, "yes") PROVE AccountsInv'
  <2> DEFINE q == [pc |-> IF p = "yes" THEN "clear" ELSE "write", row |-> x, new |-> TRUE,
                   primary |-> p, active |-> "yes", of |-> "tenant", to |-> "tenant"]
  <2>1. /\ q \in AccountCall /\ Begin(r, q) /\ UNCHANGED avars
        /\ q.primary = p /\ q.pc = IF p = "yes" THEN "clear" ELSE "write"
    BY <1>1 DEF CreateRow, AccountCall, NewBank, Word
  <2> HIDE DEF q
  <2> QED BY <2>1, AskRowWriteKeeps
<1>2. ASSUME NEW p \in Word, NEW a \in Word, UpdateBank(r, x, p, a) PROVE AccountsInv'
  <2> DEFINE q == [pc |-> IF p = "yes" /\ ~row[x].primary THEN "clear" ELSE "write", row |-> x,
                   new |-> FALSE, primary |-> p, active |-> a, of |-> "tenant", to |-> "left out"]
  <2>1. /\ q \in AccountCall /\ Begin(r, q) /\ UNCHANGED avars
        /\ row[x].there /\ q.primary = p /\ q.row = x
        /\ q.pc = IF p = "yes" /\ ~row[x].primary THEN "clear" ELSE "write"
    BY <1>2 DEF UpdateBank, AccountCall, OldBank
  <2> HIDE DEF q
  <2>2. q.pc = "clear" => q.primary = "yes"
    BY <2>1
  <2>3. q.pc = "write" /\ q.primary = "yes" => row[x].primary
    BY <2>1
  <2>4. q.row \in Banks /\ row[q.row].there /\ (row[x].primary => row[q.row].primary)
    BY <2>1
  <2> QED BY <2>1, <2>2, <2>3, <2>4, AskRowWriteKeeps
<1>3. CASE SetPrimaryBank(r, x)
  <2> DEFINE q == [pc |-> "clear", row |-> x, new |-> FALSE, primary |-> "yes",
                   active |-> "left out", of |-> "tenant", to |-> "left out"]
  <2>1. /\ q \in AccountCall /\ Begin(r, q) /\ UNCHANGED avars
        /\ q.primary = "yes" /\ q.pc = "clear"
    BY <1>3 DEF SetPrimaryBank, AccountCall, OldBank, Word
  <2> HIDE DEF q
  <2> QED BY <2>1, AskRowWriteKeeps
<1> QED BY <1>1, <1>2, <1>3

\* Those that come in with a contact in mind.
LEMMA AskContactKeeps ==
    ASSUME AccountsInv, NEW r \in Requests, NEW x \in Contacts,
           \/ \E p, a \in {"yes", "no"} :
                 \/ \E o \in CustomerIds : CreateRow(r, x, o, p, a)
                 \/ \E to \in CustomerIds \cup {"left out"} : UpdateContact(r, x, p, a, to)
           \/ SetPrimaryContact(r, x)
    PROVE  AccountsInv'
<1>0. row[x].of \in ContactOwners
  BY DEF AccountsInv, RowsSound, OwnersFit
<1>1. ASSUME NEW p \in {"yes", "no"}, NEW a \in {"yes", "no"}, NEW new \in BOOLEAN,
             NEW o \in ContactOwners, NEW to \in CustomerIds \cup {"left out"}, UNCHANGED avars,
             Begin(r, [pc |-> IF p = "yes" THEN "clear" ELSE "write", row |-> x, new |-> new,
                       primary |-> p, active |-> a, of |-> o, to |-> to])
      PROVE  AccountsInv'
  <2> DEFINE q == [pc |-> IF p = "yes" THEN "clear" ELSE "write", row |-> x, new |-> new,
                   primary |-> p, active |-> a, of |-> o, to |-> to]
  <2>1. /\ q \in AccountCall /\ Begin(r, q)
        /\ q.primary = p /\ q.pc = IF p = "yes" THEN "clear" ELSE "write"
    BY <1>1 DEF AccountCall, ForContact, Word
  <2> HIDE DEF q
  <2> QED BY <1>1, <2>1, AskRowWriteKeeps
<1>2. CASE \E p, a \in {"yes", "no"}, o \in CustomerIds : CreateRow(r, x, o, p, a)
  BY <1>1, <1>2 DEF CreateRow, ContactOwners
<1>3. CASE \E p, a \in {"yes", "no"}, to \in CustomerIds \cup {"left out"} :
              UpdateContact(r, x, p, a, to)
  BY <1>0, <1>1, <1>3 DEF UpdateContact
<1>4. CASE SetPrimaryContact(r, x)
  <2> DEFINE q == [pc |-> "swap", row |-> x, of |-> row[x].of, to |-> "left out", found |-> {}]
  <2>1. q \in AccountCalls /\ q.pc = "swap" /\ Begin(r, q) /\ UNCHANGED avars
    BY <1>0, <1>4 DEF AccountCalls, SwapCall, SetPrimaryContact
  <2> HIDE DEF q
  <2> QED BY <2>1, AccountComesInKeeps DEF AccountSound
<1> QED BY <1>2, <1>3, <1>4

\* A row is about to be hidden.
LEMMA AskHideKeeps ==
    ASSUME AccountsInv, NEW r \in Requests, NEW x \in Entries, RemoveRow(r, x)
    PROVE  AccountsInv'
<1> DEFINE q == [pc |-> "hide", row |-> x]
<1>1. q \in AccountCalls /\ q.pc = "hide" /\ Begin(r, q) /\ UNCHANGED avars
  BY DEF AccountCalls, RemoveRow
<1> HIDE DEF q
<1> QED BY <1>1, AccountComesInKeeps DEF AccountSound

\* A lost request leaves every row as it is.
LEMMA AccountLossKeeps ==
    ASSUME AccountsInv, NEW r \in Requests, Lose(r), UNCHANGED avars
    PROVE  AccountsInv'
<1>1. /\ Kept' /\ OneOpen' /\ call'[r] = [pc |-> "lost"] /\ (OneByOne' => OneByOne)
      /\ \A s \in Requests : s # r => call'[s] = call[s]
  BY LoseLeaves DEF AccountsInv
<1>2. call' \in [Requests -> AccountCalls]
  <2>1. \A s \in Requests : call'[s] \in AccountCalls
    BY <1>1 DEF AccountsInv, AccountCalls
  <2> QED BY <1>1, <2>1 DEF Kept
<1>3. row' = row /\ strays' = strays
  BY DEF avars
<1>4. OneByOne' => \A s \in Requests : AccountSound(call[s])'
  BY <1>1, <1>3 DEF AccountsInv, AccountSound, Primaries, RowsFor
<1>5. RowsSound'
  BY <1>3 DEF AccountsInv, RowsSound, OwnersFit
<1> QED BY <1>1, <1>2, <1>3, <1>4, <1>5 DEF AccountsInv, OnePrimary

\* Every step keeps the invariant.
LEMMA AccountStepKeeps ==
    ASSUME AccountsInv, NEW r \in Requests, AccountStep(r)
    PROVE  AccountsInv'
<1>1. CASE \/ \E x \in Banks, p \in {"yes", "no"} : CreateRow(r, x, "tenant", p, "yes")
           \/ \E x \in Banks, p, a \in {"yes", "no", "left out"} : UpdateBank(r, x, p, a)
           \/ \E x \in Banks : SetPrimaryBank(r, x)
  BY <1>1, AskBankKeeps DEF Word
<1>2. CASE \/ \E x \in Contacts, p, a \in {"yes", "no"} :
                 \/ \E o \in CustomerIds : CreateRow(r, x, o, p, a)
                 \/ \E to \in CustomerIds \cup {"left out"} : UpdateContact(r, x, p, a, to)
           \/ \E x \in Contacts : SetPrimaryContact(r, x)
  BY <1>2, AskContactKeeps
<1>3. CASE \E x \in Entries : RemoveRow(r, x)
  BY <1>3, AskHideKeeps
<1>4. CASE ClearOthers(r) \/ WriteRow(r) \/ FindPrimaries(r) \/ CommitSwap(r) \/ HideRow(r)
  BY <1>4, ClearOthersKeeps, WriteRowKeeps, FindPrimariesKeeps, CommitSwapKeeps, HideRowKeeps
<1>5. CASE Lose(r) /\ UNCHANGED avars
  BY <1>5, AccountLossKeeps
<1> QED BY <1>1, <1>2, <1>3, <1>4, <1>5 DEF AccountStep

-----------------------------------------------------------------------------
\* The invariant holds at first.
LEMMA AccountsInvAtFirst == RequestsInit /\ AccountsInit => AccountsInv
<1> SUFFICES ASSUME RequestsInit, AccountsInit PROVE AccountsInv
  OBVIOUS
<1>1. \A r \in Requests : call[r] = Unasked /\ call[r].pc = "idle"
  BY DEF RequestsInit, Unasked
<1>2. \A r \in Requests : AccountSound(call[r])
  BY <1>1 DEF AccountSound
<1>3. call \in [Requests -> AccountCalls]
  BY DEF RequestsInit, AccountCalls
<1>4. RowsSound
  BY DEF AccountsInit, NoRow, RowsSound, RowShape, OwnersFit, ContactOwners, Entries
<1> QED BY <1>2, <1>3, <1>4, KeptAtFirst DEF AccountsInit, AccountsInv, OnePrimary, NoRow

\* Every step keeps the invariant.
LEMMA AccountsInvStays == AccountsInv /\ [AccountsNext]_<<rvars, avars>> => AccountsInv'
<1> SUFFICES ASSUME AccountsInv, [AccountsNext]_<<rvars, avars>> PROVE AccountsInv'
  OBVIOUS
<1>1. CASE UNCHANGED <<rvars, avars>>
  <2>1. Kept' /\ OneOpen' /\ OneByOne' = OneByOne
    BY <1>1, NothingLeaves DEF AccountsInv
  <2>2. call' = call /\ row' = row /\ strays' = strays
    BY <1>1 DEF rvars, avars
  <2>3. RowsSound'
    BY <2>2 DEF AccountsInv, RowsSound, OwnersFit
  <2> QED BY <2>1, <2>2, <2>3 DEF AccountsInv, OnePrimary, AccountSound, Primaries, RowsFor
<1> QED BY <1>1, AccountStepKeeps DEF AccountsNext

\* For any rows, customers and number of requests, one after the other and cut off anywhere, no
\* two bank accounts are primary, and of a customer's contacts no two but those that the update
\* which made them primary brought there.
THEOREM PrimaryStaysOne == AccountsSpec => []OnePrimary
<1>3. AccountsInv => OnePrimary
  BY DEF AccountsInv
<1> QED BY AccountsInvAtFirst, AccountsInvStays, <1>3, PTL DEF AccountsSpec

-----------------------------------------------------------------------------
(* CustomerService *)

CustomerRow == [type: Types, mail: Mails \cup {"none"}, active: BOOLEAN]
CustomerCall     == [pc: {"look", "write"}, customer: People, new: BOOLEAN, to: CustomerValues,
                was: Mails \cup {"none"}]
TurnSteps   == {"hide", "turn", "note", "announce"}
TurnCall    == [pc: TurnSteps, customer: People]
CustomerCalls == CustomerCall \cup TurnCall \cup {Unasked, Over, [pc |-> "lost"]}

\* A request whose turn it is knows its customer's address, and writes one that is free.
CustomerSound(q) ==
    /\ q.pc = "look" => IF q.new THEN q.was = "none"
                        ELSE IsCustomer(q.customer) /\ q.was = customer[q.customer].mail
    /\ q.pc = "write" => ~MailTaken(q.to.mail, q.customer)

CustomersInv ==
    /\ Kept /\ OneOpen
    /\ call \in [Requests -> CustomerCalls]
    /\ customer \in [People -> CustomerRow]
    /\ \A r \in Requests : call[r].pc \in TurnSteps => IsCustomer(call[r].customer)
    /\ OneByOne => \A r \in Requests : CustomerSound(call[r])
    /\ MailsDiffer

\* The record of a request under way.
LEMMA CustomerCallShape ==
    ASSUME CustomersInv, NEW r \in Requests
    PROVE  /\ call[r].pc \in {"look", "write"} => call[r] \in CustomerCall
           /\ call[r].pc \in TurnSteps => call[r] \in TurnCall
BY DEF CustomersInv, CustomerCalls, CustomerCall, TurnCall, TurnSteps, Unasked, Over

\* What a step of r has to leave: customers that stay, its record sound and the addresses
\* different, if its turn it is.
LEMMA CustomerMoveKeeps ==
    ASSUME CustomersInv, NEW r \in Requests, NEW q \in CustomerCalls,
           Kept', OneOpen', call'[r] = q,
           \A s \in Requests : s # r => call'[s] = call[s],
           OneByOne' => OneByOne /\ \A s \in Requests : s # r => ~Open(s)',
           customer' \in [People -> CustomerRow],
           \A c \in People : IsCustomer(c) => IsCustomer(c)',
           q.pc \in TurnSteps => IsCustomer(q.customer),
           OneByOne' => CustomerSound(q)' /\ MailsDiffer'
    PROVE  CustomersInv'
<1>1. call' \in [Requests -> CustomerCalls]
  <2>1. \A s \in Requests : call'[s] \in CustomerCalls
    BY DEF CustomersInv
  <2> QED BY <2>1 DEF Kept
<1>2. ASSUME OneByOne', NEW s \in Requests PROVE CustomerSound(call[s])'
  <2>1. CASE s = r
    BY <1>2, <2>1 DEF CustomerSound
  <2>2. CASE s # r
    <3>1. call'[s].pc \in {"idle", "done", "swallowed", "lost"}
      BY <1>2, <2>2 DEF Open
    <3> QED BY <3>1 DEF CustomerSound
  <2> QED BY <2>1, <2>2
<1>3. MailsDiffer'
  BY DEF MailsDiffer
<1>4. ASSUME NEW s \in Requests, call'[s].pc \in TurnSteps PROVE IsCustomer(call[s].customer)'
  <2>1. call'[s] \in TurnCall
    BY <1>1, <1>4 DEF CustomerCalls, CustomerCall, TurnCall, TurnSteps, Unasked, Over
  <2>2. PICK c : c = call'[s].customer
    OBVIOUS
  <2>3. c \in People
    BY <2>1, <2>2 DEF TurnCall
  <2>4. IsCustomer(c)
    <3>1. CASE s = r
      BY <1>4, <2>2, <3>1
    <3>2. CASE s # r
      BY <1>4, <2>2, <3>2 DEF CustomersInv
    <3> QED BY <3>1, <3>2
  <2>5. customer'[c].type # "none"
    BY <2>3, <2>4 DEF IsCustomer
  <2> QED BY <2>2, <2>5 DEF IsCustomer
<1> QED BY <1>1, <1>2, <1>3, <1>4 DEF CustomersInv

\* A request comes in and touches no customer.
LEMMA CustomerComesInKeeps ==
    ASSUME CustomersInv, NEW r \in Requests, NEW q \in CustomerCalls, q.pc # "idle",
           Begin(r, q), UNCHANGED cuvars, OneByOne => CustomerSound(q),
           q.pc \in TurnSteps => IsCustomer(q.customer)
    PROVE  CustomersInv'
<1>1. /\ Kept' /\ OneOpen' /\ call'[r] = q
      /\ \A s \in Requests : s # r => call'[s] = call[s]
      /\ OneByOne' => OneByOne /\ \A s \in Requests : s # r => ~Open(s)'
  BY BeginLeaves DEF CustomersInv
<1>2. customer' = customer
  BY DEF cuvars
<1>3. OneByOne' => CustomerSound(q)' /\ MailsDiffer'
  BY <1>1, <1>2 DEF CustomersInv, MailsDiffer, MailTaken, IsCustomer, CustomerSound
<1>4. \A c \in People : IsCustomer(c) => IsCustomer(c)'
  BY <1>2 DEF IsCustomer
<1> QED BY <1>1, <1>2, <1>3, <1>4, CustomerMoveKeeps DEF CustomersInv

\* A request goes on, or ends, and touches no customer's address.
LEMMA CustomerGoesOnKeeps ==
    ASSUME CustomersInv, NEW r \in Requests, NEW q \in CustomerCalls, q.pc # "idle",
           NEW pc \in {"look", "write"} \cup TurnSteps, Go(r, pc, q),
           customer' \in [People -> CustomerRow],
           \A c \in People : customer'[c].mail = customer[c].mail /\ (IsCustomer(c) <=> IsCustomer(c)'),
           OneByOne => CustomerSound(q),
           q.pc \in TurnSteps => IsCustomer(q.customer), q.pc # "look",
           q.pc = "write" => q.customer \in People
    PROVE  CustomersInv'
<1>1. /\ Kept' /\ OneOpen' /\ call'[r] = q
      /\ \A s \in Requests : s # r => call'[s] = call[s]
      /\ OneByOne' => OneByOne /\ \A s \in Requests : s # r => ~Open(s)'
  <2>1. pc \notin {"idle", "done", "swallowed", "lost"}
    BY DEF TurnSteps
  <2> QED BY <2>1, GoLeaves DEF CustomersInv
<1>2. ASSUME NEW m, NEW c \in People PROVE MailTaken(m, c)' = MailTaken(m, c)
  BY DEF MailTaken
<1>3. OneByOne' => MailsDiffer'
  BY <1>1 DEF CustomersInv, MailsDiffer, MailTaken
<1>4. OneByOne' => CustomerSound(q)'
  BY <1>1, <1>2 DEF CustomerSound
<1> QED BY <1>1, <1>3, <1>4, CustomerMoveKeeps

\* What asks for a customer to be written knows the address the customer has.
LEMMA AskCustomerKeeps ==
    ASSUME CustomersInv, NEW r \in Requests, NEW c \in People, NEW to \in CustomerValues,
           CreateCustomer(r, c, to) \/ UpdateCustomer(r, c, to)
    PROVE  CustomersInv'
<1>1. PICK new \in BOOLEAN, was \in Mails \cup {"none"} :
         /\ Begin(r, [pc |-> "look", customer |-> c, new |-> new, to |-> to, was |-> was])
         /\ IF new THEN was = "none" ELSE IsCustomer(c) /\ was = customer[c].mail
         /\ UNCHANGED cuvars
  BY DEF CreateCustomer, UpdateCustomer, CustomersInv, CustomerRow
<1>2. PICK q : q = [pc |-> "look", customer |-> c, new |-> new, to |-> to, was |-> was]
  OBVIOUS
<1>3. q \in CustomerCalls /\ q.pc = "look" /\ Begin(r, q) /\ q.pc \notin TurnSteps
  BY <1>1, <1>2 DEF CustomerCalls, CustomerCall, TurnSteps
<1>4. CustomerSound(q)
  BY <1>1, <1>2 DEF CustomerSound
<1> QED BY <1>1, <1>3, <1>4, CustomerComesInKeeps

\* An address that passes the look is nobody else's.
LEMMA LookForMailKeeps ==
    ASSUME CustomersInv, NEW r \in Requests, LookForMail(r)
    PROVE  CustomersInv'
<1> PICK q : q = At(r, "write")
  OBVIOUS
<1>1. call[r].pc = "look" /\ call[r] \in CustomerCall /\ Go(r, "look", q) /\ UNCHANGED cuvars
      /\ (call[r].to.mail = call[r].was \/ ~MailTaken(call[r].to.mail, call[r].customer))
  BY CustomerCallShape DEF LookForMail, Pass, MailFree
<1>2. /\ q \in CustomerCalls /\ q.pc = "write" /\ q.customer = call[r].customer
      /\ q.to = call[r].to /\ q.customer \in People
  BY <1>1 DEF At, CustomerCall, CustomerCalls
<1>3. ASSUME OneByOne PROVE ~MailTaken(q.to.mail, q.customer)
  <2>1. CustomerSound(call[r])
    BY <1>3 DEF CustomersInv
  <2>2. CASE call[r].to.mail = call[r].was /\ call[r].new
    BY <1>1, <1>2, <2>1, <2>2 DEF CustomerSound, MailTaken
  <2>3. CASE call[r].to.mail = call[r].was /\ ~call[r].new
    BY <1>1, <1>2, <1>3, <2>1, <2>3 DEF CustomerSound, CustomersInv, MailsDiffer
  <2> QED BY <1>1, <1>2, <2>2, <2>3
<1>4. OneByOne => CustomerSound(q)
  BY <1>2, <1>3 DEF CustomerSound
<1>5. customer' = customer /\ q.pc \notin TurnSteps
  BY <1>1, <1>2 DEF cuvars, TurnSteps
<1>6. \A c \in People : IsCustomer(c) <=> IsCustomer(c)'
  BY <1>5 DEF IsCustomer
<1> QED BY <1>1, <1>2, <1>4, <1>5, <1>6, CustomerGoesOnKeeps DEF CustomersInv

\* The address that is written is nobody else's.
LEMMA WriteCustomerKeeps ==
    ASSUME CustomersInv, NEW r \in Requests, WriteCustomer(r)
    PROVE  CustomersInv'
<1> PICK c, to : c = call[r].customer /\ to = call[r].to
  OBVIOUS
<1>1. /\ call[r].pc = "write" /\ call[r] \in CustomerCall /\ Go(r, "write", Over)
      /\ customer' = [customer EXCEPT ![c] = to]
  BY CustomerCallShape DEF WriteCustomer
<1>2. c \in People /\ to \in CustomerValues /\ to \in CustomerRow /\ to.type # "none"
  BY <1>1 DEF CustomerCall, CustomerValues, CustomerRow, Types
<1>3. Over \in CustomerCalls /\ Over.pc = "done"
  BY DEF CustomerCalls, Over
<1>4. /\ Kept' /\ OneOpen' /\ call'[r] = Over
      /\ \A s \in Requests : s # r => call'[s] = call[s]
      /\ OneByOne' => OneByOne /\ \A s \in Requests : s # r => ~Open(s)'
  BY <1>1, <1>3, GoLeaves DEF CustomersInv
<1>5. /\ customer' \in [People -> CustomerRow] /\ customer'[c] = to
      /\ \A d \in People : d # c => customer'[d] = customer[d]
  BY <1>1, <1>2 DEF CustomersInv
<1>6. \A d \in People : IsCustomer(d) => IsCustomer(d)'
  BY <1>2, <1>5 DEF IsCustomer
<1>7. ASSUME OneByOne PROVE MailsDiffer'
  <2>1. ~MailTaken(to.mail, c)
    BY <1>1, <1>7 DEF CustomersInv, CustomerSound
  <2> SUFFICES ASSUME NEW d \in People, NEW e \in People, d # e,
                      IsCustomer(d)', IsCustomer(e)',
                      customer'[d].mail = customer'[e].mail, customer'[d].mail # "none"
               PROVE  FALSE
    BY DEF MailsDiffer, MailTaken, IsCustomer
  <2>2. CASE c \notin {d, e}
    BY <1>5, <1>7, <2>2 DEF CustomersInv, MailsDiffer, MailTaken, IsCustomer
  <2>3. CASE c \in {d, e}
    BY <1>5, <2>1, <2>3 DEF MailTaken, IsCustomer
  <2> QED BY <2>2, <2>3
<1>8. CustomerSound(Over)' /\ Over.pc \notin TurnSteps
  BY <1>3 DEF CustomerSound, TurnSteps
<1> QED BY <1>3, <1>4, <1>5, <1>6, <1>7, <1>8, CustomerMoveKeeps

\* The steps of a deletion and of a conversion leave addresses alone.
LEMMA TurnStepKeeps ==
    ASSUME CustomersInv, NEW r \in Requests,
           DeleteCustomer(r) \/ TurnLead(r) \/ NoteConversion(r) \/ AnnounceConversion(r)
    PROVE  CustomersInv'
<1>1. PICK from \in TurnSteps, q \in {Over, At(r, "note"), At(r, "announce")} :
         /\ Go(r, from, q)
         /\ \/ customer' = customer
            \/ customer' = [customer EXCEPT ![call[r].customer].active = FALSE]
            \/ customer' = [customer EXCEPT ![call[r].customer].type = "client"]
  BY DEF DeleteCustomer, TurnLead, NoteConversion, AnnounceConversion, Pass, TurnSteps
<1>2. call[r].pc = from /\ call[r] \in TurnCall
  BY <1>1, CustomerCallShape DEF Go
<1>3. /\ q \in CustomerCalls /\ q.pc \in {"done", "note", "announce"}
      /\ q.pc # "done" => q.customer = call[r].customer
  BY <1>1, <1>2 DEF TurnCall, TurnSteps, CustomerCalls, Over, At
<1>4. call[r].customer \in People /\ IsCustomer(call[r].customer)
  BY <1>2 DEF TurnCall, CustomersInv
<1>5. customer' \in [People -> CustomerRow]
  <2>1. PICK c : c = call[r].customer
    OBVIOUS
  <2>2. PICK w \in CustomerRow : w = customer[c]
    BY <1>4, <2>1 DEF CustomersInv
  <2>3. [w EXCEPT !.active = FALSE] \in CustomerRow /\ [w EXCEPT !.type = "client"] \in CustomerRow
    BY DEF CustomerRow, Types
  <2>4. customer \in [People -> CustomerRow] /\ c \in People
    BY <1>4, <2>1 DEF CustomersInv
  <2>5. \/ customer' = customer
        \/ customer' = [customer EXCEPT ![c] = [w EXCEPT !.active = FALSE]]
        \/ customer' = [customer EXCEPT ![c] = [w EXCEPT !.type = "client"]]
    BY <1>1, <2>1, <2>2
  <2> QED BY <2>3, <2>4, <2>5
<1>6. \A c \in People : customer'[c].mail = customer[c].mail /\ (IsCustomer(c) <=> IsCustomer(c)')
  BY <1>1, <1>4 DEF CustomersInv, CustomerRow, IsCustomer
<1>7. CustomerSound(q) /\ q.pc # "idle" /\ q.pc # "look" /\ q.pc # "write"
      /\ (q.pc \in TurnSteps => IsCustomer(q.customer))
  BY <1>3, <1>4 DEF CustomerSound, TurnSteps
<1> QED BY <1>1, <1>3, <1>5, <1>6, <1>7, CustomerGoesOnKeeps

\* Every step keeps the invariant.
LEMMA CustomerStepKeeps ==
    ASSUME CustomersInv, NEW r \in Requests, CustomerStep(r)
    PROVE  CustomersInv'
<1>1. ASSUME NEW c \in People, AskDeleteCustomer(r, c) \/ AskConvert(r, c)
      PROVE  CustomersInv'
  <2>1. PICK q \in {[pc |-> "hide", customer |-> c], [pc |-> "turn", customer |-> c]} :
           Begin(r, q) /\ UNCHANGED cuvars /\ IsCustomer(c)
    BY <1>1 DEF AskDeleteCustomer, AskConvert, IsCustomer
  <2>2. q \in CustomerCalls /\ q.pc \in {"hide", "turn"} /\ q.customer = c
    BY <2>1 DEF CustomerCalls, TurnCall, TurnSteps
  <2> QED BY <2>1, <2>2, CustomerComesInKeeps DEF CustomerSound
<1>2. CASE Lose(r) /\ UNCHANGED cuvars
  <2>1. /\ Kept' /\ OneOpen' /\ call'[r] = [pc |-> "lost"] /\ (OneByOne' => OneByOne)
        /\ \A s \in Requests : s # r => call'[s] = call[s]
    BY <1>2, LoseLeaves DEF CustomersInv
  <2>2. call' \in [Requests -> CustomerCalls]
    <3>1. \A s \in Requests : call'[s] \in CustomerCalls
      BY <2>1 DEF CustomersInv, CustomerCalls
    <3> QED BY <2>1, <3>1 DEF Kept
  <2>3. customer' = customer
    BY <1>2 DEF cuvars
  <2>4. OneByOne' => \A s \in Requests : CustomerSound(call[s])'
    BY <2>1, <2>3 DEF CustomersInv, CustomerSound, MailTaken, IsCustomer
  <2>5. \A s \in Requests : call'[s].pc \in TurnSteps => IsCustomer(call[s].customer)'
    BY <2>1, <2>3 DEF CustomersInv, IsCustomer, TurnSteps
  <2>6. MailsDiffer'
    BY <2>1, <2>3 DEF CustomersInv, MailsDiffer, MailTaken, IsCustomer
  <2> QED BY <2>1, <2>2, <2>3, <2>4, <2>5, <2>6 DEF CustomersInv
<1> QED BY <1>1, <1>2, AskCustomerKeeps, LookForMailKeeps, WriteCustomerKeeps, TurnStepKeeps
        DEF CustomerStep

-----------------------------------------------------------------------------
\* The invariant holds at first.
LEMMA CustomersInvAtFirst == RequestsInit /\ CustomersInit => CustomersInv
<1> SUFFICES ASSUME RequestsInit, CustomersInit PROVE CustomersInv
  OBVIOUS
<1>1. \A r \in Requests : call[r] = Unasked /\ call[r].pc = "idle"
  BY DEF RequestsInit, Unasked
<1>2. call \in [Requests -> CustomerCalls]
  BY DEF RequestsInit, CustomerCalls
<1>3. customer \in [People -> CustomerRow] /\ \A c \in People : ~IsCustomer(c)
  BY DEF CustomersInit, CustomerRow, Types, IsCustomer
<1> QED BY <1>1, <1>2, <1>3, KeptAtFirst DEF CustomersInv, CustomerSound, TurnSteps, MailsDiffer

\* Every step keeps the invariant.
LEMMA CustomersInvStays == CustomersInv /\ [CustomersNext]_<<rvars, cuvars>> => CustomersInv'
<1> SUFFICES ASSUME CustomersInv, [CustomersNext]_<<rvars, cuvars>> PROVE CustomersInv'
  OBVIOUS
<1>1. CASE UNCHANGED <<rvars, cuvars>>
  <2>1. Kept' /\ OneOpen' /\ OneByOne' = OneByOne
    BY <1>1, NothingLeaves DEF CustomersInv
  <2>2. call' = call /\ customer' = customer
    BY <1>1 DEF rvars, cuvars
  <2> QED BY <2>1, <2>2 DEF CustomersInv, MailsDiffer, MailTaken, IsCustomer, CustomerSound
<1> QED BY <1>1, CustomerStepKeeps DEF CustomersNext

\* For any customers and addresses, requests that come one after the other and are cut off
\* anywhere never give one address to two customers.
THEOREM MailsStayDifferent == CustomersSpec => []MailsDiffer
<1>3. CustomersInv => MailsDiffer
  BY DEF CustomersInv
<1> QED BY CustomersInvAtFirst, CustomersInvStays, <1>3, PTL DEF CustomersSpec

-----------------------------------------------------------------------------
(* TransactionService *)

\* A row that is not completed never will be again, so what a removal has seen still holds
\* when it deletes; a request that creates a row has none yet.
EntriesInv ==
    /\ Kept /\ OneOpen
    /\ entry = [r \in Requests |-> [status |-> entry[r].status, number |-> entry[r].number]]
    /\ \A r \in Requests : call[r].pc \in {"write", "cancel", "delete"} => call[r].row \in Requests
    /\ \A r \in Requests : call[r].pc \in {"idle", "number", "book"} => entry[r].status = "none"
    /\ \A r \in Requests : call[r].pc = "delete" =>
          entry[call[r].row].status \in {"cancelled", "gone"}

GoneWereCancelled ==
    \A r \in Requests :
        entry[r].status # "gone" /\ entry'[r].status = "gone" => entry[r].status = "cancelled"

\* A request's step that leaves the rows alone keeps the invariant if its record is sound.
LEMMA EntryQuietKeeps ==
    ASSUME EntriesInv, NEW r \in Requests, NEW q, UNCHANGED entry,
           Kept', OneOpen', call'[r] = q,
           \A s \in Requests : s # r => call'[s] = call[s],
           q.pc \in {"write", "cancel", "delete"} => q.row \in Requests,
           q.pc \in {"idle", "number", "book"} => entry[r].status = "none",
           q.pc = "delete" => entry[q.row].status \in {"cancelled", "gone"}
    PROVE  EntriesInv' /\ GoneWereCancelled
BY DEF EntriesInv, GoneWereCancelled

\* The steps of a creation before its row is there.
LEMMA EntryCreateKeeps ==
    ASSUME EntriesInv, NEW r \in Requests, RecordEntry(r) \/ NumberEntry(r)
    PROVE  EntriesInv' /\ GoneWereCancelled
<1>1. CASE RecordEntry(r)
  <2> PICK q : q = [pc |-> "number"]
    OBVIOUS
  <2>1. /\ Kept' /\ OneOpen' /\ call[r].pc = "idle" /\ call'[r] = q
        /\ \A s \in Requests : s # r => call'[s] = call[s]
    BY <1>1, BeginLeaves DEF RecordEntry, EntriesInv
  <2>2. entry[r].status = "none" /\ UNCHANGED entry
    BY <1>1, <2>1 DEF EntriesInv, RecordEntry, bvars
  <2> QED BY <2>1, <2>2, EntryQuietKeeps
<1>2. CASE NumberEntry(r)
  <2> PICK n : n = NextEntryNumber
    OBVIOUS
  <2> PICK q : q = [pc |-> "book", number |-> n]
    OBVIOUS
  <2>1. /\ Kept' /\ OneOpen' /\ call[r].pc = "number" /\ call'[r] = q
        /\ \A s \in Requests : s # r => call'[s] = call[s]
    BY <1>2, GoLeaves DEF NumberEntry, EntriesInv
  <2>2. entry[r].status = "none" /\ UNCHANGED entry
    BY <1>2, <2>1 DEF EntriesInv, NumberEntry, bvars
  <2> QED BY <2>1, <2>2, EntryQuietKeeps
<1> QED BY <1>1, <1>2

\* What is inserted is completed, and nobody has looked at it.
LEMMA InsertEntryKeeps ==
    ASSUME EntriesInv, NEW r \in Requests, InsertEntry(r)
    PROVE  EntriesInv' /\ GoneWereCancelled
<1>1. Over.pc = "done" /\ call[r].pc = "book" /\ Go(r, "book", Over)
  BY DEF InsertEntry, Over
<1>2. /\ Kept' /\ OneOpen' /\ call'[r] = Over
      /\ \A s \in Requests : s # r => call'[s] = call[s]
  BY <1>1, GoLeaves DEF EntriesInv
<1>3. /\ entry' = [s \in Requests |-> [status |-> entry'[s].status, number |-> entry'[s].number]]
      /\ entry'[r].status = "completed"
      /\ \A s \in Requests : s # r => entry'[s] = entry[s]
  BY DEF InsertEntry, EntriesInv
<1>4. entry[r].status = "none"
  BY <1>1 DEF EntriesInv
<1>5. \A s \in Requests : call'[s].pc = "delete" => entry'[call'[s].row].status \in {"cancelled", "gone"}
  <2> SUFFICES ASSUME NEW s \in Requests, call'[s].pc = "delete"
               PROVE  entry'[call'[s].row].status \in {"cancelled", "gone"}
    OBVIOUS
  <2> PICK x : x = call[s].row
    OBVIOUS
  <2>1. s # r /\ call'[s] = call[s]
    BY <1>2 DEF Over
  <2>2. x \in Requests /\ entry[x].status \in {"cancelled", "gone"}
    BY <2>1 DEF EntriesInv
  <2>3. entry'[x] = entry[x]
    BY <1>3, <1>4, <2>2
  <2> QED BY <2>1, <2>2, <2>3
<1>6. \A s \in Requests : call'[s].pc \in {"idle", "number", "book"} => entry'[s].status = "none"
  <2> SUFFICES ASSUME NEW s \in Requests, call'[s].pc \in {"idle", "number", "book"}
               PROVE  entry'[s].status = "none"
    OBVIOUS
  <2>1. s # r /\ call'[s] = call[s]
    BY <1>2 DEF Over
  <2>2. entry[s].status = "none"
    BY <2>1 DEF EntriesInv
  <2> QED BY <1>3, <2>1, <2>2
<1>7. \A s \in Requests : call'[s].pc \in {"write", "cancel", "delete"} => call'[s].row \in Requests
  BY <1>1, <1>2 DEF EntriesInv
<1>8. GoneWereCancelled
  BY <1>3 DEF GoneWereCancelled
<1> QED BY <1>2, <1>3, <1>5, <1>6, <1>7, <1>8 DEF EntriesInv

\* A removal comes in when its row is not completed.
LEMMA FindEntryKeeps ==
    ASSUME EntriesInv, NEW r \in Requests, NEW s \in Requests, FindEntry(r, s)
    PROVE  EntriesInv' /\ GoneWereCancelled
<1>1. PICK pc \in {"write", "cancel", "delete"} :
         /\ Begin(r, [pc |-> pc, row |-> s])
         /\ pc = "delete" => entry[s].status = "cancelled"
         /\ UNCHANGED entry
  BY DEF FindEntry, Removable, LiveEntries, bvars
<1> PICK q : q = [pc |-> pc, row |-> s]
  OBVIOUS
<1>2. /\ Kept' /\ OneOpen' /\ call'[r] = q
      /\ \A x \in Requests : x # r => call'[x] = call[x]
  BY <1>1, BeginLeaves DEF EntriesInv
<1> QED BY <1>1, <1>2, EntryQuietKeeps

\* A row is cancelled or deleted: no state that a removal has seen is undone.
LEMMA ChangeEntryKeeps ==
    ASSUME EntriesInv, NEW r \in Requests, WriteEntry(r) \/ CancelEntry(r) \/ DeleteEntry(r)
    PROVE  EntriesInv' /\ GoneWereCancelled
<1> PICK s : s = call[r].row
  OBVIOUS
<1>1. PICK pc \in {"write", "cancel", "delete"} :
         /\ call[r].pc = pc /\ Go(r, pc, Over) /\ s \in LiveEntries
         /\ pc = "write" => entry' = entry
         /\ pc = "cancel" => entry' = [entry EXCEPT ![s].status = "cancelled"]
         /\ pc = "delete" => entry' = [entry EXCEPT ![s].status = "gone"]
  BY DEF WriteEntry, CancelEntry, DeleteEntry
<1>2. Over.pc = "done" /\ s \in Requests /\ entry[s].status \in {"completed", "cancelled"}
  BY <1>1 DEF Over, LiveEntries
<1>3. /\ Kept' /\ OneOpen' /\ call'[r] = Over
      /\ \A x \in Requests : x # r => call'[x] = call[x]
  <2>1. Kept /\ OneOpen /\ pc \notin {"idle", "done", "swallowed", "lost"} /\ Over.pc # "idle"
    BY <1>2 DEF EntriesInv
  <2> QED BY <1>1, <2>1, GoLeaves
<1>4. /\ entry' = [x \in Requests |-> [status |-> entry'[x].status, number |-> entry'[x].number]]
      /\ \A x \in Requests : x # s => entry'[x].status = entry[x].status
      /\ entry'[s].status = IF pc = "write" THEN entry[s].status
                            ELSE IF pc = "cancel" THEN "cancelled" ELSE "gone"
  <2>1. CASE pc = "write"
    BY <1>1, <2>1 DEF EntriesInv
  <2>2. CASE pc \in {"cancel", "delete"}
    <3>1. PICK w : w = IF pc = "cancel" THEN "cancelled" ELSE "gone"
      OBVIOUS
    <3>2. entry' = [entry EXCEPT ![s].status = w]
      BY <1>1, <2>2, <3>1
    <3>3. entry[s] = [status |-> entry[s].status, number |-> entry[s].number]
      BY <1>2 DEF EntriesInv
    <3>4. entry'[s] = [status |-> w, number |-> entry[s].number]
      BY <1>2, <3>2, <3>3 DEF EntriesInv
    <3>5. \A x \in Requests : x # s => entry'[x] = entry[x]
      BY <3>2 DEF EntriesInv
    <3>6. entry' = [x \in Requests |-> entry'[x]]
      BY <3>2 DEF EntriesInv
    <3>7. \A x \in Requests : entry'[x] = [status |-> entry'[x].status, number |-> entry'[x].number]
      BY <3>4, <3>5 DEF EntriesInv
    <3> QED BY <2>2, <3>1, <3>4, <3>5, <3>6, <3>7
  <2> QED BY <2>1, <2>2
<1>5. GoneWereCancelled
  <2> SUFFICES ASSUME NEW x \in Requests, entry[x].status # "gone", entry'[x].status = "gone"
               PROVE  entry[x].status = "cancelled"
    BY DEF GoneWereCancelled
  <2>1. x = s /\ pc = "delete"
    BY <1>2, <1>4
  <2> QED BY <1>1, <1>2, <2>1 DEF EntriesInv
<1>6. \A x \in Requests : entry[x].status \in {"cancelled", "gone"} =>
         entry'[x].status \in {"cancelled", "gone"}
  BY <1>4
<1>7. \A x \in Requests : entry[x].status = "none" => entry'[x].status = "none"
  BY <1>2, <1>4
<1>8. \A x \in Requests : call'[x].pc \in {"write", "cancel", "delete"} => call'[x].row \in Requests
  BY <1>2, <1>3 DEF EntriesInv
<1>9. \A x \in Requests : call'[x].pc = "delete" => entry'[call'[x].row].status \in {"cancelled", "gone"}
  BY <1>2, <1>3, <1>6 DEF EntriesInv
<1>10. \A x \in Requests : call'[x].pc \in {"idle", "number", "book"} => entry'[x].status = "none"
  BY <1>2, <1>3, <1>7 DEF EntriesInv
<1> QED BY <1>3, <1>4, <1>5, <1>8, <1>9, <1>10 DEF EntriesInv

\* Every step keeps the invariant and removes cancelled rows only.
LEMMA EntryStepKeeps ==
    ASSUME EntriesInv, NEW r \in Requests, EntryStep(r)
    PROVE  EntriesInv' /\ GoneWereCancelled
<1>1. CASE Lose(r) /\ UNCHANGED bvars
  <2> PICK q : q = [pc |-> "lost"]
    OBVIOUS
  <2>1. /\ Kept' /\ OneOpen' /\ call'[r] = q
        /\ \A s \in Requests : s # r => call'[s] = call[s]
    BY <1>1, LoseLeaves DEF EntriesInv
  <2> QED BY <1>1, <2>1, EntryQuietKeeps DEF bvars
<1> QED BY <1>1, EntryCreateKeeps, InsertEntryKeeps, FindEntryKeeps, ChangeEntryKeeps DEF EntryStep

-----------------------------------------------------------------------------
\* The invariant holds at first.
LEMMA EntriesInvAtFirst == RequestsInit /\ EntriesInit => EntriesInv
<1> SUFFICES ASSUME RequestsInit, EntriesInit PROVE EntriesInv
  OBVIOUS
<1>1. \A r \in Requests : call[r].pc = "idle"
  BY DEF RequestsInit, Unasked
<1> QED BY <1>1, KeptAtFirst DEF EntriesInit, EntriesInv, NoEntry

\* Every step keeps the invariant.
LEMMA EntriesInvStays == EntriesInv /\ [EntriesNext]_<<rvars, bvars>> => EntriesInv'
<1> SUFFICES ASSUME EntriesInv, UNCHANGED <<rvars, bvars>> PROVE EntriesInv'
  BY EntryStepKeeps DEF EntriesNext
<1>1. Kept' /\ OneOpen'
  BY NothingLeaves DEF EntriesInv
<1> QED BY <1>1 DEF EntriesInv, rvars, bvars

\* For any number of requests, in any interleaving, a row that goes was cancelled when it went.
THEOREM OnlyCancelledAreRemoved == EntriesSpec => OnlyCancelledGo
<1>3. EntriesInv /\ [EntriesNext]_<<rvars, bvars>> =>
         [\A r \in Requests :
             entry[r].status # "gone" /\ entry'[r].status = "gone" => entry[r].status = "cancelled"]_bvars
  BY EntryStepKeeps DEF EntriesNext, GoneWereCancelled
<1> QED BY EntriesInvAtFirst, EntriesInvStays, <1>3, PTL DEF EntriesSpec, OnlyCancelledGo

-----------------------------------------------------------------------------
(* CompanySettingService *)

SettingsCalls == [pc: {"first", "create", "write"}, put: Puts, row: Requests]
                 \cup {Unasked, Over, [pc |-> "lost"]}

\* Until it has found a row a request is about its own; one that writes has found or made a
\* row; one that makes a row has found none, which still holds if nothing overlapped it, and
\* what has come in since was overlapped by it.
SettingsInv ==
    /\ Kept /\ SoloOpen
    /\ call \in [Requests -> SettingsCalls]
    /\ settings \in [Requests -> Keys \cup {"none"}]
    /\ \A r \in Requests :
          /\ call[r].pc \in {"first", "create"} => call[r].row = r
          /\ call[r].pc = "write" => settings[call[r].row] # "none"
          /\ Solo(r) /\ call[r].pc = "create" => Stored = {}
          /\ call[r].pc = "create" => \A s \in Stored : ~alone[s]
          /\ call[r].pc = "idle" => r \notin Stored
    /\ SettledRowIsOne

\* What a step of r has to leave: the rows there are, and its own if it has found none.
LEMMA SettingsMoveKeeps ==
    ASSUME SettingsInv, NEW r \in Requests, NEW q \in SettingsCalls, q.pc # "idle",
           Kept', SoloOpen', OnlyFor(r, q),
           \A s \in Requests : call[s].pc # "idle" /\ alone'[s] => alone[s],
           settings' \in [Requests -> Keys \cup {"none"}],
           Stored' = Stored \/ (Stored' = Stored \cup {r} /\ call[r].pc = "create" /\ alone' = alone),
           q.pc \in {"first", "create"} => q.row = r,
           q.pc = "write" => settings'[q.row] # "none",
           q.pc = "create" => Stored' = {}
    PROVE  SettingsInv'
<1>0. call'[r] = q /\ \A s \in Requests : s # r => call'[s] = call[s] /\ ~Solo(s)'
  BY DEF OnlyFor
<1>1. call' \in [Requests -> SettingsCalls]
  <2>1. \A s \in Requests : call'[s] \in SettingsCalls
    BY <1>0 DEF SettingsInv
  <2> QED BY <2>1 DEF Kept
<1>2. Stored \subseteq Requests /\ \A s \in Stored : call[s].pc # "idle"
  BY DEF SettingsInv, Stored
<1>3. CASE Stored' = Stored
  <2>1. \A s \in Stored : alone'[s] => alone[s]
    BY <1>2
  <2>2. SettledRowIsOne'
    BY <1>3, <2>1 DEF SettingsInv, SettledRowIsOne
  <2>3. ASSUME NEW s \in Requests
        PROVE  /\ call'[s].pc \in {"first", "create"} => call'[s].row = s
               /\ call'[s].pc = "write" => settings'[call'[s].row] # "none"
               /\ Solo(s)' /\ call'[s].pc = "create" => Stored' = {}
               /\ call'[s].pc = "create" => \A t \in Stored' : ~alone'[t]
               /\ call'[s].pc = "idle" => s \notin Stored'
    <3>1. CASE s = r
      BY <1>0, <3>1
    <3>2. CASE s # r
      <4>1. call'[s] = call[s] /\ ~Solo(s)'
        BY <1>0, <3>2
      <4>2. call[s].pc = "write" => call[s].row \in Stored
        BY DEF SettingsInv, Stored, SettingsCalls, Unasked, Over
      <4>3. call[s].pc = "write" => settings'[call[s].row] # "none"
        BY <1>3, <4>2 DEF Stored
      <4> QED BY <1>3, <2>1, <4>1, <4>3 DEF SettingsInv
    <3> QED BY <3>1, <3>2
  <2> QED BY <1>1, <2>2, <2>3 DEF SettingsInv
<1>4. CASE Stored' = Stored \cup {r} /\ call[r].pc = "create" /\ alone' = alone
  <2>0. Open(r)
    BY <1>4 DEF Open
  <2>1. \A s \in Stored : s # r => ~alone[r] /\ ~alone[s]
    BY <1>4, <2>0 DEF SettingsInv, Solo
  <2>2. SettledRowIsOne'
    BY <1>4, <2>1 DEF SettingsInv, SettledRowIsOne
  <2>3. q.pc # "create"
    BY <1>4
  <2>4. ASSUME NEW s \in Requests
        PROVE  /\ call'[s].pc \in {"first", "create"} => call'[s].row = s
               /\ call'[s].pc = "write" => settings'[call'[s].row] # "none"
               /\ Solo(s)' /\ call'[s].pc = "create" => Stored' = {}
               /\ call'[s].pc = "create" => \A t \in Stored' : ~alone'[t]
               /\ call'[s].pc = "idle" => s \notin Stored'
    <3>1. CASE s = r
      BY <1>0, <2>3, <3>1
    <3>2. CASE s # r
      <4>1. call'[s] = call[s] /\ ~Solo(s)'
        BY <1>0, <3>2
      <4>2. call[s].pc = "write" => call[s].row \in Stored
        BY DEF SettingsInv, Stored, SettingsCalls, Unasked, Over
      <4>3. call[s].pc = "write" => settings'[call[s].row] # "none"
        BY <1>4, <4>2 DEF Stored
      <4>4. call[s].pc = "create" => Open(s)
        BY DEF Open
      <4>5. call[s].pc = "create" => ~alone[r]
        BY <2>0, <3>2, <4>4 DEF SettingsInv, SoloOpen, Solo
      <4> QED BY <1>4, <3>2, <4>1, <4>3, <4>5 DEF SettingsInv
    <3> QED BY <3>1, <3>2
  <2> QED BY <1>1, <2>2, <2>4 DEF SettingsInv
<1> QED BY <1>3, <1>4

\* Every step keeps the invariant: a row is made only where none was found.
LEMMA SettingsStepKeeps ==
    ASSUME SettingsInv, NEW r \in Requests, SettingsStep(r)
    PROVE  SettingsInv'
<1>0. /\ Kept /\ SoloOpen /\ settings \in [Requests -> Keys \cup {"none"}]
      /\ call[r].pc \in {"first", "create", "write"} =>
            call[r] \in [pc: {"first", "create", "write"}, put: Puts, row: Requests]
      /\ Over \in SettingsCalls /\ Over.pc = "done"
  BY DEF SettingsInv, SettingsCalls, Unasked, Over
<1>1. ASSUME NEW put \in Puts, AskSettings(r, put) PROVE SettingsInv'
  <2>1. PICK q : q = [pc |-> "first", put |-> put, row |-> r]
    OBVIOUS
  <2>2. q \in SettingsCalls /\ q.pc = "first" /\ q.row = r /\ Begin(r, q) /\ settings' = settings
    BY <1>1, <2>1 DEF AskSettings, svars, SettingsCalls
  <2>3. /\ Kept' /\ SoloOpen' /\ OnlyFor(r, q)
        /\ \A s \in Requests : call[s].pc # "idle" /\ alone'[s] => alone[s]
    BY <1>0, <2>2, SoloBegins, OverlappedStays
  <2>4. Stored' = Stored
    BY <2>2 DEF Stored
  <2> QED BY <1>0, <2>2, <2>3, <2>4, SettingsMoveKeeps
<1>2. ASSUME NEW q \in SettingsCalls, q.pc # "idle", NEW pc \in {"first", "create", "write"}, Go(r, pc, q),
             settings' \in [Requests -> Keys \cup {"none"}],
             Stored' = Stored \/ (Stored' = Stored \cup {r} /\ pc = "create"),
             q.pc \in {"first", "create"} => q.row = r,
             q.pc = "write" => settings'[q.row] # "none",
             q.pc = "create" => Stored' = {}
      PROVE  SettingsInv'
  <2>1. /\ Kept' /\ SoloOpen' /\ OnlyFor(r, q) /\ call[r].pc = pc /\ alone' = alone
    BY <1>0, <1>2, SoloGoes
  <2> QED BY <1>2, <2>1, SettingsMoveKeeps
<1>3. ASSUME NEW s \in Requests
      PROVE  LET q == AfterRow([call[r] EXCEPT !.row = s]) IN
             call[r].pc \in {"first", "create", "write"} =>
                q \in SettingsCalls /\ q.pc \in {"done", "write"} /\ (q.pc = "write" => q.row = s)
  <2> SUFFICES ASSUME call[r].pc \in {"first", "create", "write"}
               PROVE  LET q == AfterRow([call[r] EXCEPT !.row = s]) IN
                      q \in SettingsCalls /\ q.pc \in {"done", "write"} /\ (q.pc = "write" => q.row = s)
    OBVIOUS
  <2>1. call[r] \in [pc: {"first", "create", "write"}, put: Puts, row: Requests]
    BY <1>0
  <2>2. [[call[r] EXCEPT !.row = s] EXCEPT !.pc = "write"] = [pc |-> "write", put |-> call[r].put, row |-> s]
    <3>1. PICK p : p = [call[r] EXCEPT !.row = s]
      OBVIOUS
    <3>2. p = [pc |-> call[r].pc, put |-> call[r].put, row |-> s]
      BY <2>1, <3>1
    <3>3. [p EXCEPT !.pc = "write"] = [pc |-> "write", put |-> call[r].put, row |-> s]
      BY <3>2
    <3> QED BY <3>1, <3>3
  <2>3. [pc |-> "write", put |-> call[r].put, row |-> s] \in SettingsCalls
    BY <2>1 DEF SettingsCalls
  <2>4. \/ AfterRow([call[r] EXCEPT !.row = s]) = Over
        \/ AfterRow([call[r] EXCEPT !.row = s]) = [pc |-> "write", put |-> call[r].put, row |-> s]
    BY <2>2 DEF AfterRow
  <2> QED BY <1>0, <2>3, <2>4
<1>4. CASE FindSettings(r)
  <2>1. call[r].pc = "first" /\ settings' = settings /\ Stored' = Stored /\ call[r].row = r
    BY <1>4 DEF FindSettings, svars, Stored, SettingsInv
  <2>2. CASE Stored = {}
    <3>1. PICK q : q = At(r, "create")
      OBVIOUS
    <3>2. q \in SettingsCalls /\ q.pc = "create" /\ q.row = r /\ Go(r, "first", q)
      BY <1>0, <1>4, <2>1, <2>2, <3>1 DEF At, SettingsCalls, FindSettings, Found
    <3> QED BY <1>0, <1>2, <2>1, <2>2, <3>2
  <2>3. CASE Stored # {}
    <3>1. PICK s \in Stored : Go(r, "first", AfterRow([call[r] EXCEPT !.row = s]))
      BY <1>4, <2>3 DEF FindSettings, Found
    <3>2. PICK q : q = AfterRow([call[r] EXCEPT !.row = s])
      OBVIOUS
    <3>3. q \in SettingsCalls /\ q.pc \in {"done", "write"} /\ (q.pc = "write" => q.row = s)
      BY <1>3, <2>1, <3>2 DEF Stored
    <3> QED BY <1>0, <1>2, <2>1, <3>1, <3>2, <3>3 DEF Stored
  <2> QED BY <2>2, <2>3
<1>5. CASE CreateDefaultSettings(r)
  <2>1. call[r].pc = "create" /\ settings' = [settings EXCEPT ![r] = "unset"] /\ call[r].row = r
        /\ Go(r, "create", AfterRow(call[r]))
    BY <1>5 DEF CreateDefaultSettings, SettingsInv
  <2>2. PICK q : q = AfterRow(call[r])
    OBVIOUS
  <2>3. [call[r] EXCEPT !.row = r] = call[r]
    BY <1>0, <2>1
  <2>4. q \in SettingsCalls /\ q.pc \in {"done", "write"} /\ (q.pc = "write" => q.row = r)
    BY <1>3, <2>1, <2>2, <2>3
  <2>5. settings' \in [Requests -> Keys \cup {"none"}] /\ settings'[r] = "unset" /\ Stored' = Stored \cup {r}
    BY <1>0, <2>1 DEF Keys, Stored
  <2> QED BY <1>2, <2>1, <2>2, <2>4, <2>5
<1>6. CASE WriteSettings(r)
  <2>1. /\ call[r].pc = "write" /\ Go(r, "write", Over) /\ call[r].row \in Requests
        /\ settings[call[r].row] # "none"
    BY <1>0, <1>6 DEF WriteSettings, SettingsInv
  <2>2. settings' = [settings EXCEPT ![call[r].row] = IF call[r].put \in Keys THEN call[r].put ELSE @]
    BY <1>6 DEF WriteSettings
  <2>3. settings' \in [Requests -> Keys \cup {"none"}] /\ Stored' = Stored
    BY <1>0, <2>1, <2>2 DEF Keys, Stored
  <2> QED BY <1>0, <1>2, <2>1, <2>3
<1>7. CASE Lose(r) /\ UNCHANGED svars
  <2>1. PICK q : q = [pc |-> "lost"]
    OBVIOUS
  <2>2. Kept' /\ SoloOpen' /\ OnlyFor(r, q) /\ alone' = alone /\ q.pc = "lost" /\ q \in SettingsCalls
    BY <1>0, <1>7, <2>1, SoloLost DEF Lose, SettingsCalls
  <2>3. settings' = settings /\ Stored' = Stored
    BY <1>7 DEF svars, Stored
  <2> QED BY <1>0, <2>2, <2>3, SettingsMoveKeeps
<1> QED BY <1>1, <1>4, <1>5, <1>6, <1>7 DEF SettingsStep

\* The invariant holds at first.
LEMMA SettingsInvAtFirst == RequestsInit /\ SettingsInit => SettingsInv
<1> SUFFICES ASSUME RequestsInit, SettingsInit PROVE SettingsInv
  OBVIOUS
<1>1. \A r \in Requests : call[r] = Unasked /\ call[r].pc = "idle"
  BY DEF RequestsInit, Unasked
<1>2. call \in [Requests -> SettingsCalls] /\ settings \in [Requests -> Keys \cup {"none"}] /\ Stored = {}
  BY DEF RequestsInit, SettingsInit, SettingsCalls, Stored
<1> QED BY <1>1, <1>2, SoloAtFirst DEF SettingsInv, SettledRowIsOne

\* Every step keeps the invariant.
LEMMA SettingsInvStays == SettingsInv /\ [SettingsNext]_<<rvars, svars>> => SettingsInv'
<1> SUFFICES ASSUME SettingsInv, [SettingsNext]_<<rvars, svars>> PROVE SettingsInv'
  OBVIOUS
<1>1. CASE UNCHANGED <<rvars, svars>>
  <2>1. Kept' /\ SoloOpen' /\ \A r \in Requests : Solo(r)' <=> Solo(r)
    BY <1>1, SoloStays DEF SettingsInv
  <2>2. call' = call /\ alone' = alone /\ settings' = settings
    BY <1>1 DEF rvars, svars
  <2> QED BY <2>1, <2>2 DEF SettingsInv, SettledRowIsOne, Stored
<1> QED BY <1>1, SettingsStepKeeps DEF SettingsNext

\* For any number of requests, racing from some time on and cut off anywhere: the row that a
\* request nothing overlapped has made is the only one of the tenant.
THEOREM SettledRowStaysOne == SettingsSpec => []SettledRowIsOne
<1>1. SettingsInv => SettledRowIsOne
  BY DEF SettingsInv
<1> QED BY SettingsInvAtFirst, SettingsInvStays, <1>1, PTL DEF SettingsSpec

-----------------------------------------------------------------------------
(* InventoryService *)

Movement  == [previous: Int, new: Int]
MoveCalls == [pc: {"read", "commit"}, todo: Seq(MoveValues) \ {<<>>}, seen: Int]
CheckPcs  == {"stocks", "look", "raise", "refresh"}
AlertPcs  == CheckPcs \cup {"resolve"}

\* The record of a request for alerts.
OfAlerts(q) == q.pc \in CheckPcs => q = [pc |-> q.pc, todo |-> q.todo, alert |-> q.alert, whole |-> q.whole]

\* The movements of i make a chain that ends in the stock n.
Chain(m, n) ==
    /\ \A k \in DOMAIN m : k > 1 => m[k].previous = m[k - 1].new
    /\ m # <<>> => n = m[Len(m)].new

\* A movement that is to be committed has seen the stock there is, if its turn it is.
StockInv ==
    /\ Kept /\ OneOpen
    /\ stock \in [Items -> Int]
    /\ movements \in [Items -> Seq(Movement)]
    /\ \A r \in Requests :
          /\ call[r].pc \in {"read", "commit"} => call[r] \in MoveCalls
          /\ call[r].pc \in {"read", "commit", "idle", "done", "lost"} \cup AlertPcs
          /\ OfAlerts(call[r])
          /\ OneByOne /\ call[r].pc = "commit" => call[r].seen = stock[Head(call[r].todo).item]
    /\ StockFollowsMovements

\* A movement that starts where the chain ends makes it longer.
LEMMA ChainGrows ==
    ASSUME NEW m \in Seq(Movement), NEW n \in Int, Chain(m, n), NEW k \in Int
    PROVE  /\ Append(m, [previous |-> n, new |-> k]) \in Seq(Movement)
           /\ Chain(Append(m, [previous |-> n, new |-> k]), k)
<1> DEFINE e == [previous |-> n, new |-> k]
           a == Append(m, e)
<1>1. e \in Movement /\ e.previous = n /\ e.new = k
  BY DEF Movement
<1> HIDE DEF e
<1>2. /\ a \in Seq(Movement) /\ Len(a) = Len(m) + 1 /\ a[Len(m) + 1] = e /\ Len(m) \in Nat
      /\ \A j \in 1..Len(m) : a[j] = m[j]
  BY <1>1
<1>3. DOMAIN a = 1..(Len(m) + 1) /\ DOMAIN m = 1..Len(m) /\ a # <<>>
  BY <1>1, <1>2
<1>4. m # <<>> <=> Len(m) # 0
  OBVIOUS
<1> HIDE DEF a
<1>5. ASSUME NEW j \in DOMAIN a, j > 1 PROVE a[j].previous = a[j - 1].new
  <2>1. CASE j = Len(m) + 1
    BY <1>1, <1>2, <1>3, <1>4, <1>5, <2>1 DEF Chain
  <2>2. CASE j # Len(m) + 1
    <3>1. j \in DOMAIN m /\ j - 1 \in 1..Len(m) /\ a[j] = m[j] /\ a[j - 1] = m[j - 1]
      BY <1>2, <1>3, <1>5, <2>2
    <3> QED BY <1>5, <3>1 DEF Chain
  <2> QED BY <2>1, <2>2
<1>6. Chain(a, k)
  BY <1>1, <1>2, <1>5 DEF Chain
<1> QED BY <1>2, <1>6 DEF a, e

\* What a step of r that writes no stock has to leave of its record.
LEMMA StockQuietKeeps ==
    ASSUME StockInv, NEW r \in Requests, NEW q, UNCHANGED <<stock, movements>>,
           Kept', OneOpen', OneByOne' => OneByOne, call'[r] = q,
           \A s \in Requests : s # r => call'[s] = call[s],
           q.pc \in {"read", "commit"} => q \in MoveCalls,
           q.pc \in {"read", "commit", "done", "lost"} \cup AlertPcs, OfAlerts(q),
           q.pc = "commit" => q.seen = stock[Head(q.todo).item]
    PROVE  StockInv'
<1>1. ASSUME NEW s \in Requests
      PROVE  /\ call'[s].pc \in {"read", "commit"} => call'[s] \in MoveCalls
             /\ call'[s].pc \in {"read", "commit", "idle", "done", "lost"} \cup AlertPcs
             /\ OfAlerts(call'[s])
             /\ OneByOne' /\ call'[s].pc = "commit" => call'[s].seen = stock[Head(call'[s].todo).item]
  <2>1. CASE s = r
    BY <2>1
  <2>2. CASE s # r
    BY <2>2 DEF StockInv
  <2> QED BY <2>1, <2>2
<1>2. StockFollowsMovements'
  BY DEF StockInv, StockFollowsMovements
<1>3. \A s \in Requests : OfAlerts(call[s])'
  BY <1>1 DEF OfAlerts
<1> QED BY <1>1, <1>2, <1>3 DEF StockInv

\* A request that comes in writes no stock.
LEMMA StockComesInKeeps ==
    ASSUME StockInv, NEW r \in Requests, NEW q, Begin(r, q), UNCHANGED <<stock, movements>>,
           q.pc = "read" => q \in MoveCalls, q.pc \in {"read", "done"} \cup AlertPcs, OfAlerts(q)
    PROVE  StockInv'
<1>1. /\ Kept' /\ OneOpen' /\ call'[r] = q /\ (OneByOne' => OneByOne)
      /\ \A s \in Requests : s # r => call'[s] = call[s]
  BY BeginLeaves DEF StockInv, AlertPcs, CheckPcs
<1>2. q.pc # "commit"
  BY DEF AlertPcs, CheckPcs
<1> QED BY <1>1, <1>2, StockQuietKeeps

\* A request that goes on without a stock to write.
LEMMA StockGoesOnKeeps ==
    ASSUME StockInv, NEW r \in Requests, NEW pc \in AlertPcs \cup {"read"}, NEW q, Go(r, pc, q),
           UNCHANGED <<stock, movements>>,
           q.pc = "commit" => q \in MoveCalls /\ q.seen = stock[Head(q.todo).item],
           q.pc \in {"commit", "done"} \cup AlertPcs, OfAlerts(q)
    PROVE  StockInv'
<1>1. /\ Kept' /\ OneOpen' /\ call'[r] = q /\ (OneByOne' => OneByOne)
      /\ \A s \in Requests : s # r => call'[s] = call[s]
  BY GoLeaves DEF StockInv, AlertPcs, CheckPcs
<1>2. q.pc # "read"
  BY DEF AlertPcs, CheckPcs
<1> QED BY <1>1, <1>2, StockQuietKeeps

\* A movement begins with a stock it reads, and each movement of a list comes in turn.
LEMMA MoveShape ==
    ASSUME StockInv, NEW r \in Requests, call[r].pc \in {"read", "commit"}
    PROVE  /\ call[r] \in MoveCalls /\ call[r].seen \in Int
           /\ Head(call[r].todo) \in MoveValues /\ Head(call[r].todo).item \in Items
           /\ Head(call[r].todo).quantity \in Int
           /\ Head(call[r].todo).type \in {"in", "out", "adjustment"}
<1>1. call[r] \in MoveCalls
  BY DEF StockInv
<1>2. call[r].todo \in Seq(MoveValues) /\ call[r].todo # <<>> /\ call[r].seen \in Int
  BY <1>1 DEF MoveCalls
<1>3. Head(call[r].todo) \in MoveValues
  BY <1>2
<1> QED BY <1>1, <1>2, <1>3 DEF MoveValues, Amounts

\* A movement has seen the stock it starts from.
LEMMA ReadStockKeeps ==
    ASSUME StockInv, NEW r \in Requests, ReadStock(r)
    PROVE  StockInv'
<1> PICK q, n, todo : todo = call[r].todo /\ n = stock[Head(todo).item]
                      /\ q = [At(r, "commit") EXCEPT !.seen = n]
  OBVIOUS
<1>1. call[r].pc = "read" /\ Go(r, "read", q) /\ UNCHANGED <<stock, movements>>
  BY DEF ReadStock, ivars
<1>2. call[r] \in MoveCalls /\ Head(todo).item \in Items
  BY <1>1, MoveShape
<1>3. n \in Int
  BY <1>2 DEF StockInv
<1>4. q = [pc |-> "commit", todo |-> todo, seen |-> n]
  BY <1>2 DEF At, MoveCalls
<1>5. q \in MoveCalls /\ q.pc = "commit" /\ q.seen = stock[Head(q.todo).item]
  BY <1>2, <1>3, <1>4 DEF MoveCalls
<1>6. OfAlerts(q)
  BY <1>5 DEF OfAlerts, CheckPcs
<1> QED BY <1>1, <1>5, <1>6, StockGoesOnKeeps

\* A commit adds the movement and writes the stock the movement leaves.
LEMMA CommitMovementKeeps ==
    ASSUME StockInv, NEW r \in Requests, CommitMovement(r)
    PROVE  StockInv'
<1> PICK q, m, seen, i, new : /\ q = AfterMovement(call[r]) /\ m = Head(call[r].todo) /\ seen = call[r].seen
                              /\ i = m.item /\ new = NewQuantity(m, seen)
  OBVIOUS
<1>1. /\ call[r].pc = "commit" /\ Go(r, "commit", q)
      /\ stock' = [stock EXCEPT ![i] = new]
      /\ movements' = [movements EXCEPT ![i] = Append(@, [previous |-> seen, new |-> new])]
  BY DEF CommitMovement
<1>2. call[r] \in MoveCalls /\ seen \in Int /\ i \in Items /\ new \in Int
  BY <1>1, MoveShape DEF NewQuantity
<1>3. (q.pc = "read" /\ q \in MoveCalls) \/ q = Over
  <2>1. CASE Len(call[r].todo) = 1
    BY <2>1 DEF AfterMovement
  <2>2. CASE Len(call[r].todo) # 1
    <3>1. call[r].todo \in Seq(MoveValues) /\ call[r].todo # <<>>
      BY <1>2 DEF MoveCalls
    <3>2. ASSUME NEW l \in Seq(MoveValues), l # <<>>, Len(l) # 1
          PROVE  Tail(l) \in Seq(MoveValues) /\ Tail(l) # <<>>
      <4>1. Len(l) \in Nat /\ Len(l) # 0
        BY <3>2
      <4>2. Tail(l) \in Seq(MoveValues) /\ Len(Tail(l)) = Len(l) - 1
        BY <3>2
      <4>3. Len(Tail(l)) # 0
        BY <3>2, <4>1, <4>2
      <4>4. \A t : t = <<>> => Len(t) = 0
        OBVIOUS
      <4> QED BY <4>2, <4>3, <4>4
    <3>3. q = [pc |-> "read", todo |-> Tail(call[r].todo), seen |-> 0]
      BY <1>2, <2>2 DEF AfterMovement, MoveCalls
    <3> QED BY <2>2, <3>1, <3>2, <3>3 DEF MoveCalls
  <2> QED BY <2>1, <2>2
<1>4. /\ Kept' /\ OneOpen' /\ call'[r] = q
      /\ \A s \in Requests : s # r => call'[s] = call[s]
      /\ OneByOne' => OneByOne /\ \A s \in Requests : s # r => ~Open(s)'
  <2>1. Kept /\ OneOpen /\ q.pc # "idle"
    BY <1>3 DEF StockInv, Over
  <2> QED BY <1>1, <2>1, GoLeaves
<1>5. stock' \in [Items -> Int] /\ movements' \in [Items -> Seq(Movement)]
  <2>1. [previous |-> seen, new |-> new] \in Movement
    BY <1>2 DEF Movement
  <2>2. Append(movements[i], [previous |-> seen, new |-> new]) \in Seq(Movement)
    BY <1>2, <2>1 DEF StockInv
  <2> QED BY <1>1, <1>2, <2>2 DEF StockInv
<1>6. ASSUME NEW s \in Requests
      PROVE  /\ call'[s].pc \in {"read", "commit"} => call'[s] \in MoveCalls
             /\ call'[s].pc \in {"read", "commit", "idle", "done", "lost"} \cup AlertPcs
             /\ OfAlerts(call'[s])
             /\ OneByOne' => call'[s].pc # "commit"
  <2>1. CASE s = r
    BY <1>3, <1>4, <2>1 DEF Over, OfAlerts, CheckPcs
  <2>2. CASE s # r
    BY <1>4, <2>2 DEF StockInv, Open
  <2> QED BY <2>1, <2>2
<1>7. ASSUME OneByOne' PROVE \A j \in Items : Chain(movements'[j], stock'[j])
  <2>1. OneByOne /\ seen = stock[i]
    BY <1>1, <1>4, <1>7 DEF StockInv
  <2>2. \A j \in Items : Chain(movements[j], stock[j])
    BY <2>1 DEF StockInv, StockFollowsMovements, Chain
  <2>3. movements'[i] = Append(movements[i], [previous |-> seen, new |-> new]) /\ stock'[i] = new
    BY <1>1, <1>2 DEF StockInv
  <2>4. movements[i] \in Seq(Movement) /\ stock[i] \in Int
    BY <1>2 DEF StockInv
  <2>5. Chain(movements'[i], stock'[i])
    BY <1>2, <2>1, <2>2, <2>3, <2>4, ChainGrows
  <2>6. \A j \in Items : j # i => movements'[j] = movements[j] /\ stock'[j] = stock[j]
    BY <1>1 DEF StockInv
  <2> QED BY <2>2, <2>5, <2>6
<1>8. StockFollowsMovements'
  BY <1>7 DEF StockFollowsMovements, Chain
<1>9. \A s \in Requests : OfAlerts(call[s])'
  BY <1>6 DEF OfAlerts
<1> QED BY <1>4, <1>5, <1>6, <1>8, <1>9 DEF StockInv

\* Every step keeps the invariant; those of the alerts write no stock.
LEMMA StockStepKeeps ==
    ASSUME StockInv, NEW r \in Requests, StockStep(r)
    PROVE  StockInv'
<1>1. ASSUME NEW todo \in Seq(MoveValues) \ {<<>>}, Move(r, todo) PROVE StockInv'
  <2>1. PICK q : q = [pc |-> "read", todo |-> todo, seen |-> 0]
    OBVIOUS
  <2>2. Begin(r, q) /\ UNCHANGED <<stock, movements>> /\ q.pc = "read" /\ q \in MoveCalls
    BY <1>1, <2>1 DEF Move, ivars, MoveCalls
  <2>3. OfAlerts(q)
    BY <2>2 DEF OfAlerts, CheckPcs
  <2> QED BY <2>2, <2>3, StockComesInKeeps
<1>2. \A m \in MoveValues : <<m>> \in Seq(MoveValues) \ {<<>>}
  OBVIOUS
<1>3. BulkValues \subseteq Seq(MoveValues) \ {<<>>}
  <2>1. ASSUME NEW i \in Items, NEW j \in Items, NEW n \in Amounts
        PROVE  <<[item |-> i, type |-> "adjustment", quantity |-> n],
                 [item |-> j, type |-> "adjustment", quantity |-> MaxStock]>> \in Seq(MoveValues) \ {<<>>}
    <3>1. [item |-> i, type |-> "adjustment", quantity |-> n] \in MoveValues
      BY DEF MoveValues
    <3>2. [item |-> j, type |-> "adjustment", quantity |-> MaxStock] \in MoveValues
      BY StockAssumption DEF MoveValues, Amounts
    <3>3. \A a, b \in MoveValues : <<a, b>> \in Seq(MoveValues) \ {<<>>}
      OBVIOUS
    <3> QED BY <3>1, <3>2, <3>3
  <2>2. ASSUME NEW todo \in BulkValues PROVE todo \in Seq(MoveValues) \ {<<>>}
    <3>1. PICK i \in Items, j \in Items, n \in Amounts :
             todo = <<[item |-> i, type |-> "adjustment", quantity |-> n],
                      [item |-> j, type |-> "adjustment", quantity |-> MaxStock]>>
      BY DEF BulkValues
    <3> QED BY <2>1, <3>1
  <2> QED BY <2>2
<1>4. ASSUME NEW pc \in CheckPcs, NEW todo, NEW whole,
             Begin(r, [pc |-> pc, todo |-> todo, alert |-> <<>>, whole |-> whole]), UNCHANGED ivars
      PROVE  StockInv'
  <2>1. PICK q : q = [pc |-> pc, todo |-> todo, alert |-> <<>>, whole |-> whole]
    OBVIOUS
  <2>2. Begin(r, q) /\ q.pc = pc /\ OfAlerts(q)
    BY <1>4, <2>1 DEF OfAlerts
  <2> QED BY <1>4, <2>2, StockComesInKeeps DEF ivars, AlertPcs, CheckPcs
<1>5. ASSUME NEW a \in Alerts, CreateAlert(r, a) PROVE StockInv'
  BY <1>4, <1>5 DEF CreateAlert, CheckPcs
<1>6. ASSUME CheckStocks(r) PROVE StockInv'
  BY <1>4, <1>6 DEF CheckStocks, CheckPcs
<1>7. ASSUME NEW pc \in CheckPcs, NEW to \in CheckPcs, NEW todo, NEW a, NEW q, Go(r, pc, q),
             \/ q = Over
             \/ q = [At(r, to) EXCEPT !.todo = todo]
             \/ q = [At(r, to) EXCEPT !.alert = a],
             UNCHANGED <<stock, movements>>
      PROVE  StockInv'
  <2>1. call[r] = [pc |-> pc, todo |-> call[r].todo, alert |-> call[r].alert, whole |-> call[r].whole]
    BY <1>7 DEF Go, StockInv, OfAlerts
  <2>2. At(r, to) = [pc |-> to, todo |-> call[r].todo, alert |-> call[r].alert, whole |-> call[r].whole]
    BY <2>1 DEF At
  <2>3. \/ q = Over
        \/ q = [pc |-> to, todo |-> todo, alert |-> call[r].alert, whole |-> call[r].whole]
        \/ q = [pc |-> to, todo |-> call[r].todo, alert |-> a, whole |-> call[r].whole]
    BY <1>7, <2>2
  <2>4. q.pc \in {"done"} \cup CheckPcs /\ OfAlerts(q)
    BY <2>3 DEF OfAlerts, Over, CheckPcs
  <2> QED BY <1>7, <2>4, StockGoesOnKeeps DEF AlertPcs, CheckPcs
<1>8. CASE ListAlerts(r)
  <2>1. PICK q \in {Over, [At(r, "look") EXCEPT !.todo = Needed]} : Go(r, "stocks", q)
    BY <1>8 DEF ListAlerts
  <2> QED BY <1>7, <1>8, <2>1 DEF ListAlerts, ivars, CheckPcs
<1>10. CASE LookForAlert(r)
  <2>1. PICK a \in call[r].todo, to \in {"raise", "refresh"} : Go(r, "look", [At(r, to) EXCEPT !.alert = a])
    BY <1>10 DEF LookForAlert
  <2> QED BY <1>7, <1>10, <2>1 DEF LookForAlert, ivars, CheckPcs
<1>11. CASE WriteAlert(r)
  <2>1. PICK left : Go(r, call[r].pc, IF left = {} THEN Over ELSE [At(r, "look") EXCEPT !.todo = left])
    BY <1>11 DEF WriteAlert
  <2>2. PICK q \in {Over, [At(r, "look") EXCEPT !.todo = left]} : Go(r, call[r].pc, q)
    BY <2>1
  <2> QED BY <1>7, <1>11, <2>2 DEF WriteAlert, CheckPcs
<1>12. ASSUME NEW row1, FindAlert(r, row1) PROVE StockInv'
  <2>1. PICK q : q = [pc |-> "resolve", row |-> row1]
    OBVIOUS
  <2>2. Begin(r, q) /\ q.pc = "resolve" /\ OfAlerts(q)
    BY <1>12, <2>1 DEF FindAlert, OfAlerts, CheckPcs
  <2> QED BY <1>12, <2>2, StockComesInKeeps DEF FindAlert, ivars, AlertPcs
<1>13. OfAlerts(Over) /\ OfAlerts([pc |-> "lost"]) /\ Over.pc = "done"
  BY DEF Over, OfAlerts, CheckPcs
<1>14. ASSUME NEW rows, BulkResolve(r, rows) PROVE StockInv'
  BY <1>13, <1>14, StockComesInKeeps DEF BulkResolve
<1>15. CASE Resolve(r)
  BY <1>13, <1>15, StockGoesOnKeeps DEF Resolve, AlertPcs
<1>9. CASE Lose(r) /\ UNCHANGED ivars
  <2>1. /\ Kept' /\ OneOpen' /\ call'[r] = [pc |-> "lost"] /\ (OneByOne' => OneByOne)
        /\ \A s \in Requests : s # r => call'[s] = call[s]
    BY <1>9, LoseLeaves DEF StockInv
  <2> QED BY <1>9, <1>13, <2>1, StockQuietKeeps DEF ivars
<1> QED BY <1>1, <1>2, <1>3, <1>5, <1>6, <1>8, <1>9, <1>10, <1>11, <1>12, <1>14, <1>15, ReadStockKeeps,
           CommitMovementKeeps DEF StockStep

\* The invariant holds at first.
LEMMA StockInvAtFirst == RequestsInit /\ StockInit => StockInv
<1> SUFFICES ASSUME RequestsInit, StockInit PROVE StockInv
  OBVIOUS
<1>1. \A r \in Requests : call[r].pc = "idle"
  BY DEF RequestsInit, Unasked
<1>2. PICK n \in Amounts : stock = [i \in Items |-> n]
  BY DEF StockInit
<1>3. stock \in [Items -> Int] /\ movements \in [Items -> Seq(Movement)]
  BY <1>2, StockAssumption DEF StockInit, Amounts
<1>4. \A i \in Items : movements[i] = <<>>
  BY DEF StockInit
<1>5. StockFollowsMovements
  BY <1>4 DEF StockFollowsMovements
<1> QED BY <1>1, <1>3, <1>5, KeptAtFirst DEF StockInv, OfAlerts, CheckPcs

\* Every step keeps the invariant.
LEMMA StockInvStays == StockInv /\ [StockNext]_<<rvars, ivars>> => StockInv'
<1> SUFFICES ASSUME StockInv, [StockNext]_<<rvars, ivars>> PROVE StockInv'
  OBVIOUS
<1>1. CASE UNCHANGED <<rvars, ivars>>
  <2>1. Kept' /\ OneOpen' /\ OneByOne' = OneByOne
    BY <1>1, NothingLeaves DEF StockInv
  <2>2. call' = call /\ stock' = stock /\ movements' = movements
    BY <1>1 DEF rvars, ivars
  <2> QED BY <2>1, <2>2 DEF StockInv, StockFollowsMovements, OfAlerts
<1> QED BY <1>1, StockStepKeeps DEF StockNext

\* The invariant holds at the start and is kept by every step.
LEMMA StockInvariant == StockSpec => []StockInv
<1> QED BY StockInvAtFirst, StockInvStays, PTL DEF StockSpec

\* Each movement of an item starts from the stock the one before it left, and the stock is what
\* the last one left, for any number of requests that come one after the other, also if a bulk
\* update is cut off between two of its transactions: the stock a request has read is the stock
\* there is when it commits.
THEOREM StockStaysTrue == StockSpec => []StockFollowsMovements
<1>1. StockInv => StockFollowsMovements
  BY DEF StockInv
<1> QED BY <1>1, StockInvariant, PTL

\* The record of a request holds nothing out of range: what it writes as stock is between zero
\* and the most there may be, and the alerts it goes through are alerts.
RangeOf(q) ==
    /\ q.pc \in StockSteps
    /\ q.pc = "commit" => q.seen \in Amounts /\ NewQuantity(Head(q.todo), q.seen) \in Amounts
    /\ q.pc \in {"look", "raise", "refresh"} => q.todo \subseteq Alerts
    /\ q.pc \in {"raise", "refresh"} => q.alert \in Alerts

RangeInv == StockTypeOK /\ \A r \in Requests : RangeOf(call[r])

\* A step that writes no stock keeps it in range.
LEMMA RangeQuietKeeps ==
    ASSUME StockInv, RangeInv, NEW r \in Requests, NEW q, call' = [call EXCEPT ![r] = q],
           UNCHANGED <<stock, movements>>, unresolved' \subseteq Requests \X Alerts, RangeOf(q)
    PROVE  RangeInv'
<1>1. ASSUME NEW s \in Requests PROVE RangeOf(call'[s])
  <2>1. CASE s = r
    <3>1. call'[s] = q \/ call'[s] = call[s]
      BY <2>1 DEF StockInv, Kept
    <3> QED BY <3>1 DEF RangeInv
  <2>2. CASE s # r
    BY <2>2 DEF RangeInv, StockInv, Kept
  <2> QED BY <2>1, <2>2
<1>2. \A s \in Requests : RangeOf(call[s])'
  BY <1>1 DEF RangeOf
<1>3. \A s \in Requests : call'[s].pc \in StockSteps
  BY <1>1 DEF RangeOf
<1> QED BY <1>2, <1>3 DEF RangeInv, StockTypeOK

\* What a movement leaves of a stock that is there and enough is in range.
LEMMA ReadStockInRange ==
    ASSUME StockInv, RangeInv, NEW r \in Requests, ReadStock(r)
    PROVE  RangeInv'
<1> PICK q, m, n : m = Head(call[r].todo) /\ n = stock[m.item] /\ q = [At(r, "commit") EXCEPT !.seen = n]
  OBVIOUS
<1>1. /\ call[r].pc = "read" /\ call' = [call EXCEPT ![r] = q] /\ UNCHANGED ivars
      /\ Enough(m, n) /\ NewQuantity(m, n) <= MaxStock
  BY DEF ReadStock, Go
<1>2. call[r] \in MoveCalls /\ m \in MoveValues /\ m.item \in Items
  BY <1>1, MoveShape
<1>3. n \in Amounts /\ m.quantity \in Amounts /\ m.type \in {"in", "out", "adjustment"}
  BY <1>2 DEF RangeInv, StockTypeOK, MoveValues
<1>4. q.pc = "commit" /\ q.todo = call[r].todo /\ q.seen = n
  BY <1>2 DEF At, MoveCalls
<1>5. NewQuantity(m, n) \in Amounts
  BY <1>1, <1>3, StockAssumption DEF NewQuantity, Enough, Amounts
<1>6. RangeOf(q)
  BY <1>3, <1>4, <1>5 DEF RangeOf, StockSteps
<1> QED BY <1>1, <1>6, RangeQuietKeeps DEF ivars, RangeInv, StockTypeOK

\* A commit writes the stock that was found to be in range, however old the reading is.
LEMMA CommitInRange ==
    ASSUME StockInv, StockInv', RangeInv, NEW r \in Requests, CommitMovement(r)
    PROVE  RangeInv'
<1> PICK q, m, seen, i, new : /\ q = AfterMovement(call[r]) /\ m = Head(call[r].todo) /\ seen = call[r].seen
                              /\ i = m.item /\ new = NewQuantity(m, seen)
  OBVIOUS
<1>1. /\ call[r].pc = "commit" /\ call' = [call EXCEPT ![r] = q] /\ unresolved' = unresolved
      /\ stock' = [stock EXCEPT ![i] = new]
      /\ movements' = [movements EXCEPT ![i] = Append(@, [previous |-> seen, new |-> new])]
  BY DEF CommitMovement, Go
<1>2. call[r] \in MoveCalls /\ i \in Items
  BY <1>1, MoveShape
<1>3. seen \in Amounts /\ new \in Amounts
  BY <1>1 DEF RangeInv, RangeOf
<1>4. q.pc \in {"read", "done"}
  <2>1. AfterMovement(call[r]) = Over
        \/ AfterMovement(call[r]) = [pc |-> "read", todo |-> Tail(call[r].todo), seen |-> 0]
    BY <1>2 DEF AfterMovement, MoveCalls
  <2> QED BY <2>1 DEF Over
<1>5. stock' \in [Items -> Amounts]
  BY <1>1, <1>3 DEF RangeInv, StockTypeOK
<1>6. ASSUME NEW j \in Items, NEW k \in DOMAIN movements'[j]
      PROVE  movements'[j][k] \in [previous: Amounts, new: Amounts]
  <2>1. CASE j = i
    <3>1. PICK e : e = [previous |-> seen, new |-> new]
      OBVIOUS
    <3>2. e \in [previous: Amounts, new: Amounts] /\ e \in Movement
      BY <1>3, <3>1 DEF Movement, Amounts
    <3>3. movements[j] \in Seq(Movement) /\ movements'[j] = Append(movements[j], e)
      BY <1>1, <1>2, <2>1, <3>1 DEF StockInv
    <3>4. k \in 1..(Len(movements[j]) + 1) /\ Len(movements[j]) \in Nat
      BY <1>6, <3>2, <3>3
    <3>5. CASE k = Len(movements[j]) + 1
      BY <3>2, <3>3, <3>5
    <3>6. CASE k # Len(movements[j]) + 1
      <4>1. k \in DOMAIN movements[j] /\ movements'[j][k] = movements[j][k]
        BY <3>2, <3>3, <3>4, <3>6
      <4> QED BY <4>1 DEF RangeInv, StockTypeOK
    <3> QED BY <3>5, <3>6
  <2>2. CASE j # i
    <3>1. movements'[j] = movements[j]
      BY <1>1, <2>2 DEF StockInv
    <3> QED BY <1>6, <3>1 DEF RangeInv, StockTypeOK
  <2> QED BY <2>1, <2>2
<1>7. ASSUME NEW s \in Requests PROVE RangeOf(call'[s])
  <2>1. CASE s = r
    <3>1. call'[s] = q
      BY <1>1, <2>1 DEF StockInv, Kept
    <3> QED BY <1>4, <3>1 DEF RangeOf, StockSteps
  <2>2. CASE s # r
    BY <1>1, <2>2 DEF RangeInv, StockInv, Kept
  <2> QED BY <2>1, <2>2
<1>8. \A s \in Requests : RangeOf(call[s])' /\ call'[s].pc \in StockSteps
  BY <1>7 DEF RangeOf
<1> QED BY <1>1, <1>5, <1>6, <1>8 DEF RangeInv, StockTypeOK

\* No step takes a stock out of range, nor an alert to a product there is not.
LEMMA RangeStepKeeps ==
    ASSUME StockInv, StockInv', RangeInv, NEW r \in Requests, StockStep(r)
    PROVE  RangeInv'
<1>1. ASSUME NEW q, call' = [call EXCEPT ![r] = q], UNCHANGED ivars, RangeOf(q) PROVE RangeInv'
  BY <1>1, RangeQuietKeeps DEF ivars, RangeInv, StockTypeOK
<1>2. ASSUME NEW todo, Move(r, todo) PROVE RangeInv'
  <2>1. PICK q : q = [pc |-> "read", todo |-> todo, seen |-> 0]
    OBVIOUS
  <2>2. RangeOf(q)
    BY <2>1 DEF RangeOf, StockSteps
  <2> QED BY <1>1, <1>2, <2>1, <2>2 DEF Move, Begin
<1>3. ASSUME NEW todo \in SUBSET Alerts, NEW pc \in {"look", "stocks"}, NEW whole,
             Begin(r, [pc |-> pc, todo |-> todo, alert |-> <<>>, whole |-> whole]), UNCHANGED ivars
      PROVE  RangeInv'
  <2>1. PICK q : q = [pc |-> pc, todo |-> todo, alert |-> <<>>, whole |-> whole]
    OBVIOUS
  <2>2. RangeOf(q)
    BY <2>1 DEF RangeOf, StockSteps
  <2> QED BY <1>1, <1>3, <2>1, <2>2 DEF Begin
<1>4. ASSUME NEW a \in Alerts, CreateAlert(r, a) PROVE RangeInv'
  BY <1>3, <1>4 DEF CreateAlert
<1>5. CASE CheckStocks(r)
  BY <1>3, <1>5 DEF CheckStocks
<1>6. RangeOf(Over) /\ RangeOf([pc |-> "lost"])
  BY DEF RangeOf, Over, StockSteps
<1>7. ASSUME call[r].pc \in CheckPcs, NEW to
      PROVE  /\ At(r, to) = [pc |-> to, todo |-> call[r].todo, alert |-> call[r].alert, whole |-> call[r].whole]
             /\ \A todo : LET q == [At(r, to) EXCEPT !.todo = todo] IN q.pc = to /\ q.todo = todo
             /\ \A a : LET q == [At(r, to) EXCEPT !.alert = a] IN
                          q.pc = to /\ q.alert = a /\ q.todo = call[r].todo
  <2>1. call[r] = [pc |-> call[r].pc, todo |-> call[r].todo, alert |-> call[r].alert, whole |-> call[r].whole]
    BY <1>7 DEF StockInv, OfAlerts
  <2>2. At(r, to) = [pc |-> to, todo |-> call[r].todo, alert |-> call[r].alert, whole |-> call[r].whole]
    BY <2>1 DEF At
  <2> QED BY <2>2
<1>8. CASE ListAlerts(r)
  <2>1. PICK q : /\ q = Over \/ q = [At(r, "look") EXCEPT !.todo = Needed]
                 /\ call[r].pc = "stocks" /\ call' = [call EXCEPT ![r] = q] /\ UNCHANGED ivars
    BY <1>8 DEF ListAlerts, Go
  <2>2. Needed \subseteq Alerts
    BY DEF Needed
  <2>3. ASSUME q # Over PROVE q.pc = "look" /\ q.todo = Needed
    BY <1>7, <2>1, <2>3 DEF CheckPcs
  <2>4. RangeOf(q)
    BY <1>6, <2>2, <2>3 DEF RangeOf, StockSteps
  <2> QED BY <1>1, <2>1, <2>4
<1>9. CASE LookForAlert(r)
  <2>1. PICK a \in call[r].todo, to \in {"raise", "refresh"} :
           Go(r, "look", [At(r, to) EXCEPT !.alert = a]) /\ UNCHANGED ivars
    BY <1>9 DEF LookForAlert
  <2>2. PICK q : q = [At(r, to) EXCEPT !.alert = a]
    OBVIOUS
  <2>3. call[r].pc = "look" /\ call[r].todo \subseteq Alerts
    BY <2>1 DEF Go, RangeInv, RangeOf
  <2>4. q.pc = to /\ q.alert = a /\ q.todo = call[r].todo
    BY <1>7, <2>2, <2>3 DEF CheckPcs
  <2>5. RangeOf(q)
    BY <2>1, <2>3, <2>4 DEF RangeOf, StockSteps
  <2> QED BY <1>1, <2>1, <2>2, <2>5 DEF Go
<1>10. CASE WriteAlert(r)
  <2>1. PICK q, left : /\ left \in SUBSET call[r].todo
                       /\ q = Over \/ q = [At(r, "look") EXCEPT !.todo = left]
                       /\ call' = [call EXCEPT ![r] = q]
    BY <1>10 DEF WriteAlert, Go
  <2>2. /\ call[r].pc \in {"raise", "refresh"} /\ UNCHANGED <<stock, movements>>
        /\ unresolved' \in {unresolved, unresolved \cup {<<r, call[r].alert>>}}
    BY <1>10 DEF WriteAlert
  <2>3. call[r].todo \subseteq Alerts /\ call[r].alert \in Alerts
    BY <2>2 DEF RangeInv, RangeOf
  <2>4. ASSUME q # Over PROVE q.pc = "look" /\ q.todo = left
    BY <1>7, <2>1, <2>2, <2>4 DEF CheckPcs
  <2>5. RangeOf(q)
    BY <1>6, <2>1, <2>3, <2>4 DEF RangeOf, StockSteps
  <2>6. unresolved' \subseteq Requests \X Alerts
    BY <2>2, <2>3 DEF RangeInv, StockTypeOK
  <2> QED BY <2>1, <2>2, <2>5, <2>6, RangeQuietKeeps
<1>11. ASSUME NEW row1 \in unresolved, FindAlert(r, row1) PROVE RangeInv'
  <2>1. PICK q : q = [pc |-> "resolve", row |-> row1]
    OBVIOUS
  <2>2. RangeOf(q)
    BY <2>1 DEF RangeOf, StockSteps
  <2> QED BY <1>1, <1>11, <2>1, <2>2 DEF FindAlert, Begin
<1>12. ASSUME call' = [call EXCEPT ![r] = Over], unresolved' \subseteq unresolved, UNCHANGED <<stock, movements>>
       PROVE  RangeInv'
  <2>1. unresolved' \subseteq Requests \X Alerts
    BY <1>12 DEF RangeInv, StockTypeOK
  <2> QED BY <1>6, <1>12, <2>1, RangeQuietKeeps
<1>13. ASSUME NEW rows, BulkResolve(r, rows) PROVE RangeInv'
  BY <1>12, <1>13 DEF BulkResolve, Begin
<1>14. CASE Resolve(r)
  BY <1>12, <1>14 DEF Resolve, Go
<1>15. CASE Lose(r) /\ UNCHANGED ivars
  BY <1>1, <1>6, <1>15 DEF Lose
<1> QED BY <1>2, <1>4, <1>5, <1>8, <1>9, <1>10, <1>11, <1>13, <1>14, <1>15, ReadStockInRange, CommitInRange
        DEF StockStep

\* The invariant holds at first.
LEMMA RangeInvAtFirst == RequestsInit /\ StockInit => RangeInv
<1> SUFFICES ASSUME RequestsInit, StockInit PROVE RangeInv
  OBVIOUS
<1>1. \A r \in Requests : call[r].pc = "idle"
  BY DEF RequestsInit, Unasked
<1>2. stock \in [Items -> Amounts] /\ unresolved = {} /\ \A i \in Items : movements[i] = <<>>
  BY DEF StockInit
<1> QED BY <1>1, <1>2 DEF RangeInv, StockTypeOK, RangeOf, StockSteps

\* Every step keeps the invariant.
LEMMA RangeInvStays == StockInv /\ StockInv' /\ RangeInv /\ [StockNext]_<<rvars, ivars>> => RangeInv'
<1> SUFFICES ASSUME StockInv, StockInv', RangeInv, [StockNext]_<<rvars, ivars>> PROVE RangeInv'
  OBVIOUS
<1>1. CASE UNCHANGED <<rvars, ivars>>
  BY <1>1 DEF rvars, ivars, RangeInv, StockTypeOK, RangeOf
<1> QED BY <1>1, RangeStepKeeps DEF StockNext

\* However movements race, and whatever they have read long before: no stock falls below zero,
\* no movement records one below zero, and alerts are raised for products only.
THEOREM StockStaysInRange == StockSpec => []StockTypeOK
<1>3. RangeInv => StockTypeOK
  BY DEF RangeInv
<1> QED BY RangeInvAtFirst, RangeInvStays, <1>3, StockInvariant, PTL DEF StockSpec

-----------------------------------------------------------------------------
(* CategoryService *)

CatShape(q) ==
    /\ q.pc \in CatSteps
    /\ q.pc \in {"name", "insert"} =>
          q = [pc |-> q.pc, cat |-> q.cat, parent |-> q.parent, name |-> q.name] /\ q.cat \in CategoryIds
    /\ q.pc \in {"climb", "rename", "rewrite"} =>
          /\ q = [pc |-> q.pc, cat |-> q.cat, parent |-> q.parent, name |-> q.name, at |-> q.at, was |-> q.was]
          /\ q.cat \in CategoryIds

\* What a request has read is so, and the name it has looked up is free.
CatFits(q) ==
    /\ q.pc = "insert" => ~Taken(q.name, q.parent, q.cat)
    /\ q.pc \in {"climb", "rename", "rewrite"} => q.was = cat[q.cat]
    /\ q.pc = "rewrite" /\ Renamed(q) => ~Taken(q.name, Level(q), q.cat)

CatInv ==
    /\ Kept /\ SoloOpen
    /\ cat = [c \in CategoryIds |-> cat[c]]
    /\ \A r \in Requests : CatShape(call[r]) /\ (Solo(r) => CatFits(call[r]))

\* What SoloNameIsFree asks of r.
NameIsFree(r) ==
    call[r].pc = "insert" \/ (call[r].pc = "rewrite" /\ Renamed(call[r])) =>
        ~Taken(call[r].name, cat'[call[r].cat].parent, call[r].cat)

\* A step keeps the invariant and gives no name away that is taken, if nothing overlapped it.
CatStepGood(r) ==
    /\ CatInv'
    /\ \E q : /\ OnlyFor(r, q)
              /\ q.pc = "done" /\ call[r].pc \in {"insert", "rewrite"} =>
                    alone' = alone /\ (Solo(r) => NameIsFree(r))

\* What a step of r has to leave.
LEMMA CatKeeps ==
    ASSUME CatInv, NEW r \in Requests, NEW q, Kept', SoloOpen', OnlyFor(r, q),
           cat' = [c \in CategoryIds |-> cat'[c]], CatShape(q), Solo(r)' => CatFits(q)'
    PROVE  CatInv'
<1>1. ASSUME NEW s \in Requests
      PROVE  CatShape(call[s])' /\ (Solo(s)' => CatFits(call[s])')
  <2>1. CASE s = r
    BY <2>1 DEF OnlyFor, CatShape, CatFits, Renamed, Level, Taken, Live
  <2>2. CASE s # r
    BY <2>2 DEF OnlyFor, CatInv, CatShape
  <2> QED BY <2>1, <2>2
<1> QED BY <1>1 DEF CatInv

\* A request that comes in.
LEMMA CatBegins ==
    ASSUME CatInv, NEW r \in Requests, NEW q, Begin(r, q), cat' = [c \in CategoryIds |-> cat'[c]],
           CatShape(q), q.pc # "idle", CatFits(q)'
    PROVE  CatStepGood(r)
<1>1. Kept' /\ SoloOpen' /\ OnlyFor(r, q) /\ call[r].pc = "idle"
  BY SoloBegins DEF CatInv
<1>2. CatInv'
  BY <1>1, CatKeeps
<1> QED BY <1>1, <1>2 DEF CatStepGood

\* A request that goes on, or ends.
LEMMA CatGoes ==
    ASSUME CatInv, NEW r \in Requests, NEW pc, NEW q, Go(r, pc, q), cat' = [c \in CategoryIds |-> cat'[c]],
           CatShape(q), pc \notin {"idle", "done", "swallowed", "lost"}, q.pc # "idle", Solo(r) => CatFits(q)',
           Solo(r) /\ q.pc = "done" => NameIsFree(r)
    PROVE  CatStepGood(r)
<1>1. Kept' /\ SoloOpen' /\ OnlyFor(r, q) /\ call[r].pc = pc /\ alone' = alone
  BY SoloGoes DEF CatInv
<1>2. Solo(r)' => Solo(r)
  BY <1>1 DEF Solo, Open
<1>3. CatInv'
  BY <1>1, <1>2, CatKeeps
<1> QED BY <1>1, <1>3 DEF CatStepGood

\* Creating a category: the name that was found free is free when the row is written.
LEMMA CreateCatKeeps ==
    ASSUME CatInv, NEW r \in Requests,
           \/ \E c \in CategoryIds : \E p, n : CreateCategory(r, c, p, n)
           \/ LookForName(r) \/ InsertCategory(r)
    PROVE  CatStepGood(r)
<1>1. ASSUME NEW c \in CategoryIds, NEW p, NEW n, CreateCategory(r, c, p, n) PROVE CatStepGood(r)
  <2>1. PICK q : q = [pc |-> "name", cat |-> c, parent |-> p, name |-> n]
    OBVIOUS
  <2>2. Begin(r, q) /\ cat' = cat
    BY <1>1, <2>1 DEF CreateCategory
  <2>3. CatShape(q) /\ CatFits(q)' /\ q.pc # "idle"
    BY <2>1 DEF CatShape, CatSteps, CatFits
  <2> QED BY <2>2, <2>3, CatBegins DEF CatInv
<1>2. CASE LookForName(r)
  <2>1. /\ call[r].pc = "name" /\ cat' = cat /\ Go(r, "name", At(r, "insert"))
        /\ ~Taken(call[r].name, call[r].parent, call[r].cat)
    BY <1>2 DEF LookForName, Pass
  <2>2. PICK q : q = At(r, "insert")
    OBVIOUS
  <2>3. /\ q = [pc |-> "insert", cat |-> call[r].cat, parent |-> call[r].parent, name |-> call[r].name]
        /\ call[r].cat \in CategoryIds
    <3>1. /\ call[r] = [pc |-> "name", cat |-> call[r].cat, parent |-> call[r].parent, name |-> call[r].name]
          /\ call[r].cat \in CategoryIds
      BY <2>1 DEF CatInv, CatShape
    <3> QED BY <2>2, <3>1 DEF At
  <2>4. CatShape(q) /\ q.pc = "insert"
    BY <2>3 DEF CatShape, CatSteps
  <2>5. CatFits(q)'
    BY <2>1, <2>3 DEF CatFits, Taken, Live
  <2> QED BY <2>1, <2>2, <2>4, <2>5, CatGoes DEF CatInv
<1>3. CASE InsertCategory(r)
  <2>1. /\ call[r].pc = "insert" /\ Go(r, "insert", Over)
        /\ \E active : cat' = [cat EXCEPT ![call[r].cat] =
                                  [parent |-> call[r].parent, name |-> call[r].name, active |-> active]]
    BY <1>3 DEF InsertCategory
  <2>2. CatShape(Over) /\ CatFits(Over)' /\ Over.pc = "done"
    BY DEF Over, CatShape, CatSteps, CatFits
  <2>3. call[r].cat \in CategoryIds
    BY <2>1 DEF CatInv, CatShape
  <2>4. cat' = [c \in CategoryIds |-> cat'[c]] /\ cat'[call[r].cat].parent = call[r].parent
    BY <2>1, <2>3 DEF CatInv
  <2>5. Solo(r) => NameIsFree(r)
    BY <2>1, <2>4 DEF CatInv, CatFits, NameIsFree
  <2> QED BY <2>1, <2>2, <2>4, <2>5, CatGoes
<1> QED BY <1>1, <1>2, <1>3

\* Updating a category: its row is as it was read, so the level whose names were looked up is
\* the level it is written to.
LEMMA UpdateCatKeeps ==
    ASSUME CatInv, NEW r \in Requests,
           \/ \E c \in CategoryIds : \E p, n : UpdateCategory(r, c, p, n)
           \/ Climb(r) \/ CheckName(r) \/ WriteCategory(r)
    PROVE  CatStepGood(r)
<1>1. ASSUME NEW c \in CategoryIds, NEW p, NEW n, UpdateCategory(r, c, p, n) PROVE CatStepGood(r)
  <2>1. PICK pc, q : /\ pc = IF p \in CategoryIds THEN "climb" ELSE "rename"
                     /\ q = [pc |-> pc, cat |-> c, parent |-> p, name |-> n, at |-> c, was |-> cat[c]]
    OBVIOUS
  <2>2. Begin(r, q) /\ cat' = cat
    BY <1>1, <2>1 DEF UpdateCategory
  <2>3. CatShape(q) /\ q.pc # "idle" /\ q.pc # "rewrite" /\ q.pc # "insert"
    BY <2>1 DEF CatShape, CatSteps
  <2>4. CatFits(q)'
    BY <2>1, <2>2, <2>3 DEF CatFits
  <2> QED BY <2>2, <2>3, <2>4, CatBegins DEF CatInv
<1>2. ASSUME call[r].pc \in {"climb", "rename", "rewrite"}
      PROVE  /\ call[r] = [pc |-> call[r].pc, cat |-> call[r].cat, parent |-> call[r].parent,
                           name |-> call[r].name, at |-> call[r].at, was |-> call[r].was]
             /\ call[r].cat \in CategoryIds
             /\ Solo(r) => call[r].was = cat[call[r].cat]
  BY <1>2 DEF CatInv, CatShape, CatFits
<1>3. CASE Climb(r)
  <2>1. PICK up : /\ call[r].pc = "climb" /\ cat' = cat
                  /\ Go(r, "climb", IF up = "none" THEN At(r, "rename") ELSE [call[r] EXCEPT !.at = up])
    BY <1>3 DEF Climb
  <2>2. PICK q : q = IF up = "none" THEN At(r, "rename") ELSE [call[r] EXCEPT !.at = up]
    OBVIOUS
  <2>3. /\ q = [pc |-> q.pc, cat |-> call[r].cat, parent |-> q.parent, name |-> q.name, at |-> q.at, was |-> call[r].was]
        /\ q.pc \in {"climb", "rename"}
    BY <1>2, <2>1, <2>2 DEF At
  <2>4. q.cat = call[r].cat /\ q.was = call[r].was
    BY <2>3
  <2>5. CatShape(q) /\ q.pc # "idle" /\ q.pc # "done"
    BY <1>2, <2>1, <2>3, <2>4 DEF CatShape, CatSteps
  <2>6. Solo(r) => CatFits(q)'
    BY <1>2, <2>1, <2>3, <2>4 DEF CatFits
  <2> QED BY <2>1, <2>2, <2>5, <2>6, CatGoes DEF CatInv
<1>4. CASE CheckName(r)
  <2>1. /\ call[r].pc = "rename" /\ cat' = cat /\ Go(r, "rename", At(r, "rewrite"))
        /\ Renamed(call[r]) => ~Taken(call[r].name, Level(call[r]), call[r].cat)
    BY <1>4 DEF CheckName, Pass
  <2>2. PICK q : q = At(r, "rewrite")
    OBVIOUS
  <2>3. q = [pc |-> "rewrite", cat |-> call[r].cat, parent |-> call[r].parent,
             name |-> call[r].name, at |-> call[r].at, was |-> call[r].was]
    BY <1>2, <2>1, <2>2 DEF At
  <2>4. CatShape(q) /\ q.pc = "rewrite"
    BY <1>2, <2>1, <2>3 DEF CatShape, CatSteps
  <2>5. Solo(r) => CatFits(q)'
    BY <1>2, <2>1, <2>3 DEF CatFits, Renamed, Level, Taken, Live
  <2> QED BY <2>1, <2>2, <2>4, <2>5, CatGoes DEF CatInv
<1>5. CASE WriteCategory(r)
  <2>1. /\ call[r].pc = "rewrite" /\ Go(r, "rewrite", Over)
        /\ \E active, name : cat' = [cat EXCEPT ![call[r].cat] =
              [parent |-> IF call[r].parent = "keep" THEN @.parent ELSE call[r].parent,
               name   |-> name, active |-> active]]
    BY <1>5 DEF WriteCategory
  <2>2. CatShape(Over) /\ CatFits(Over)' /\ Over.pc = "done"
    BY DEF Over, CatShape, CatSteps, CatFits
  <2>3. /\ cat' = [c \in CategoryIds |-> cat'[c]]
        /\ cat'[call[r].cat].parent = IF call[r].parent = "keep" THEN cat[call[r].cat].parent ELSE call[r].parent
    BY <1>2, <2>1 DEF CatInv
  <2>4. Solo(r) => cat'[call[r].cat].parent = Level(call[r])
    BY <1>2, <2>1, <2>3 DEF Level
  <2>5. Solo(r) => NameIsFree(r)
    BY <2>1, <2>4 DEF CatInv, CatFits, NameIsFree
  <2> QED BY <2>1, <2>2, <2>3, <2>5, CatGoes
<1> QED BY <1>1, <1>3, <1>4, <1>5

\* Hiding, showing and losing a category's request.
LEMMA HideCatKeeps ==
    ASSUME CatInv, NEW r \in Requests,
           \/ \E c \in CategoryIds : SoftDelete(r, c) \/ Activate(r, c)
           \/ HideCategory(r)
           \/ Lose(r) /\ UNCHANGED cat
    PROVE  CatStepGood(r)
<1>1. CatShape(Over) /\ CatFits(Over)' /\ Over.pc = "done"
  BY DEF Over, CatShape, CatSteps, CatFits
<1>2. ASSUME NEW c \in CategoryIds, SoftDelete(r, c) PROVE CatStepGood(r)
  <2>1. PICK q : q = [pc |-> "hide", cat |-> c]
    OBVIOUS
  <2>2. Begin(r, q) /\ cat' = cat
    BY <1>2, <2>1 DEF SoftDelete
  <2>3. CatShape(q) /\ CatFits(q)' /\ q.pc # "idle"
    BY <2>1 DEF CatShape, CatSteps, CatFits
  <2> QED BY <2>2, <2>3, CatBegins DEF CatInv
<1>3. ASSUME NEW c \in CategoryIds, Activate(r, c) PROVE CatStepGood(r)
  <2>1. Begin(r, Over) /\ cat' = [d \in CategoryIds |-> cat'[d]]
    BY <1>3 DEF Activate, CatInv
  <2> QED BY <1>1, <2>1, CatBegins
<1>4. CASE HideCategory(r)
  <2>1. Go(r, "hide", Over) /\ call[r].pc = "hide" /\ cat' = [d \in CategoryIds |-> cat'[d]]
    BY <1>4 DEF HideCategory, CatInv
  <2> QED BY <1>1, <2>1, CatGoes DEF NameIsFree
<1>5. CASE Lose(r) /\ UNCHANGED cat
  <2>1. PICK q : q = [pc |-> "lost"]
    OBVIOUS
  <2>2. Kept' /\ SoloOpen' /\ OnlyFor(r, q) /\ ~Solo(r)'
    BY <1>5, <2>1, SoloLost DEF CatInv
  <2>3. CatShape(q) /\ q.pc = "lost"
    BY <2>1 DEF CatShape, CatSteps
  <2>4. CatInv'
    BY <1>5, <2>2, <2>3, CatKeeps DEF CatInv
  <2> QED BY <2>2, <2>3, <2>4 DEF CatStepGood
<1> QED BY <1>2, <1>3, <1>4, <1>5

\* Every step keeps the invariant, and gives no taken name away.
LEMMA CatStepKeeps ==
    ASSUME CatInv, NEW r \in Requests, CatStep(r)
    PROVE  CatStepGood(r)
<1>1. \/ \E c \in CategoryIds : \E p, n : CreateCategory(r, c, p, n)
      \/ \E c \in CategoryIds : \E p, n : UpdateCategory(r, c, p, n)
      \/ \E c \in CategoryIds : SoftDelete(r, c) \/ Activate(r, c)
      \/ LookForName(r) \/ InsertCategory(r) \/ Climb(r) \/ CheckName(r) \/ WriteCategory(r)
      \/ HideCategory(r)
      \/ Lose(r) /\ UNCHANGED cat
  BY DEF CatStep
<1> QED BY <1>1, CreateCatKeeps, UpdateCatKeeps, HideCatKeeps

\* The invariant holds at first.
LEMMA CatInvAtFirst == RequestsInit /\ CatsInit => CatInv
<1> SUFFICES ASSUME RequestsInit, CatsInit PROVE CatInv
  OBVIOUS
<1>1. \A r \in Requests : CatShape(call[r])
  BY DEF RequestsInit, Unasked, CatShape, CatSteps
<1>2. cat = [c \in CategoryIds |-> cat[c]]
  BY DEF CatsInit
<1> QED BY <1>1, <1>2, SoloAtFirst DEF CatInv

\* Nothing happens: the invariant stays.
LEMMA CatStutter ==
    ASSUME CatInv, UNCHANGED <<rvars, kvars>>
    PROVE  CatInv'
<1>1. call' = call /\ cat' = cat
  BY DEF rvars, kvars
<1>2. Kept' /\ SoloOpen' /\ \A r \in Requests : Solo(r)' <=> Solo(r)
  BY SoloStays DEF CatInv, rvars
<1> QED BY <1>1, <1>2 DEF CatInv, CatShape, CatFits, Renamed, Level, Taken, Live

\* Every step keeps the invariant.
LEMMA CatInvStays == CatInv /\ [CatsNext]_<<rvars, kvars>> => CatInv'
BY CatStutter, CatStepKeeps DEF CatsNext, CatStepGood

\* A category that is created or renamed, and perhaps moved as well, while nothing overlaps
\* gets a name that no other beside it has, whatever duplicates and cycles were left before.
THEOREM NamesAreFreeAlone == CatsSpec => SoloNameIsFree
<1>4. ASSUME CatInv, NEW r \in Requests, CatStep(r), NEW s \in Requests, EndsAlone(s),
             call[s].pc = "insert" \/ (call[s].pc = "rewrite" /\ Renamed(call[s]))
      PROVE  ~Taken(call[s].name, cat'[call[s].cat].parent, call[s].cat)
  <2>1. PICK q : /\ OnlyFor(r, q)
                 /\ q.pc = "done" /\ call[r].pc \in {"insert", "rewrite"} =>
                       alone' = alone /\ (Solo(r) => NameIsFree(r))
    BY <1>4, CatStepKeeps DEF CatStepGood
  <2>2. s = r /\ q.pc = "done" /\ alone'[r]
    BY <1>4, <2>1, WhoEndsAlone
  <2> QED BY <1>4, <2>1, <2>2 DEF NameIsFree, Solo, Open
<1>5. CatInv /\ [CatsNext]_<<rvars, kvars>> =>
         [\A r \in Requests :
             EndsAlone(r) /\ (call[r].pc = "insert" \/ (call[r].pc = "rewrite" /\ Renamed(call[r]))) =>
                 ~Taken(call[r].name, cat'[call[r].cat].parent, call[r].cat)]_<<rvars, kvars>>
  BY <1>4 DEF CatsNext
<1> QED BY CatInvAtFirst, CatInvStays, <1>5, PTL DEF CatsSpec, SoloNameIsFree

-----------------------------------------------------------------------------
(* CommunicationController and MessageLogService *)

MessageCall == [pc: {"check", "create", "find", "mark"}, message: Messages, status: Statuses, checked: BOOLEAN]
MessageRow  == [status: Statuses \cup {"none"}, recent: BOOLEAN]

MessageShape(q) ==
    /\ q.pc \in MessageSteps
    /\ q.pc \in {"check", "create", "find", "mark"} => q \in MessageCall
    /\ q.pc = "bulk" => q = [pc |-> "bulk", next |-> q.next]

\* A send that was checked may be counted among those of the month.
MessageFits(q) ==
    q.pc \in {"create", "find", "mark"} /\ q.checked = TRUE => Cardinality(SentThisMonth) < MaxMonthly

MessageInv ==
    /\ Kept /\ SoloOpen
    /\ message \in [Messages -> MessageRow]
    /\ \A r \in Requests : MessageShape(call[r]) /\ (Solo(r) => MessageFits(call[r]))

\* What was marked as sent this month is finite; fewer rows of the kind are fewer or as many.
LEMMA SentAreFew ==
    ASSUME NEW S, S \subseteq Messages
    PROVE  /\ IsFiniteSet(S) /\ Cardinality(S) \in Nat
           /\ \A T \in SUBSET S : IsFiniteSet(T) /\ Cardinality(T) \in Nat /\ Cardinality(T) <= Cardinality(S)
           /\ \A m : Cardinality(S \cup {m}) \in Nat /\ Cardinality(S \cup {m}) <= Cardinality(S) + 1
<1>1. IsFiniteSet(Messages)
  <2>1. IsFiniteSet({1, 2})
    <3>1. IsFiniteSet({1}) /\ {1, 2} = {1} \cup {2}
      BY FS_Singleton
    <3> QED BY <3>1, FS_AddElement
  <2>2. IsFiniteSet(Requests \X {1, 2})
    BY <2>1, FS_Product, MonthlyAssumption
  <2> QED BY <2>2, FS_Union, MonthlyAssumption DEF Messages
<1>2. IsFiniteSet(S) /\ Cardinality(S) \in Nat
  BY <1>1, FS_Subset, FS_CardinalityType
<1>3. ASSUME NEW T \in SUBSET S PROVE IsFiniteSet(T) /\ Cardinality(T) \in Nat /\ Cardinality(T) <= Cardinality(S)
  <2>1. IsFiniteSet(T) /\ Cardinality(T) <= Cardinality(S)
    BY <1>2, FS_Subset
  <2> QED BY <2>1, FS_CardinalityType
<1>4. ASSUME NEW m PROVE Cardinality(S \cup {m}) \in Nat /\ Cardinality(S \cup {m}) <= Cardinality(S) + 1
  <2>1. Cardinality(S \cup {m}) = IF m \in S THEN Cardinality(S) ELSE Cardinality(S) + 1
    BY <1>2, FS_AddElement
  <2> QED BY <1>2, <2>1
<1> QED BY <1>2, <1>3, <1>4

\* What a step of r has to leave.
LEMMA MessageKeeps ==
    ASSUME MessageInv, NEW r \in Requests, NEW q, Kept', SoloOpen', OnlyFor(r, q),
           message' \in [Messages -> MessageRow], MessageShape(q), Solo(r)' => MessageFits(q)'
    PROVE  MessageInv'
<1>1. ASSUME NEW s \in Requests
      PROVE  MessageShape(call[s])' /\ (Solo(s)' => MessageFits(call[s])')
  <2>1. CASE s = r
    BY <2>1 DEF OnlyFor, MessageShape, MessageFits
  <2>2. CASE s # r
    BY <2>2 DEF OnlyFor, MessageInv, MessageShape
  <2> QED BY <2>1, <2>2
<1> QED BY <1>1 DEF MessageInv

\* A request that comes in has checked nothing.
LEMMA MessageBegins ==
    ASSUME MessageInv, NEW r \in Requests, NEW q, Begin(r, q), UNCHANGED message,
           MessageShape(q), q.pc # "idle", MessageFits(q)'
    PROVE  MessageInv' /\ \E x : OnlyFor(r, x)
<1>1. Kept' /\ SoloOpen' /\ OnlyFor(r, q)
  BY SoloBegins DEF MessageInv
<1>2. message' \in [Messages -> MessageRow]
  BY DEF MessageInv
<1> QED BY <1>1, <1>2, MessageKeeps

\* A request that goes on may rely on its check.
LEMMA MessageGoes ==
    ASSUME MessageInv, NEW r \in Requests, NEW pc, NEW q, Go(r, pc, q), message' \in [Messages -> MessageRow],
           MessageShape(q), pc \notin {"idle", "done", "swallowed", "lost"}, q.pc # "idle",
           Solo(r) => MessageFits(q)'
    PROVE  MessageInv' /\ \E x : OnlyFor(r, x)
<1>1. Kept' /\ SoloOpen' /\ OnlyFor(r, q) /\ call[r].pc = pc /\ alone' = alone
  BY SoloGoes DEF MessageInv
<1>2. Solo(r)' => Solo(r)
  BY <1>1 DEF Solo, Open
<1> QED BY <1>1, <1>2, MessageKeeps

\* Sending one message: check, row, look, mark.
LEMMA SendKeeps ==
    ASSUME MessageInv, NEW r \in Requests,
           Send(r) \/ CheckLimit(r) \/ CreateMessage(r) \/ FindMessage(r) \/ MarkMessage(r)
    PROVE  MessageInv' /\ \E x : OnlyFor(r, x)
<1>1. ASSUME call[r].pc \in {"check", "create", "find", "mark"}
      PROVE  call[r] \in MessageCall /\ call[r].message \in Messages
  BY <1>1 DEF MessageInv, MessageShape, MessageCall
<1>2. CASE Send(r)
  <2>1. PICK q : q = [pc |-> "check", message |-> <<r, 1>>, status |-> "sent", checked |-> TRUE]
    OBVIOUS
  <2>2. q \in MessageCall /\ q.pc = "check"
    BY <2>1 DEF MessageCall, Messages, Statuses
  <2>3. MessageShape(q) /\ MessageFits(q)'
    BY <2>2 DEF MessageShape, MessageSteps, MessageFits
  <2> QED BY <1>2, <2>1, <2>2, <2>3, MessageBegins DEF Send
<1>3. CASE CheckLimit(r)
  <2>1. call[r].pc = "check" /\ message' = message /\ SentThisMonth' = SentThisMonth
    BY <1>3 DEF CheckLimit, SentThisMonth
  <2>2. call[r] \in MessageCall
    BY <1>1, <2>1
  <2>3. PICK q : /\ Go(r, "check", q)
                 /\ \/ q = At(r, "create") /\ Cardinality(SentThisMonth) < MaxMonthly
                    \/ q = [At(r, "create") EXCEPT !.checked = FALSE]
    BY <1>3 DEF CheckLimit, MaySend, Pass
  <2>4. q \in MessageCall /\ q.pc = "create" /\ (q.checked = FALSE \/ Cardinality(SentThisMonth) < MaxMonthly)
    BY <2>2, <2>3 DEF At, MessageCall
  <2>5. MessageShape(q) /\ MessageFits(q)'
    BY <2>1, <2>4 DEF MessageShape, MessageSteps, MessageFits
  <2>6. message' \in [Messages -> MessageRow]
    BY <2>1 DEF MessageInv
  <2> QED BY <2>3, <2>4, <2>5, <2>6, MessageGoes
<1>4. CASE CreateMessage(r)
  <2>1. /\ call[r].pc = "create" /\ Go(r, "create", At(r, "find"))
        /\ message' = [message EXCEPT ![call[r].message].status = "pending"]
    BY <1>4 DEF CreateMessage, Pass
  <2>2. PICK q, m : q = At(r, "find") /\ m = call[r].message
    OBVIOUS
  <2>3. q \in MessageCall /\ q.pc = "find" /\ q.checked = call[r].checked /\ m \in Messages
    BY <1>1, <2>1, <2>2 DEF At, MessageCall
  <2>4. PICK w \in MessageRow : w = message[m]
    BY <2>3 DEF MessageInv
  <2>5. PICK v : v = [w EXCEPT !.status = "pending"]
    OBVIOUS
  <2>6. v \in MessageRow /\ v.status = "pending" /\ message' = [message EXCEPT ![m] = v]
    BY <2>1, <2>2, <2>4, <2>5 DEF MessageRow, Statuses
  <2>7. message' \in [Messages -> MessageRow]
    BY <2>3, <2>6 DEF MessageInv
  <2>8. SentThisMonth' \subseteq SentThisMonth /\ SentThisMonth \subseteq Messages
    BY <2>3, <2>6 DEF MessageInv, SentThisMonth
  <2>9. Cardinality(SentThisMonth') <= Cardinality(SentThisMonth)
        /\ Cardinality(SentThisMonth') \in Nat /\ Cardinality(SentThisMonth) \in Nat
    BY <2>8, SentAreFew
  <2>10. Solo(r) => MessageFits(q)'
    BY <2>1, <2>3, <2>9, MonthlyAssumption DEF MessageInv, MessageFits
  <2>11. MessageShape(q)
    BY <2>3 DEF MessageShape, MessageSteps
  <2> QED BY <2>1, <2>2, <2>3, <2>7, <2>10, <2>11, MessageGoes
<1>5. CASE FindMessage(r)
  <2>1. call[r].pc = "find" /\ Go(r, "find", At(r, "mark")) /\ message' = message /\ SentThisMonth' = SentThisMonth
    BY <1>5 DEF FindMessage, Pass, SentThisMonth
  <2>2. PICK q : q = At(r, "mark")
    OBVIOUS
  <2>3. q \in MessageCall /\ q.pc = "mark" /\ q.checked = call[r].checked
    BY <1>1, <2>1, <2>2 DEF At, MessageCall
  <2>4. Solo(r) => MessageFits(q)'
    BY <2>1, <2>3 DEF MessageInv, MessageFits
  <2>5. MessageShape(q) /\ message' \in [Messages -> MessageRow]
    BY <2>1, <2>3 DEF MessageShape, MessageSteps, MessageInv
  <2> QED BY <2>1, <2>2, <2>3, <2>4, <2>5, MessageGoes
<1>6. CASE MarkMessage(r)
  <2>1. /\ call[r].pc = "mark" /\ Go(r, "mark", Over)
        /\ message' = [message EXCEPT ![call[r].message] = Marked(call[r].message, call[r].status)]
    BY <1>6 DEF MarkMessage
  <2>2. call[r].message \in Messages /\ call[r].status \in Statuses
    BY <1>1, <2>1 DEF MessageCall
  <2>3. Marked(call[r].message, call[r].status) \in MessageRow
    <3>1. PICK b : b = (message[call[r].message].recent \/ call[r].status = "sent")
      OBVIOUS
    <3>2. b \in BOOLEAN
      BY <3>1
    <3> QED BY <2>2, <3>1, <3>2 DEF Marked, MessageRow
  <2>4. message' \in [Messages -> MessageRow]
    BY <2>1, <2>2, <2>3 DEF MessageInv
  <2>5. MessageShape(Over) /\ MessageFits(Over)' /\ Over.pc = "done"
    BY DEF Over, MessageShape, MessageSteps, MessageFits
  <2> QED BY <2>1, <2>4, <2>5, MessageGoes
<1> QED BY <1>2, <1>3, <1>4, <1>5, <1>6

\* Messages in bulk, updates and retries.
LEMMA OtherMessagesKeep ==
    ASSUME MessageInv, NEW r \in Requests,
           \/ SendBulk(r) \/ CreateNext(r)
           \/ \E m \in Messages : RetryMessage(r, m) \/ \E s \in Statuses : UpdateStatus(r, m, s)
           \/ Lose(r) /\ UNCHANGED message
    PROVE  MessageInv' /\ \E x : OnlyFor(r, x)
<1>1. CASE SendBulk(r)
  <2>1. PICK q : q = [pc |-> "bulk", next |-> 1]
    OBVIOUS
  <2>2. q.pc = "bulk" /\ MessageShape(q) /\ MessageFits(q)'
    BY <2>1 DEF MessageShape, MessageSteps, MessageFits
  <2> QED BY <1>1, <2>1, <2>2, MessageBegins DEF SendBulk
<1>2. CASE CreateNext(r)
  <2>1. /\ call[r].pc = "bulk"
        /\ Go(r, "bulk", IF call[r].next = 2 THEN Over ELSE [call[r] EXCEPT !.next = @ + 1])
        /\ \E m : message' = [message EXCEPT ![m].status = "pending"] \/ message' = message
    BY <1>2 DEF CreateNext
  <2>2. PICK q : q = IF call[r].next = 2 THEN Over ELSE [call[r] EXCEPT !.next = @ + 1]
    OBVIOUS
  <2>3. call[r] = [pc |-> "bulk", next |-> call[r].next]
    BY <2>1 DEF MessageInv, MessageShape
  <2>4. q = Over \/ q = [pc |-> "bulk", next |-> call[r].next + 1]
    BY <2>2, <2>3
  <2>5. MessageShape(q) /\ MessageFits(q)' /\ q.pc # "idle"
    BY <2>4 DEF Over, MessageShape, MessageSteps, MessageFits
  <2>6. ASSUME NEW m, message' = [message EXCEPT ![m].status = "pending"]
        PROVE  message' \in [Messages -> MessageRow]
    <3>1. ASSUME m \in Messages PROVE [message[m] EXCEPT !.status = "pending"] \in MessageRow
      <4>1. message[m] \in MessageRow
        BY <3>1 DEF MessageInv
      <4> QED BY <4>1 DEF MessageRow, Statuses
    <3> QED BY <2>6, <3>1 DEF MessageInv
  <2>7. message' \in [Messages -> MessageRow]
    BY <2>1, <2>6 DEF MessageInv
  <2> QED BY <2>1, <2>2, <2>5, <2>7, MessageGoes
<1>3. ASSUME NEW m \in Messages, NEW s \in Statuses, RetryMessage(r, m) \/ UpdateStatus(r, m, s)
      PROVE  MessageInv' /\ \E x : OnlyFor(r, x)
  <2>1. PICK t \in Statuses : /\ Begin(r, [pc |-> "find", message |-> m, status |-> t, checked |-> FALSE])
                              /\ UNCHANGED message
    BY <1>3 DEF RetryMessage, UpdateStatus, Statuses
  <2>2. PICK q : q = [pc |-> "find", message |-> m, status |-> t, checked |-> FALSE]
    OBVIOUS
  <2>3. q \in MessageCall /\ q.pc = "find" /\ q.checked = FALSE
    BY <2>2 DEF MessageCall
  <2>4. MessageShape(q) /\ MessageFits(q)'
    BY <2>3 DEF MessageShape, MessageSteps, MessageFits
  <2> QED BY <2>1, <2>2, <2>3, <2>4, MessageBegins
<1>4. CASE Lose(r) /\ UNCHANGED message
  <2>1. PICK q : q = [pc |-> "lost"]
    OBVIOUS
  <2>2. Kept' /\ SoloOpen' /\ OnlyFor(r, q) /\ ~Solo(r)'
    BY <1>4, <2>1, SoloLost DEF MessageInv
  <2>3. MessageShape(q)
    BY <2>1 DEF MessageShape, MessageSteps
  <2> QED BY <1>4, <2>2, <2>3, MessageKeeps DEF MessageInv
<1>5. "pending" \in Statuses
  BY DEF Statuses
<1> QED BY <1>1, <1>2, <1>3, <1>4, <1>5

\* In a new month nothing is sent yet, whatever was checked before.
LEMMA NewMonthKeeps ==
    ASSUME MessageInv, NewMonth
    PROVE  MessageInv' /\ UNCHANGED rvars
<1>1. message' = [m \in Messages |-> [message[m] EXCEPT !.recent = FALSE]] /\ UNCHANGED rvars
  BY DEF NewMonth
<1>2. \A m \in Messages : /\ [message[m] EXCEPT !.recent = FALSE] \in MessageRow
                          /\ [message[m] EXCEPT !.recent = FALSE].recent = FALSE
  <2>1. \A w \in MessageRow : [w EXCEPT !.recent = FALSE] \in MessageRow /\ [w EXCEPT !.recent = FALSE].recent = FALSE
    BY DEF MessageRow
  <2> QED BY <2>1 DEF MessageInv
<1>3. message' \in [Messages -> MessageRow] /\ SentThisMonth' = {}
  BY <1>1, <1>2 DEF SentThisMonth
<1>4. Cardinality(SentThisMonth') < MaxMonthly
  BY <1>3, FS_EmptySet, MonthlyAssumption
<1>5. call' = call /\ Kept' /\ SoloOpen'
  BY <1>1, SoloStays DEF MessageInv, rvars
<1>6. ASSUME NEW s \in Requests PROVE MessageShape(call[s])' /\ MessageFits(call[s])'
  BY <1>4, <1>5 DEF MessageInv, MessageShape, MessageFits
<1> QED BY <1>1, <1>3, <1>5, <1>6 DEF MessageInv

\* Every step keeps the invariant.
LEMMA MessageStepKeeps ==
    ASSUME MessageInv, NEW r \in Requests, MessageStep(r)
    PROVE  MessageInv' /\ \E x : OnlyFor(r, x)
BY SendKeeps, OtherMessagesKeep DEF MessageStep

\* A request that is to mark its message and ends well marks it.
LEMMA WhoMarks ==
    ASSUME NEW r \in Requests, MessageStep(r), call[r].pc = "mark"
    PROVE  MarkMessage(r) \/ Lose(r)
<1>1. \A q : ~Begin(r, q)
  BY DEF Begin
<1>2. \A pc, q : Go(r, pc, q) => pc = "mark"
  BY DEF Go
<1>3. /\ ~Send(r) /\ ~SendBulk(r) /\ \A m : ~RetryMessage(r, m) /\ \A s : ~UpdateStatus(r, m, s)
  BY <1>1 DEF Send, SendBulk, RetryMessage, UpdateStatus
<1>4. ~CheckLimit(r) /\ ~CreateMessage(r) /\ ~FindMessage(r) /\ ~CreateNext(r)
  BY DEF CheckLimit, CreateMessage, FindMessage, CreateNext
<1> QED BY <1>3, <1>4 DEF MessageStep

\* A message marked while nothing overlapped its check is the one that was to spare.
LEMMA MarkIsCounted ==
    ASSUME MessageInv, NEW r \in Requests, MessageStep(r), NEW s \in Requests, EndsAlone(s),
           call[s].pc = "mark", call[s].checked
    PROVE  Cardinality(SentThisMonth') <= MaxMonthly
<1>1. PICK q : OnlyFor(r, q)
  BY MessageStepKeeps
<1>2. s = r /\ q.pc = "done" /\ alone'[r] /\ call'[r].pc = "done"
  BY <1>1, WhoEndsAlone DEF OnlyFor
<1>3. ~Lose(r)
  BY <1>2 DEF Lose, MessageInv, Kept
<1>4. MarkMessage(r)
  BY <1>2, <1>3, WhoMarks
<1>5. Solo(r)
  BY <1>2, <1>4 DEF MarkMessage, Go, Solo, Open
<1>6. call[r] \in MessageCall /\ MessageFits(call[r])
  BY <1>2, <1>5 DEF MessageInv, MessageShape
<1>7. Cardinality(SentThisMonth) < MaxMonthly
  BY <1>2, <1>6 DEF MessageFits, MessageCall
<1>8. SentThisMonth' \subseteq SentThisMonth \cup {call[r].message} /\ SentThisMonth \subseteq Messages
  BY <1>4 DEF MarkMessage, MessageInv, SentThisMonth
<1>9. call[r].message \in Messages
  BY <1>6 DEF MessageCall
<1>10. /\ Cardinality(SentThisMonth \cup {call[r].message}) \in Nat /\ Cardinality(SentThisMonth) \in Nat
       /\ Cardinality(SentThisMonth \cup {call[r].message}) <= Cardinality(SentThisMonth) + 1
  BY <1>8, SentAreFew
<1>11. /\ Cardinality(SentThisMonth') \in Nat
       /\ Cardinality(SentThisMonth') <= Cardinality(SentThisMonth \cup {call[r].message})
  <2>1. SentThisMonth \cup {call[r].message} \subseteq Messages
    BY <1>8, <1>9
  <2> QED BY <1>8, <2>1, SentAreFew
<1> QED BY <1>7, <1>10, <1>11, MonthlyAssumption

\* The invariant holds at first.
LEMMA MessageInvAtFirst == RequestsInit /\ MessagesInit => MessageInv
<1> SUFFICES ASSUME RequestsInit, MessagesInit PROVE MessageInv
  OBVIOUS
<1>1. \A r \in Requests : MessageShape(call[r])
  BY DEF RequestsInit, Unasked, MessageShape, MessageSteps
<1>2. PICK recent \in BOOLEAN :
         message = [m \in Messages |-> IF m \in Earlier THEN [status |-> "sent", recent |-> recent] ELSE NoMessage]
  BY DEF MessagesInit
<1>3. [status |-> "sent", recent |-> recent] \in MessageRow /\ NoMessage \in MessageRow
  BY DEF MessageRow, Statuses, NoMessage
<1>4. message \in [Messages -> MessageRow]
  BY <1>2, <1>3
<1> QED BY <1>1, <1>4, SoloAtFirst DEF MessageInv

\* Nothing happens: the invariant stays.
LEMMA MessageStutter ==
    ASSUME MessageInv, UNCHANGED <<rvars, gvars>>
    PROVE  MessageInv'
<1>1. call' = call /\ message' = message
  BY DEF rvars, gvars
<1>2. Kept' /\ SoloOpen' /\ \A r \in Requests : Solo(r)' <=> Solo(r)
  BY SoloStays DEF MessageInv, rvars
<1> QED BY <1>1, <1>2 DEF MessageInv, MessageShape, MessageFits, SentThisMonth

\* Every step keeps the invariant.
LEMMA MessageInvStays == MessageInv /\ [MessagesNext]_<<rvars, gvars>> => MessageInv'
BY MessageStutter, MessageStepKeeps, NewMonthKeeps DEF MessagesNext

\* A message that is sent through a check that answered, with nothing in between, leaves no
\* more messages of the month sent than the plan allows, however many were let in before.
THEOREM SendsAreCounted == MessagesSpec => SoloSendCounts
<1>4. ASSUME MessageInv, MessagesNext, NEW s \in Requests, EndsAlone(s), call[s].pc = "mark", call[s].checked
      PROVE  Cardinality(SentThisMonth') <= MaxMonthly
  <2>1. CASE NewMonth
    BY <1>4, <2>1, NewMonthKeeps, SoloStays DEF MessageInv
  <2> QED BY <1>4, <2>1, MarkIsCounted DEF MessagesNext
<1>5. MessageInv /\ [MessagesNext]_<<rvars, gvars>> =>
         [\A r \in Requests :
             EndsAlone(r) /\ call[r].pc = "mark" /\ call[r].checked =>
                 Cardinality(SentThisMonth') <= MaxMonthly]_<<rvars, gvars>>
  BY <1>4
<1> QED BY MessageInvAtFirst, MessageInvStays, <1>5, PTL DEF MessagesSpec, SoloSendCounts

-----------------------------------------------------------------------------
(* StockAlertService *)

AlertShape(q) ==
    /\ q.pc \in StockSteps
    /\ q.pc \in {"read", "commit"} => q = [pc |-> q.pc, todo |-> q.todo, seen |-> q.seen]
    /\ q.pc \in CheckPcs =>
          /\ q = [pc |-> q.pc, todo |-> q.todo, alert |-> q.alert, whole |-> q.whole]
          /\ q.todo \subseteq Alerts /\ q.whole \in BOOLEAN
    /\ q.pc \in {"raise", "refresh"} => q.alert \in q.todo

\* The alerts that have a row which is not resolved.
Raised == {a \in Alerts : RowsOf(a) # {}}

\* Of a check, the alerts that are needed have their row or are still to be looked for.
AlertFits(q) ==
    /\ q.pc \in {"look", "raise", "refresh"} /\ q.whole = TRUE => Needed \subseteq q.todo \cup Raised
    /\ q.pc = "refresh" => q.alert \in Raised

AlertInv ==
    /\ Kept /\ SoloOpen
    /\ unresolved \subseteq Requests \X Alerts
    /\ \A r \in Requests : AlertShape(call[r]) /\ (Solo(r) => AlertFits(call[r]))

\* A step keeps the invariant; where a check ends that nothing overlapped, no alert is missing.
AlertStepGood(r) ==
    /\ AlertInv'
    /\ \E q : /\ OnlyFor(r, q)
              /\ q.pc = "done" /\ call[r].pc \in {"stocks", "raise", "refresh"} =>
                    alone' = alone /\ (Solo(r) /\ call[r].whole = TRUE => Needed \subseteq Raised')

\* What a step of r has to leave.
LEMMA AlertKeeps ==
    ASSUME AlertInv, NEW r \in Requests, NEW q, Kept', SoloOpen', OnlyFor(r, q),
           unresolved' \subseteq Requests \X Alerts, AlertShape(q), Solo(r)' => AlertFits(q)'
    PROVE  AlertInv'
<1>1. ASSUME NEW s \in Requests
      PROVE  AlertShape(call[s])' /\ (Solo(s)' => AlertFits(call[s])')
  <2>1. CASE s = r
    BY <2>1 DEF OnlyFor, AlertShape, AlertFits
  <2>2. CASE s # r
    BY <2>2 DEF OnlyFor, AlertInv, AlertShape
  <2> QED BY <2>1, <2>2
<1> QED BY <1>1 DEF AlertInv

\* A request that comes in.
LEMMA AlertBegins ==
    ASSUME AlertInv, NEW r \in Requests, NEW q, Begin(r, q), unresolved' \subseteq Requests \X Alerts,
           AlertShape(q), q.pc # "idle", AlertFits(q)'
    PROVE  AlertStepGood(r)
<1>1. Kept' /\ SoloOpen' /\ OnlyFor(r, q) /\ call[r].pc = "idle"
  BY SoloBegins DEF AlertInv
<1>2. AlertInv'
  BY <1>1, AlertKeeps
<1> QED BY <1>1, <1>2 DEF AlertStepGood

\* A request that goes on, or ends.
LEMMA AlertGoes ==
    ASSUME AlertInv, NEW r \in Requests, NEW pc, NEW q, Go(r, pc, q), unresolved' \subseteq Requests \X Alerts,
           AlertShape(q), pc \notin {"idle", "done", "swallowed", "lost"}, q.pc # "idle", Solo(r) => AlertFits(q)',
           Solo(r) /\ q.pc = "done" /\ pc \in {"stocks", "raise", "refresh"} /\ call[r].whole = TRUE =>
               Needed \subseteq Raised'
    PROVE  AlertStepGood(r)
<1>1. Kept' /\ SoloOpen' /\ OnlyFor(r, q) /\ call[r].pc = pc /\ alone' = alone
  BY SoloGoes DEF AlertInv
<1>2. Solo(r)' => Solo(r)
  BY <1>1 DEF Solo, Open
<1>3. AlertInv'
  BY <1>1, <1>2, AlertKeeps
<1> QED BY <1>1, <1>3 DEF AlertStepGood

\* The record of a check or a single alert.
LEMMA CheckShape ==
    ASSUME AlertInv, NEW r \in Requests, call[r].pc \in CheckPcs
    PROVE  /\ call[r] = [pc |-> call[r].pc, todo |-> call[r].todo, alert |-> call[r].alert, whole |-> call[r].whole]
           /\ call[r].todo \subseteq Alerts /\ call[r].whole \in BOOLEAN
           /\ Solo(r) => AlertFits(call[r])
BY DEF AlertInv, AlertShape

\* The steps of a check: the stocks, the look at one alert's row, the row.
LEMMA CheckKeeps ==
    ASSUME AlertInv, NEW r \in Requests, ListAlerts(r) \/ LookForAlert(r) \/ WriteAlert(r)
    PROVE  AlertStepGood(r)
<1>1. Over.pc = "done" /\ AlertShape(Over) /\ AlertFits(Over)'
  BY DEF Over, AlertShape, StockSteps, CheckPcs, AlertFits
<1>2. Needed \subseteq Alerts
  BY DEF Needed
<1>3. CASE ListAlerts(r)
  <2>1. /\ call[r].pc = "stocks" /\ UNCHANGED ivars /\ Needed' = Needed /\ Raised' = Raised
        /\ unresolved' \subseteq Requests \X Alerts
        /\ Go(r, "stocks", IF Needed = {} THEN Over ELSE [At(r, "look") EXCEPT !.todo = Needed])
    BY <1>3 DEF ListAlerts, ivars, Needed, Raised, RowsOf, AlertInv
  <2>2. CASE Needed = {}
    BY <1>1, <2>1, <2>2, AlertGoes
  <2>3. CASE Needed # {}
    <3>1. PICK q : q = [At(r, "look") EXCEPT !.todo = Needed]
      OBVIOUS
    <3>2. q = [pc |-> "look", todo |-> Needed, alert |-> call[r].alert, whole |-> call[r].whole]
      <4>1. call[r] = [pc |-> "stocks", todo |-> call[r].todo, alert |-> call[r].alert, whole |-> call[r].whole]
        BY <2>1, CheckShape DEF CheckPcs
      <4> QED BY <3>1, <4>1 DEF At
    <3>3. call[r].whole \in BOOLEAN
      BY <2>1, CheckShape DEF CheckPcs
    <3>4. AlertShape(q) /\ AlertFits(q)' /\ q.pc = "look"
      BY <1>2, <2>1, <3>2, <3>3 DEF AlertShape, StockSteps, CheckPcs, AlertFits
    <3> QED BY <2>1, <2>3, <3>1, <3>4, AlertGoes
  <2> QED BY <2>2, <2>3
<1>4. CASE LookForAlert(r)
  <2>1. /\ call[r].pc = "look" /\ UNCHANGED ivars /\ Needed' = Needed /\ Raised' = Raised
        /\ unresolved' \subseteq Requests \X Alerts
    BY <1>4 DEF LookForAlert, ivars, Needed, Raised, RowsOf, AlertInv
  <2>2. PICK a \in call[r].todo, to \in {"raise", "refresh"} :
           /\ Go(r, "look", [At(r, to) EXCEPT !.alert = a])
           /\ to = "refresh" => RowsOf(a) # {}
    BY <1>4 DEF LookForAlert
  <2>3. PICK q : q = [At(r, to) EXCEPT !.alert = a]
    OBVIOUS
  <2>4. /\ q = [pc |-> to, todo |-> call[r].todo, alert |-> a, whole |-> call[r].whole]
        /\ call[r].todo \subseteq Alerts /\ call[r].whole \in BOOLEAN
        /\ Solo(r) => AlertFits(call[r])
    <3>1. /\ call[r] = [pc |-> "look", todo |-> call[r].todo, alert |-> call[r].alert, whole |-> call[r].whole]
          /\ call[r].todo \subseteq Alerts /\ call[r].whole \in BOOLEAN
          /\ Solo(r) => AlertFits(call[r])
      BY <2>1, CheckShape DEF CheckPcs
    <3>2. q = [pc |-> to, todo |-> call[r].todo, alert |-> a, whole |-> call[r].whole]
      BY <2>3, <3>1 DEF At
    <3> QED BY <3>1, <3>2
  <2>5. to = "refresh" => a \in Raised
    BY <2>2, <2>4 DEF Raised
  <2>6. AlertShape(q) /\ q.pc = to
    BY <2>4 DEF AlertShape, StockSteps, CheckPcs
  <2>7. Solo(r) => AlertFits(q)'
    BY <2>1, <2>4, <2>5 DEF AlertFits
  <2> QED BY <2>1, <2>2, <2>3, <2>6, <2>7, AlertGoes
<1>5. CASE WriteAlert(r)
  <2>1. PICK left, q : /\ left = call[r].todo \ {call[r].alert}
                       /\ q = IF left = {} THEN Over ELSE [At(r, "look") EXCEPT !.todo = left]
    OBVIOUS
  <2>2. /\ call[r].pc \in {"raise", "refresh"} /\ Go(r, call[r].pc, q) /\ Needed' = Needed
        /\ unresolved' = IF call[r].pc = "raise" THEN unresolved \cup {<<r, call[r].alert>>} ELSE unresolved
    BY <1>5, <2>1 DEF WriteAlert, Needed
  <2>3. /\ call[r] = [pc |-> call[r].pc, todo |-> call[r].todo, alert |-> call[r].alert, whole |-> call[r].whole]
        /\ call[r].todo \subseteq Alerts /\ call[r].whole \in BOOLEAN
        /\ Solo(r) => AlertFits(call[r])
        /\ call[r].alert \in call[r].todo
    BY <2>2, CheckShape DEF CheckPcs, AlertInv, AlertShape
  <2>4. unresolved' \subseteq Requests \X Alerts
    BY <2>2, <2>3 DEF AlertInv
  <2>5. Raised \subseteq Raised'
    BY <2>2 DEF Raised, RowsOf
  <2>6. Solo(r) => call[r].alert \in Raised'
    <3>1. CASE call[r].pc = "raise"
      <4>1. PICK a \in Alerts : a = call[r].alert
        BY <2>3
      <4>2. <<r, a>> \in unresolved' /\ <<r, a>>[2] = a
        BY <2>2, <3>1, <4>1
      <4> QED BY <4>1, <4>2 DEF Raised, RowsOf
    <3>2. CASE call[r].pc = "refresh"
      BY <2>3, <2>5, <3>2 DEF AlertFits
    <3> QED BY <2>2, <3>1, <3>2
  <2>7. Solo(r) /\ call[r].whole = TRUE => Needed \subseteq left \cup Raised'
    BY <2>1, <2>2, <2>3, <2>5, <2>6 DEF AlertFits
  <2>8. CASE left = {}
    BY <1>1, <2>1, <2>2, <2>4, <2>7, <2>8, AlertGoes
  <2>9. CASE left # {}
    <3>1. q = [pc |-> "look", todo |-> left, alert |-> call[r].alert, whole |-> call[r].whole]
      BY <2>1, <2>3, <2>9 DEF At
    <3>2. AlertShape(q) /\ q.pc = "look"
      BY <2>1, <2>3, <3>1 DEF AlertShape, StockSteps, CheckPcs
    <3>3. Solo(r) => AlertFits(q)'
      BY <2>2, <2>7, <3>1 DEF AlertFits
    <3> QED BY <2>2, <2>4, <3>2, <3>3, AlertGoes
  <2> QED BY <2>8, <2>9
<1> QED BY <1>3, <1>4, <1>5

\* Movements, single alerts and resolutions.
LEMMA OtherAlertsKeep ==
    ASSUME AlertInv, NEW r \in Requests,
           \/ \E todo : Move(r, todo)
           \/ ReadStock(r) \/ CommitMovement(r)
           \/ \E a \in Alerts : CreateAlert(r, a)
           \/ CheckStocks(r)
           \/ \E w : FindAlert(r, w) \/ \E rows : BulkResolve(r, rows)
           \/ Resolve(r)
           \/ Lose(r) /\ UNCHANGED ivars
    PROVE  AlertStepGood(r)
<1>1. Over.pc = "done" /\ AlertShape(Over) /\ AlertFits(Over)'
  BY DEF Over, AlertShape, StockSteps, CheckPcs, AlertFits
<1>2. ASSUME NEW todo, Move(r, todo) PROVE AlertStepGood(r)
  <2>1. PICK q : q = [pc |-> "read", todo |-> todo, seen |-> 0]
    OBVIOUS
  <2>2. Begin(r, q) /\ unresolved' \subseteq Requests \X Alerts
    BY <1>2, <2>1 DEF Move, ivars, AlertInv
  <2>3. AlertShape(q) /\ AlertFits(q)' /\ q.pc = "read"
    BY <2>1 DEF AlertShape, StockSteps, CheckPcs, AlertFits
  <2> QED BY <2>2, <2>3, AlertBegins
<1>3. CASE ReadStock(r)
  <2>1. PICK n : /\ call[r].pc = "read" /\ Go(r, "read", [At(r, "commit") EXCEPT !.seen = n])
                 /\ unresolved' \subseteq Requests \X Alerts
    BY <1>3 DEF ReadStock, ivars, AlertInv
  <2>2. PICK q : q = [At(r, "commit") EXCEPT !.seen = n]
    OBVIOUS
  <2>3. call[r] = [pc |-> "read", todo |-> call[r].todo, seen |-> call[r].seen]
    BY <2>1 DEF AlertInv, AlertShape
  <2>4. q = [pc |-> "commit", todo |-> call[r].todo, seen |-> n]
    BY <2>2, <2>3 DEF At
  <2>5. AlertShape(q) /\ AlertFits(q)' /\ q.pc = "commit"
    BY <2>4 DEF AlertShape, StockSteps, CheckPcs, AlertFits
  <2> QED BY <2>1, <2>2, <2>5, AlertGoes
<1>4. CASE CommitMovement(r)
  <2>1. /\ call[r].pc = "commit" /\ Go(r, "commit", AfterMovement(call[r]))
        /\ unresolved' \subseteq Requests \X Alerts
    BY <1>4 DEF CommitMovement, AlertInv
  <2>2. PICK q : q = AfterMovement(call[r])
    OBVIOUS
  <2>3. call[r] = [pc |-> "commit", todo |-> call[r].todo, seen |-> call[r].seen]
    BY <2>1 DEF AlertInv, AlertShape
  <2>4. q = Over \/ q = [pc |-> "read", todo |-> Tail(call[r].todo), seen |-> 0]
    BY <2>2, <2>3 DEF AfterMovement
  <2>5. AlertShape(q) /\ AlertFits(q)' /\ q.pc # "idle"
    BY <1>1, <2>4 DEF AlertShape, StockSteps, CheckPcs, AlertFits
  <2> QED BY <2>1, <2>2, <2>5, AlertGoes
<1>5. ASSUME NEW pc \in CheckPcs \ {"raise", "refresh"}, NEW todo \in SUBSET Alerts, NEW whole \in BOOLEAN,
             Begin(r, [pc |-> pc, todo |-> todo, alert |-> <<>>, whole |-> whole]), UNCHANGED ivars,
             pc = "look" => whole = FALSE
      PROVE  AlertStepGood(r)
  <2>1. PICK q : q = [pc |-> pc, todo |-> todo, alert |-> <<>>, whole |-> whole]
    OBVIOUS
  <2>2. AlertShape(q) /\ AlertFits(q)' /\ q.pc # "idle"
    BY <1>5, <2>1 DEF AlertShape, StockSteps, CheckPcs, AlertFits
  <2>3. unresolved' \subseteq Requests \X Alerts
    BY <1>5 DEF ivars, AlertInv
  <2> QED BY <1>5, <2>1, <2>2, <2>3, AlertBegins
<1>6. ASSUME NEW a \in Alerts, CreateAlert(r, a) PROVE AlertStepGood(r)
  BY <1>5, <1>6 DEF CreateAlert, CheckPcs
<1>7. ASSUME CheckStocks(r) PROVE AlertStepGood(r)
  <2>1. /\ "stocks" \in CheckPcs \ {"raise", "refresh"} /\ {} \in SUBSET Alerts /\ TRUE \in BOOLEAN
        /\ Begin(r, [pc |-> "stocks", todo |-> {}, alert |-> <<>>, whole |-> TRUE]) /\ UNCHANGED ivars
        /\ "stocks" # "look"
    BY <1>7 DEF CheckStocks, CheckPcs
  <2> QED BY <1>5, <2>1
<1>8. ASSUME NEW w, FindAlert(r, w) PROVE AlertStepGood(r)
  <2>1. PICK q : q = [pc |-> "resolve", row |-> w]
    OBVIOUS
  <2>2. Begin(r, q) /\ unresolved' \subseteq Requests \X Alerts
    BY <1>8, <2>1 DEF FindAlert, ivars, AlertInv
  <2>3. AlertShape(q) /\ AlertFits(q)' /\ q.pc = "resolve"
    BY <2>1 DEF AlertShape, StockSteps, CheckPcs, AlertFits
  <2> QED BY <2>2, <2>3, AlertBegins
<1>9. ASSUME NEW rows, BulkResolve(r, rows) PROVE AlertStepGood(r)
  BY <1>1, <1>9, AlertBegins DEF BulkResolve, AlertInv
<1>10. CASE Resolve(r)
  BY <1>1, <1>10, AlertGoes DEF Resolve, AlertInv
<1>11. CASE Lose(r) /\ UNCHANGED ivars
  <2>1. PICK q : q = [pc |-> "lost"]
    OBVIOUS
  <2>2. Kept' /\ SoloOpen' /\ OnlyFor(r, q) /\ ~Solo(r)'
    BY <1>11, <2>1, SoloLost DEF AlertInv
  <2>3. AlertShape(q) /\ q.pc = "lost" /\ unresolved' \subseteq Requests \X Alerts
    BY <1>11, <2>1 DEF AlertShape, StockSteps, CheckPcs, AlertInv, ivars
  <2>4. AlertInv'
    BY <2>2, <2>3, AlertKeeps
  <2> QED BY <2>2, <2>3, <2>4 DEF AlertStepGood
<1> QED BY <1>2, <1>3, <1>4, <1>6, <1>7, <1>8, <1>9, <1>10, <1>11

\* Every step keeps the invariant, and no check that nothing overlapped ends with an alert missing.
LEMMA AlertStepKeeps ==
    ASSUME AlertInv, NEW r \in Requests, StockStep(r)
    PROVE  AlertStepGood(r)
BY CheckKeeps, OtherAlertsKeep DEF StockStep

\* A check of the stocks that nothing overlaps leaves an alert for every product that is out of
\* stock or low, whichever alerts were raised twice, resolved or cut off before.
THEOREM ChecksFindAll == StockSpec => SoloCheckAlerts
<1>1. RequestsInit /\ StockInit => AlertInv
  <2> SUFFICES ASSUME RequestsInit, StockInit PROVE AlertInv
    OBVIOUS
  <2>1. \A r \in Requests : AlertShape(call[r])
    BY DEF RequestsInit, Unasked, AlertShape, StockSteps, CheckPcs
  <2> QED BY <2>1, SoloAtFirst DEF AlertInv, StockInit
<1>2. ASSUME AlertInv, UNCHANGED <<rvars, ivars>> PROVE AlertInv'
  <2>1. call' = call /\ stock' = stock /\ unresolved' = unresolved
    BY <1>2 DEF rvars, ivars
  <2>2. Kept' /\ SoloOpen' /\ \A r \in Requests : Solo(r)' <=> Solo(r)
    BY <1>2, SoloStays DEF AlertInv, rvars
  <2> QED BY <1>2, <2>1, <2>2 DEF AlertInv, AlertShape, AlertFits, Needed, Raised, RowsOf
<1>3. AlertInv /\ [StockNext]_<<rvars, ivars>> => AlertInv'
  BY <1>2, AlertStepKeeps DEF StockNext, AlertStepGood
<1>4. ASSUME AlertInv, NEW r \in Requests, StockStep(r), NEW s \in Requests, EndsAlone(s),
             call[s].pc \in {"stocks", "raise", "refresh"}, call[s].whole, NEW p \in Products
      PROVE  /\ stock[p] = 0 => \E q \in Requests : <<q, <<p, "out_of_stock">>>> \in unresolved'
             /\ stock[p] \in 1..StockMin =>
                   \E q \in Requests : <<q, <<p, "low_stock">>>> \in unresolved'
  <2>1. PICK q : /\ OnlyFor(r, q)
                 /\ q.pc = "done" /\ call[r].pc \in {"stocks", "raise", "refresh"} =>
                       alone' = alone /\ (Solo(r) /\ call[r].whole = TRUE => Needed \subseteq Raised')
    BY <1>4, AlertStepKeeps DEF AlertStepGood
  <2>2. s = r /\ q.pc = "done" /\ alone'[r]
    BY <1>4, <2>1, WhoEndsAlone
  <2>3. call[r].whole = TRUE
    BY <1>4, <2>2 DEF AlertInv, AlertShape, CheckPcs
  <2>4. Needed \subseteq Raised'
    BY <1>4, <2>1, <2>2, <2>3 DEF Solo, Open
  <2>5. AlertInv'
    BY <1>4, AlertStepKeeps DEF AlertStepGood
  <2>6. ASSUME NEW a \in Needed PROVE \E x \in Requests : <<x, a>> \in unresolved'
    <3>1. PICK w \in unresolved' : w[2] = a
      BY <2>4 DEF Raised, RowsOf
    <3>2. PICK x \in Requests, b \in Alerts : w = <<x, b>>
      BY <2>5 DEF AlertInv
    <3> QED BY <3>1, <3>2
  <2>7. stock[p] = 0 => <<p, "out_of_stock">> \in Needed
    BY DEF Needed, Alerts
  <2>8. stock[p] \in 1..StockMin => <<p, "low_stock">> \in Needed
    BY DEF Needed, Alerts
  <2> QED BY <2>6, <2>7, <2>8
<1>5. AlertInv /\ [StockNext]_<<rvars, ivars>> =>
         [\A r \in Requests :
             EndsAlone(r) /\ call[r].pc \in {"stocks", "raise", "refresh"} /\ call[r].whole =>
                 \A p \in Products :
                     /\ stock[p] = 0 => \E q \in Requests : <<q, <<p, "out_of_stock">>>> \in unresolved'
                     /\ stock[p] \in 1..StockMin =>
                           \E q \in Requests : <<q, <<p, "low_stock">>>> \in unresolved'
         ]_<<rvars, ivars>>
  BY <1>4 DEF StockNext
<1> QED BY <1>1, <1>3, <1>5, PTL DEF StockSpec, SoloCheckAlerts

-----------------------------------------------------------------------------
(* TenantService.updateTenant and updateSubscription *)

BillingRow == [live: BOOLEAN, plan: Plans, amount: Money, discount: Money, total: Int]
BillPcs    == {"plan"} \cup SubscribePcs
LiveRows   == {i \in DOMAIN billed : billed[i].live}

BillShape(q) ==
    /\ q.pc \in BillingSteps
    /\ q.pc \in BillPcs =>
          /\ q = [pc |-> q.pc, plan |-> q.plan, was |-> q.was, found |-> q.found, row |-> q.row,
                  discount |-> q.discount]
          /\ q.plan \in Plans /\ q.discount \in Money
    /\ q.pc = "put" =>
          /\ q = [pc |-> "put", row |-> q.row, seen |-> q.seen, plan |-> q.plan, amount |-> q.amount,
                  discount |-> q.discount, live |-> q.live]
          /\ q.seen \in BillingRow /\ q.plan \in OrNone(Plans)
          /\ q.amount \in OrNone(Money) /\ q.discount \in OrNone(Money) /\ q.live \in OrNone(BOOLEAN)

\* The tenant is on the plan it is to be billed for, and the rows are what a request has read.
BillFits(q) ==
    /\ q.pc \in {"subscription", "rebill", "bill"} => q.plan = chosen
    /\ q.pc = "bill" => LiveRows = {}
    /\ q.pc = "rebill" => /\ q.row \in LiveRows /\ \A i \in LiveRows : i <= q.row
                          /\ q.discount = billed[q.row].discount
    /\ q.pc = "put" => q.row \in DOMAIN billed /\ q.seen = billed[q.row]

BillInv ==
    /\ Kept /\ SoloOpen
    /\ chosen \in Plans /\ price \in [Plans -> Money] /\ billed \in Seq(BillingRow)
    /\ \A r \in Requests : BillShape(call[r]) /\ (Solo(r) => BillFits(call[r]))

\* The last live row bills the plan of the tenant.
PlanBilled ==
    \E i \in LiveRows :
        /\ \A j \in LiveRows : j <= i
        /\ billed[i].plan = chosen /\ billed[i].amount = price[chosen] /\ AddsUp(billed[i])

\* What r has to have done when it ends without an error.
BillRight(r) ==
    /\ call[r].pc = "subscription" => ~ChangesPlan(call[r])
    /\ call[r].pc \in {"rebill", "bill"} => PlanBilled'
    /\ call[r].pc = "put" /\ ~LeavesAmountToPlan(call[r]) =>
          \A i \in DOMAIN billed : AddsUp(billed[i]) => AddsUp(billed'[i])

\* A step keeps the invariant, and bills what it should if nothing overlapped it.
BillStepGood(r) ==
    /\ BillInv'
    /\ \E q : OnlyFor(r, q) /\ (q.pc = "done" => alone' = alone /\ (Solo(r) => BillRight(r)))

\* What a step of r has to leave.
LEMMA BillKeeps ==
    ASSUME BillInv, NEW r \in Requests, NEW q, Kept', SoloOpen', OnlyFor(r, q),
           chosen' \in Plans, price' = price, billed' \in Seq(BillingRow),
           BillShape(q), Solo(r)' => BillFits(q)'
    PROVE  BillInv'
<1>1. ASSUME NEW s \in Requests
      PROVE  BillShape(call[s])' /\ (Solo(s)' => BillFits(call[s])')
  <2>1. CASE s = r
    BY <2>1 DEF OnlyFor, BillShape, BillFits
  <2>2. CASE s # r
    BY <2>2 DEF OnlyFor, BillInv, BillShape
  <2> QED BY <2>1, <2>2
<1>2. price' \in [Plans -> Money]
  BY DEF BillInv
<1> QED BY <1>1, <1>2 DEF BillInv

\* A request that comes in.
LEMMA BillBegins ==
    ASSUME BillInv, NEW r \in Requests, NEW q, Begin(r, q), UNCHANGED pvars,
           BillShape(q), q.pc \notin {"idle", "done"}, BillFits(q)'
    PROVE  BillStepGood(r)
<1>1. Kept' /\ SoloOpen' /\ OnlyFor(r, q)
  BY SoloBegins DEF BillInv
<1>2. chosen' \in Plans /\ price' = price /\ billed' \in Seq(BillingRow)
  BY DEF BillInv, pvars
<1>3. BillInv'
  BY <1>1, <1>2, BillKeeps
<1> QED BY <1>1, <1>3 DEF BillStepGood

\* A request that goes on, or ends.
LEMMA BillGoes ==
    ASSUME BillInv, NEW r \in Requests, NEW pc, NEW q, Go(r, pc, q),
           chosen' \in Plans, price' = price, billed' \in Seq(BillingRow),
           BillShape(q), pc \notin {"idle", "done", "swallowed", "lost"}, q.pc # "idle", Solo(r) => BillFits(q)',
           Solo(r) /\ q.pc = "done" => BillRight(r)
    PROVE  BillStepGood(r)
<1>1. Kept' /\ SoloOpen' /\ OnlyFor(r, q) /\ call[r].pc = pc /\ alone' = alone
  BY SoloGoes DEF BillInv
<1>2. Solo(r)' => Solo(r)
  BY <1>1 DEF Solo, Open
<1>3. BillInv'
  BY <1>1, <1>2, BillKeeps
<1> QED BY <1>1, <1>3 DEF BillStepGood

\* A field that is given, and one that is left out.
LEMMA GivenField ==
    ASSUME NEW S, NEW f \in OrNone(S), NEW o
    PROVE  (f = {} /\ Given(f, o) = o) \/ (f # {} /\ Given(f, o) \in S)
<1>1. CASE f = {}
  BY <1>1 DEF Given
<1>2. CASE f # {}
  <2>1. PICK x \in S : f = {x}
    BY <1>2 DEF OrNone
  <2> QED BY <1>2, <2>1 DEF Given
<1> QED BY <1>1, <1>2

\* A change of the plan up to what it looks for: the tenant is read and written, the live row looked up.
LEMMA PlanStepsKeep ==
    ASSUME BillInv, NEW r \in Requests,
           \/ \E p \in Plans, found \in BOOLEAN : ChangePlan(r, p, found)
           \/ WriteTenant(r) \/ LookForSubscription(r)
    PROVE  BillStepGood(r)
<1>1. Over.pc = "done" /\ BillShape(Over) /\ BillFits(Over)'
  BY DEF Over, BillShape, BillingSteps, SubscribePcs, BillPcs, BillFits
<1>2. call[r].pc \in BillPcs =>
         /\ call[r] = [pc |-> call[r].pc, plan |-> call[r].plan, was |-> call[r].was, found |-> call[r].found,
                       row |-> call[r].row, discount |-> call[r].discount]
         /\ call[r].plan \in Plans /\ call[r].discount \in Money
         /\ Solo(r) => BillFits(call[r])
  BY DEF BillInv, BillShape
<1>3. ASSUME NEW p \in Plans, NEW found \in BOOLEAN, ChangePlan(r, p, found) PROVE BillStepGood(r)
  <2>1. PICK q : q = [pc |-> "plan", plan |-> p, was |-> chosen, found |-> found, row |-> 0, discount |-> 0]
    OBVIOUS
  <2>2. BillShape(q) /\ BillFits(q)' /\ q.pc = "plan"
    BY <2>1, MoneyAssumption DEF BillShape, BillFits, BillingSteps, SubscribePcs, BillPcs, Money
  <2> QED BY <1>3, <2>1, <2>2, BillBegins DEF ChangePlan
<1>4. CASE WriteTenant(r)
  <2>1. /\ call[r].pc = "plan" /\ chosen' = call[r].plan /\ price' = price /\ billed' = billed
        /\ Go(r, "plan", IF call[r].found THEN At(r, "subscription") ELSE Over)
    BY <1>4 DEF WriteTenant
  <2>2. /\ call[r] = [pc |-> "plan", plan |-> call[r].plan, was |-> call[r].was, found |-> call[r].found,
                      row |-> call[r].row, discount |-> call[r].discount]
        /\ call[r].plan \in Plans /\ call[r].discount \in Money
    BY <1>2, <2>1 DEF BillPcs, SubscribePcs
  <2>3. PICK q : q = At(r, "subscription")
    OBVIOUS
  <2>4. q = [pc |-> "subscription", plan |-> call[r].plan, was |-> call[r].was, found |-> call[r].found,
             row |-> call[r].row, discount |-> call[r].discount]
    BY <2>2, <2>3 DEF At
  <2>5. BillShape(q) /\ BillFits(q)' /\ q.pc = "subscription"
    BY <2>1, <2>2, <2>4 DEF BillShape, BillFits, BillingSteps, SubscribePcs, BillPcs
  <2>6. BillRight(r)
    BY <2>1 DEF BillRight
  <2>7. chosen' \in Plans /\ price' = price /\ billed' \in Seq(BillingRow)
    BY <2>1, <2>2 DEF BillInv
  <2>8. CASE call[r].found
    BY <2>1, <2>3, <2>5, <2>7, <2>8, BillGoes
  <2>9. CASE ~call[r].found
    BY <1>1, <2>1, <2>6, <2>7, <2>9, BillGoes
  <2> QED BY <2>8, <2>9
<1>5. CASE LookForSubscription(r)
  <2>1. /\ call[r].pc = "subscription" /\ UNCHANGED pvars
        /\ chosen' \in Plans /\ price' = price /\ billed' \in Seq(BillingRow)
        /\ chosen' = chosen /\ LiveRows' = LiveRows /\ billed' = billed
    BY <1>5 DEF LookForSubscription, pvars, BillInv, LiveRows
  <2>2. IF LiveRows = {} THEN Go(r, "subscription", At(r, "bill"))
        ELSE IF ~ChangesPlan(call[r]) THEN Go(r, "subscription", Over)
        ELSE Go(r, "subscription", [At(r, "rebill") EXCEPT
                  !.row = Max(LiveRows), !.discount = billed[Max(LiveRows)].discount])
    BY <1>5 DEF LookForSubscription, LiveRows
  <2>3. /\ call[r] = [pc |-> "subscription", plan |-> call[r].plan, was |-> call[r].was, found |-> call[r].found,
                      row |-> call[r].row, discount |-> call[r].discount]
        /\ call[r].plan \in Plans /\ call[r].discount \in Money
        /\ Solo(r) => call[r].plan = chosen
    BY <1>2, <2>1 DEF BillPcs, SubscribePcs, BillFits
  <2>4. CASE LiveRows = {}
    <3>1. PICK q : q = At(r, "bill")
      OBVIOUS
    <3>2. q = [pc |-> "bill", plan |-> call[r].plan, was |-> call[r].was, found |-> call[r].found,
               row |-> call[r].row, discount |-> call[r].discount]
      BY <2>3, <3>1 DEF At
    <3>3. BillShape(q) /\ q.pc = "bill"
      BY <2>3, <3>2 DEF BillShape, BillingSteps, SubscribePcs, BillPcs
    <3>4. Solo(r) => BillFits(q)'
      BY <2>1, <2>3, <2>4, <3>2 DEF BillFits
    <3> QED BY <2>1, <2>2, <2>4, <3>1, <3>3, <3>4, BillGoes
  <2>5. CASE LiveRows # {} /\ ~ChangesPlan(call[r])
    <3>1. BillRight(r)
      BY <2>1, <2>5 DEF BillRight
    <3> QED BY <1>1, <2>1, <2>2, <2>5, <3>1, BillGoes
  <2>6. CASE LiveRows # {} /\ ChangesPlan(call[r])
    <3>1. PICK top : top = Max(LiveRows)
      OBVIOUS
    <3>2. LiveRows \subseteq 1..Len(billed) /\ Len(billed) \in Nat
      BY DEF LiveRows, BillInv
    <3>3. top \in LiveRows /\ \A i \in LiveRows : i <= top
      <4>1. IsFiniteSet(LiveRows) /\ LiveRows \in SUBSET Nat
        <5>1. IsFiniteSet(1..Len(billed))
          BY <3>2, FS_Interval
        <5>2. LiveRows \in SUBSET (1..Len(billed)) /\ 1..Len(billed) \subseteq Nat
          BY <3>2
        <5> QED BY <5>1, <5>2, FS_Subset
      <4>2. top \in LiveRows /\ \A i \in LiveRows : top >= i
        BY <2>6, <3>1, <4>1, MaxOfNumbers
      <4> QED BY <3>2, <4>2
    <3>4. billed[top] \in BillingRow
      BY <3>3 DEF LiveRows, BillInv
    <3>5. PICK q : q = [At(r, "rebill") EXCEPT !.row = top, !.discount = billed[top].discount]
      OBVIOUS
    <3>6. q = [pc |-> "rebill", plan |-> call[r].plan, was |-> call[r].was, found |-> call[r].found,
               row |-> top, discount |-> billed[top].discount]
      BY <2>3, <3>5 DEF At
    <3>7. BillShape(q) /\ q.pc = "rebill"
      BY <2>3, <3>4, <3>6 DEF BillShape, BillingSteps, SubscribePcs, BillPcs, BillingRow
    <3>8. Solo(r) => BillFits(q)'
      BY <2>1, <2>3, <3>3, <3>6 DEF BillFits
    <3>9. Go(r, "subscription", q)
      BY <2>2, <2>6, <3>1, <3>5
    <3> QED BY <2>1, <3>7, <3>8, <3>9, BillGoes
  <2> QED BY <2>4, <2>5, <2>6
<1> QED BY <1>3, <1>4, <1>5

\* A sequence in which one element is replaced.
LEMMA ReplacedPlace ==
    ASSUME NEW S, NEW s \in Seq(S), NEW i, NEW x, i \in DOMAIN s => x \in S
    PROVE  [s EXCEPT ![i] = x] \in Seq(S) /\ DOMAIN [s EXCEPT ![i] = x] = DOMAIN s
<1>1. PICK n \in Nat : s \in [1..n -> S]
  OBVIOUS
<1>2. [s EXCEPT ![i] = x] \in [1..n -> S]
  BY <1>1
<1> QED BY <1>1, <1>2

\* The last step of a change of the plan: the live row is billed anew, or a first row made.
LEMMA BillsKeep ==
    ASSUME BillInv, NEW r \in Requests, Rebill(r) \/ Bill(r)
    PROVE  BillStepGood(r)
<1>1. Over.pc = "done" /\ BillShape(Over) /\ BillFits(Over)'
  BY DEF Over, BillShape, BillingSteps, SubscribePcs, BillPcs, BillFits
<1>2. call[r].pc \in BillPcs =>
         /\ call[r].plan \in Plans /\ call[r].discount \in Money
         /\ Solo(r) => BillFits(call[r])
  BY DEF BillInv, BillShape
<1>3. /\ price \in [Plans -> Money] /\ \A p \in Plans : price[p] \in Money
      /\ billed \in Seq(BillingRow) /\ \A i \in DOMAIN billed : billed[i] \in BillingRow
      /\ Money \subseteq Int
  BY MoneyAssumption DEF BillInv, Money
<1>4. CASE Rebill(r)
  <2>1. /\ call[r].pc = "rebill" /\ Go(r, "rebill", Over) /\ chosen' = chosen /\ price' = price
        /\ call[r].plan \in Plans /\ call[r].discount \in Money
        /\ Solo(r) => BillFits(call[r])
    BY <1>2, <1>4 DEF Rebill, BillPcs, SubscribePcs
  <2>2. PICK i, p, d, new : /\ i = call[r].row /\ p = call[r].plan /\ d = call[r].discount
                            /\ new = [billed[i] EXCEPT !.plan = p, !.amount = price[p], !.total = price[p] - d]
    OBVIOUS
  <2>3. billed' = [billed EXCEPT ![i] = new]
    BY <1>4, <2>2 DEF Rebill
  <2>4. i \in DOMAIN billed =>
            new = [live |-> billed[i].live, plan |-> p, amount |-> price[p],
                   discount |-> billed[i].discount, total |-> price[p] - d]
    BY <1>3, <2>2 DEF BillingRow
  <2>5. price[p] - d \in Int /\ price[p] \in Money /\ p \in Plans
    BY <1>3, <2>1, <2>2
  <2>6. i \in DOMAIN billed => new \in BillingRow
    BY <1>3, <2>4, <2>5 DEF BillingRow
  <2>7. billed' \in Seq(BillingRow) /\ DOMAIN billed' = DOMAIN billed
    BY <1>3, <2>3, <2>6, ReplacedPlace
  <2>8. ASSUME Solo(r) PROVE BillRight(r)
    <3>1. /\ p = chosen /\ i \in LiveRows /\ \A j \in LiveRows : j <= i
          /\ d = billed[i].discount
      BY <2>1, <2>2, <2>8 DEF BillFits
    <3>2. i \in DOMAIN billed /\ billed'[i] = new
      BY <1>3, <2>3, <3>1 DEF LiveRows
    <3>3. \A j \in DOMAIN billed : billed'[j].live = billed[j].live
      BY <1>3, <2>3, <2>4, <3>2
    <3>4. LiveRows' = LiveRows
      BY <2>7, <3>3 DEF LiveRows
    <3>5. /\ billed'[i].plan = chosen' /\ billed'[i].amount = price'[chosen']
          /\ billed'[i].total = billed'[i].amount - billed'[i].discount
      BY <2>1, <2>4, <3>1, <3>2
    <3>6. PlanBilled'
      BY <3>1, <3>4, <3>5 DEF PlanBilled, AddsUp
    <3> QED BY <2>1, <3>6 DEF BillRight
  <2>9. chosen' \in Plans /\ BillFits(Over)'
    BY <1>1, <2>1 DEF BillInv
  <2> QED BY <1>1, <2>1, <2>7, <2>8, <2>9, BillGoes
<1>5. CASE Bill(r)
  <2>1. /\ call[r].pc = "bill" /\ Go(r, "bill", Over) /\ chosen' = chosen /\ price' = price
        /\ call[r].plan \in Plans
        /\ Solo(r) => BillFits(call[r])
    BY <1>2, <1>5 DEF Bill, BillPcs, SubscribePcs
  <2>2. PICK p, new : p = call[r].plan /\ new = Subscribed(p)
    OBVIOUS
  <2>3. billed' = Append(billed, new)
    BY <1>5, <2>2 DEF Bill
  <2>4. /\ new = [live |-> TRUE, plan |-> p, amount |-> price[p], discount |-> 0, total |-> price[p]]
        /\ price[p] \in Int /\ price[p] \in Money /\ 0 \in Money /\ p \in Plans
    BY <1>3, <2>1, <2>2, MoneyAssumption DEF Subscribed, Money
  <2>5. new \in BillingRow
    BY <2>4 DEF BillingRow
  <2>6. billed' \in Seq(BillingRow)
    BY <1>3, <2>3, <2>5
  <2>7. ASSUME Solo(r) PROVE BillRight(r)
    <3>1. p = chosen /\ LiveRows = {}
      BY <2>1, <2>2, <2>7 DEF BillFits
    <3>2. PICK n \in Nat : n = Len(billed)
      BY <1>3
    <3>3. /\ DOMAIN billed' = 1..(n + 1) /\ billed'[n + 1] = new
          /\ \A j \in 1..n : j \in DOMAIN billed /\ billed'[j] = billed[j]
      BY <1>3, <2>3, <2>5, <3>2
    <3>4. \A j \in 1..n : ~billed'[j].live
      BY <3>1, <3>3 DEF LiveRows
    <3>5. n + 1 \in LiveRows' /\ \A j \in LiveRows' : j = n + 1
      <4>1. billed'[n + 1].live /\ n + 1 \in DOMAIN billed'
        BY <2>4, <3>2, <3>3
      <4>2. ASSUME NEW j \in DOMAIN billed', billed'[j].live PROVE j = n + 1
        <5>1. j \in 1..n \/ j = n + 1
          BY <3>2, <3>3, <4>2
        <5> QED BY <3>4, <4>2, <5>1
      <4> QED BY <4>1, <4>2 DEF LiveRows
    <3>6. /\ billed'[n + 1].plan = chosen' /\ billed'[n + 1].amount = price'[chosen']
          /\ billed'[n + 1].total = billed'[n + 1].amount - billed'[n + 1].discount
      BY <2>1, <2>4, <3>1, <3>3
    <3>7. PlanBilled'
      BY <3>2, <3>5, <3>6 DEF PlanBilled, AddsUp
    <3> QED BY <2>1, <3>7 DEF BillRight
  <2>8. chosen' \in Plans /\ BillFits(Over)'
    BY <1>1, <2>1 DEF BillInv
  <2> QED BY <1>1, <2>1, <2>6, <2>7, <2>8, BillGoes
<1> QED BY <1>4, <1>5

\* What an update makes of a row it has read as it is: the total still adds up, unless the
\* discount is given and the amount left to the plan.
LEMMA UpdateAddsUp ==
    ASSUME NEW q, NEW old, NEW t,
           q.seen = old, ~LeavesAmountToPlan(q), AddsUp(old), t = TotalAfter(q, old.total),
           NEW m, m = Given(q.amount, IF q.plan = {} THEN old.amount ELSE price[Given(q.plan, chosen)])
    PROVE  t = m - Given(q.discount, old.discount)
<1>1. \A o : Given({}, o) = o
  BY DEF Given
<1>2. ASSUME NEW f, f # {}, NEW o, NEW w PROVE Given(f, o) = Given(f, w)
  BY <1>2 DEF Given
<1>3. CASE q.discount # {}
  <2>1. m = Given(q.amount, old.amount)
    <3>1. CASE q.amount = {}
      <4>1. q.plan = {}
        BY <1>3, <3>1 DEF LeavesAmountToPlan
      <4> QED BY <4>1
    <3>2. CASE q.amount # {}
      BY <1>2, <3>2
    <3> QED BY <3>1, <3>2
  <2>2. Given(q.discount, old.discount) = Given(q.discount, 0)
    BY <1>2, <1>3
  <2>3. t = Given(q.amount, old.amount) - Given(q.discount, 0)
    BY <1>3 DEF TotalAfter
  <2> QED BY <2>1, <2>2, <2>3
<1>4. CASE q.discount = {} /\ q.amount # {}
  <2>1. m = Given(q.amount, 0) /\ Given(q.discount, old.discount) = old.discount
    BY <1>1, <1>2, <1>4
  <2>2. t = Given(q.amount, 0) - old.discount
    BY <1>4 DEF TotalAfter
  <2> QED BY <2>1, <2>2
<1>5. CASE q.discount = {} /\ q.amount = {} /\ q.plan # {}
  <2>1. m = price[Given(q.plan, chosen)] /\ Given(q.discount, old.discount) = old.discount
    BY <1>1, <1>5
  <2>2. t = price[Given(q.plan, chosen)] - old.discount
    BY <1>5 DEF TotalAfter
  <2> QED BY <2>1, <2>2
<1>6. CASE q.discount = {} /\ q.amount = {} /\ q.plan = {}
  <2>1. m = old.amount /\ Given(q.discount, old.discount) = old.discount
    BY <1>1, <1>6
  <2>2. t = old.total
    BY <1>6 DEF TotalAfter
  <2> QED BY <2>1, <2>2 DEF AddsUp
<1> QED BY <1>3, <1>4, <1>5, <1>6

\* What an update makes of a row is a row.
LEMMA UpdateIsRow ==
    ASSUME NEW q, BillShape(q), q.pc = "put", NEW old \in BillingRow,
           chosen \in Plans, price \in [Plans -> Money]
    PROVE  [live     |-> Given(q.live, old.live),
            plan     |-> Given(q.plan, old.plan),
            amount   |-> Given(q.amount, IF q.plan = {} THEN old.amount ELSE price[Given(q.plan, chosen)]),
            discount |-> Given(q.discount, old.discount),
            total    |-> TotalAfter(q, old.total)] \in BillingRow
<1>1. /\ q.seen \in BillingRow /\ q.plan \in OrNone(Plans) /\ q.amount \in OrNone(Money)
      /\ q.discount \in OrNone(Money) /\ q.live \in OrNone(BOOLEAN)
  BY DEF BillShape
<1>2. /\ old.live \in BOOLEAN /\ old.plan \in Plans /\ old.amount \in Money /\ old.discount \in Money
      /\ old.total \in Int /\ q.seen.amount \in Money /\ q.seen.discount \in Money
  BY <1>1 DEF BillingRow
<1>3. Money \subseteq Int /\ 0 \in Money
  BY MoneyAssumption DEF Money
<1>4. Given(q.live, old.live) \in BOOLEAN
  BY <1>1, <1>2, GivenField
<1>5. Given(q.plan, old.plan) \in Plans /\ Given(q.plan, chosen) \in Plans
  BY <1>1, <1>2, GivenField
<1>6. price[Given(q.plan, chosen)] \in Money
  BY <1>5
<1>7. Given(q.discount, old.discount) \in Money /\ Given(q.discount, 0) \in Money
  BY <1>1, <1>2, <1>3, GivenField
<1>8. ASSUME NEW o \in Money PROVE Given(q.amount, o) \in Money
  BY <1>1, GivenField
<1>9. TotalAfter(q, old.total) \in Int
  <2>1. Given(q.amount, q.seen.amount) \in Int /\ Given(q.amount, 0) \in Int /\ Given(q.discount, 0) \in Int
    BY <1>2, <1>3, <1>7, <1>8
  <2>2. price[Given(q.plan, chosen)] \in Int /\ q.seen.discount \in Int
    BY <1>2, <1>3, <1>6
  <2> QED BY <1>2, <2>1, <2>2 DEF TotalAfter
<1>10. Given(q.amount, IF q.plan = {} THEN old.amount ELSE price[Given(q.plan, chosen)]) \in Money
  BY <1>2, <1>6, <1>8
<1> QED BY <1>4, <1>5, <1>7, <1>9, <1>10 DEF BillingRow

\* updateSubscription, and what cuts a request off.
LEMMA UpdatesKeep ==
    ASSUME BillInv, NEW r \in Requests,
           \/ \E i \in DOMAIN billed, plan \in OrNone(Plans), amount, discount \in OrNone(Money),
                 live \in OrNone(BOOLEAN) : ReviseSubscription(r, i, plan, amount, discount, live)
           \/ PutSubscription(r)
           \/ BillingFails(r)
           \/ Lose(r) /\ UNCHANGED pvars
    PROVE  BillStepGood(r)
<1>1. Over.pc = "done" /\ BillShape(Over) /\ BillFits(Over)'
  BY DEF Over, BillShape, BillingSteps, SubscribePcs, BillPcs, BillFits
<1>2. ASSUME NEW i \in DOMAIN billed, NEW plan \in OrNone(Plans), NEW amount \in OrNone(Money),
             NEW discount \in OrNone(Money), NEW live \in OrNone(BOOLEAN),
             ReviseSubscription(r, i, plan, amount, discount, live)
      PROVE  BillStepGood(r)
  <2>1. PICK q : q = [pc |-> "put", row |-> i, seen |-> billed[i], plan |-> plan, amount |-> amount,
                      discount |-> discount, live |-> live]
    OBVIOUS
  <2>2. Begin(r, q) /\ UNCHANGED pvars
    BY <1>2, <2>1 DEF ReviseSubscription
  <2>3. billed[i] \in BillingRow
    BY DEF BillInv
  <2>4. BillShape(q) /\ q.pc = "put"
    BY <2>1, <2>3 DEF BillShape, BillingSteps, SubscribePcs, BillPcs
  <2>5. BillFits(q)'
    BY <2>1, <2>2 DEF BillFits, pvars
  <2> QED BY <2>2, <2>4, <2>5, BillBegins
<1>3. CASE PutSubscription(r)
  <2>1. PICK q, i : q = call[r] /\ i = q.row
    OBVIOUS
  <2>2. /\ q.pc = "put" /\ Go(r, "put", Over) /\ chosen' = chosen /\ price' = price
        /\ chosen \in Plans /\ price \in [Plans -> Money] /\ chosen' \in Plans
        /\ BillShape(q) /\ (Solo(r) => BillFits(q))
        /\ billed \in Seq(BillingRow)
    BY <1>3, <2>1 DEF PutSubscription, BillInv
  <2>3. PICK old, m, t, new :
           /\ old = billed[i]
           /\ m = Given(q.amount, IF q.plan = {} THEN old.amount ELSE price[Given(q.plan, chosen)])
           /\ t = TotalAfter(q, old.total)
           /\ new = [live     |-> Given(q.live, old.live),
                     plan     |-> Given(q.plan, old.plan),
                     amount   |-> m,
                     discount |-> Given(q.discount, old.discount),
                     total    |-> t]
    OBVIOUS
  <2>4. billed' = [billed EXCEPT ![i] = new]
    BY <1>3, <2>1, <2>3 DEF PutSubscription
  <2>5. i \in DOMAIN billed => new \in BillingRow
    <3>1. CASE i \in DOMAIN billed
      <4>1. old \in BillingRow
        BY <2>2, <2>3, <3>1
      <4> QED BY <2>2, <2>3, <4>1, UpdateIsRow
    <3> QED BY <3>1
  <2>6. billed' \in Seq(BillingRow)
    BY <2>2, <2>4, <2>5, ReplacedPlace
  <2>7. ASSUME Solo(r) PROVE BillRight(r)
    <3>1. i \in DOMAIN billed /\ q.seen = old
      BY <2>1, <2>2, <2>3, <2>7 DEF BillFits
    <3>2. billed'[i] = new /\ \A j \in DOMAIN billed : j # i => billed'[j] = billed[j]
      BY <2>2, <2>4, <3>1
    <3>3. ASSUME ~LeavesAmountToPlan(q), AddsUp(old) PROVE AddsUp(new)
      <4>1. t = m - Given(q.discount, old.discount)
        BY <2>3, <3>1, <3>3, UpdateAddsUp
      <4> QED BY <2>3, <4>1 DEF AddsUp
    <3>4. ASSUME ~LeavesAmountToPlan(q), NEW j \in DOMAIN billed, AddsUp(billed[j])
          PROVE  AddsUp(billed'[j])
      <4>1. CASE j = i
        BY <2>3, <3>2, <3>3, <3>4, <4>1
      <4>2. CASE j # i
        BY <3>2, <3>4, <4>2
      <4> QED BY <4>1, <4>2
    <3> QED BY <2>1, <2>2, <3>4 DEF BillRight
  <2> QED BY <1>1, <2>2, <2>6, <2>7, BillGoes
<1>4. CASE (Lose(r) /\ UNCHANGED pvars) \/ BillingFails(r)
  <2>1. PICK q : /\ q \in {[pc |-> "lost"], [pc |-> "swallowed"]}
                 /\ Kept' /\ SoloOpen' /\ OnlyFor(r, q) /\ ~Solo(r)'
    BY <1>4, SoloLost, SoloSwallowed DEF BillInv, BillingFails
  <2>2. /\ BillShape(q) /\ q.pc # "done"
        /\ chosen' \in Plans /\ price' = price /\ billed' \in Seq(BillingRow)
    BY <1>4, <2>1 DEF BillingFails, BillShape, BillingSteps, SubscribePcs, BillPcs, BillInv, pvars
  <2>3. Kept' /\ SoloOpen' /\ OnlyFor(r, q) /\ ~Solo(r)'
    BY <2>1
  <2>4. BillInv'
    BY <2>2, <2>3, BillKeeps
  <2> QED BY <2>2, <2>3, <2>4 DEF BillStepGood
<1> QED BY <1>2, <1>3, <1>4

\* Every step keeps the invariant, and bills what it should if nothing overlapped it.
LEMMA BillStepKeeps ==
    ASSUME BillInv, NEW r \in Requests, BillingStep(r)
    PROVE  BillStepGood(r)
BY PlanStepsKeep, BillsKeep, UpdatesKeep DEF BillingStep

\* The invariant holds at first.
LEMMA BillInvAtFirst == RequestsInit /\ SubsInit => BillInv
<1> SUFFICES ASSUME RequestsInit, SubsInit PROVE BillInv
  OBVIOUS
<1>1. \A r \in Requests : BillShape(call[r])
  BY DEF RequestsInit, Unasked, BillShape, BillingSteps, SubscribePcs, BillPcs
<1>2. chosen \in Plans /\ price \in [Plans -> Money] /\ price[chosen] \in Money
  BY DEF SubsInit
<1>3. 0 \in Money /\ Money \subseteq Int
  BY MoneyAssumption DEF Money
<1>4. Subscribed(chosen) \in BillingRow
  BY <1>2, <1>3 DEF Subscribed, BillingRow
<1>5. billed \in Seq(BillingRow)
  <2>1. CASE billed = <<>>
    BY <2>1
  <2>2. CASE billed = <<Subscribed(chosen)>>
    BY <1>4, <2>2
  <2> QED BY <2>1, <2>2 DEF SubsInit
<1> QED BY <1>1, <1>2, <1>5, SoloAtFirst DEF BillInv

\* Nothing happens: the invariant stays.
LEMMA BillStutter ==
    ASSUME BillInv, UNCHANGED <<rvars, pvars>>
    PROVE  BillInv'
<1>1. call' = call /\ chosen' = chosen /\ price' = price /\ billed' = billed
  BY DEF rvars, pvars
<1>2. Kept' /\ SoloOpen' /\ \A r \in Requests : Solo(r)' <=> Solo(r)
  BY SoloStays DEF BillInv, rvars
<1> QED BY <1>1, <1>2 DEF BillInv, BillShape, BillFits, LiveRows

\* Every step keeps the invariant.
LEMMA BillInvStays == BillInv /\ [BillingNext]_<<rvars, pvars>> => BillInv'
BY BillStutter, BillStepKeeps DEF BillingNext, BillStepGood

\* A step that is about the subscription leaves the bills as they are, or right.
LEMMA BillingSettles ==
    ASSUME BillInv, NEW r \in Requests, BillingStep(r), call[r].pc \in BillPcs
    PROVE  /\ alone' = alone
           /\ Solo(r) /\ call[r].pc \in SubscribePcs => billed' = billed \/ PlanBilled'
           /\ Solo(r) /\ call'[r].pc \in {"done", "swallowed"} => chosen' = call[r].plan
<1>1. \/ WriteTenant(r) \/ LookForSubscription(r) \/ Rebill(r) \/ Bill(r) \/ BillingFails(r)
      \/ Lose(r) /\ UNCHANGED pvars
  <2>1. ASSUME NEW p, NEW found, ChangePlan(r, p, found) PROVE FALSE
    BY <2>1 DEF ChangePlan, Begin, BillPcs, SubscribePcs
  <2>2. ASSUME NEW i, NEW plan, NEW amount, NEW discount, NEW live,
               ReviseSubscription(r, i, plan, amount, discount, live)
        PROVE  FALSE
    BY <2>2 DEF ReviseSubscription, Begin, BillPcs, SubscribePcs
  <2>3. ~PutSubscription(r)
    BY DEF PutSubscription, BillPcs, SubscribePcs
  <2> QED BY <2>1, <2>2, <2>3 DEF BillingStep
<1>2. Kept /\ (Solo(r) /\ call[r].pc \in SubscribePcs => call[r].plan = chosen)
  BY DEF BillInv, BillFits, SubscribePcs
<1>3. CASE WriteTenant(r)
  BY <1>3 DEF WriteTenant, Go, SubscribePcs
<1>4. CASE LookForSubscription(r) \/ BillingFails(r)
  BY <1>2, <1>4 DEF LookForSubscription, BillingFails, Go, Swallow, pvars, SubscribePcs
<1>5. CASE Rebill(r) \/ Bill(r)
  <2>1. PICK q : OnlyFor(r, q) /\ (q.pc = "done" => alone' = alone /\ (Solo(r) => BillRight(r)))
    BY <1>5, BillsKeep DEF BillStepGood
  <2>2. /\ call[r].pc \in {"rebill", "bill"} /\ alone' = alone /\ chosen' = chosen
        /\ call'[r].pc = "done"
    BY <1>2, <1>5 DEF Rebill, Bill, Go, Kept, Over
  <2> QED BY <1>2, <2>1, <2>2 DEF OnlyFor, BillRight, SubscribePcs
<1>6. CASE Lose(r) /\ UNCHANGED pvars
  BY <1>2, <1>6 DEF Lose, pvars, Kept
<1> QED BY <1>1, <1>3, <1>4, <1>5, <1>6

\* The last live row is the youngest one that is live.
LEMMA PlanBilledIsBilled == BillInv /\ PlanBilled => BilledForPlan
<1> SUFFICES ASSUME billed \in Seq(BillingRow), PlanBilled PROVE BilledForPlan
  BY DEF BillInv
<1>1. PICK i \in LiveRows :
         /\ \A j \in LiveRows : j <= i
         /\ billed[i].plan = chosen /\ billed[i].amount = price[chosen] /\ AddsUp(billed[i])
  BY DEF PlanBilled
<1>2. i \in DOMAIN billed /\ billed[i].live /\ i \in Nat /\ Len(billed) \in Nat
      /\ DOMAIN billed = 1..Len(billed)
  BY DEF LiveRows
<1>3. ASSUME NEW j \in i + 1..Len(billed), billed[j].live PROVE FALSE
  <2>1. j \in DOMAIN billed /\ ~(j <= i)
    BY <1>2
  <2> QED BY <1>1, <1>3, <2>1 DEF LiveRows
<1> QED BY <1>1, <1>2, <1>3 DEF BilledForPlan

\* Of requests that nothing overlaps, for all prices and histories, those that cut-off, failing
\* and overlapping requests left included: a change of plan that meets no error leaves the
\* tenant billed for it, one that does leaves its bills as they were, and an update of a
\* subscription leaves a total that adds up.
THEOREM BillsAreRightAlone == BillingSpec => SoloBillIsRight
<1>1. BillInv' /\ PlanBilled' => BilledForPlan'
  BY PlanBilledIsBilled, PTL
<1>2. ASSUME BillInv, NEW r \in Requests, BillingStep(r), NEW s \in Requests, EndsAlone(s)
      PROVE  BillRight(s)
  <2>1. PICK q : OnlyFor(r, q) /\ (q.pc = "done" => alone' = alone /\ (Solo(r) => BillRight(r)))
    BY <1>2, BillStepKeeps DEF BillStepGood
  <2>2. s = r /\ q.pc = "done" /\ alone'[r] /\ call[r].pc # "done"
    BY <1>2, <2>1, WhoEndsAlone
  <2>3. call[r].pc \notin {"idle", "swallowed", "lost"} => Solo(r)
    BY <1>2, <2>1, <2>2 DEF Solo, Open
  <2> QED BY <2>1, <2>2, <2>3 DEF BillRight
<1>3. ASSUME BillInv, NEW r \in Requests, BillingStep(r), NEW s \in Requests, alone'[s],
             call'[s] # call[s], call[s].pc \in BillPcs
      PROVE  /\ call[s].pc \in SubscribePcs => billed' = billed \/ PlanBilled'
             /\ call'[s].pc \in {"done", "swallowed"} => chosen' = call[s].plan
  <2>1. s = r
    BY <1>3, BillStepKeeps DEF BillStepGood, OnlyFor
  <2>2. Solo(r)
    BY <1>3, <2>1, BillingSettles DEF Solo, Open, BillPcs, SubscribePcs
  <2> QED BY <1>3, <2>1, <2>2, BillingSettles
<1>4. ASSUME BillInv, NEW r \in Requests, BillingStep(r), NEW s \in Requests
      PROVE  /\ EndsAlone(s) /\ call[s].pc \in SubscribePcs /\ ChangesPlan(call[s]) => BilledForPlan'
             /\ alone'[s] /\ call'[s] # call[s] /\ call[s].pc \in SubscribePcs =>
                   billed' = billed \/ BilledForPlan'
             /\ alone'[s] /\ call[s].pc \in {"plan"} \cup SubscribePcs
                   /\ call'[s].pc \in {"done", "swallowed"} => chosen' = call[s].plan
             /\ EndsAlone(s) /\ call[s].pc = "put" /\ ~LeavesAmountToPlan(call[s]) =>
                   \A i \in DOMAIN billed : AddsUp(billed[i]) => AddsUp(billed'[i])
  <2>1. PlanBilled' => BilledForPlan'
    BY <1>1, <1>4, BillStepKeeps DEF BillStepGood
  <2>2. EndsAlone(s) /\ call[s].pc \in SubscribePcs /\ ChangesPlan(call[s]) => PlanBilled'
    BY <1>2, <1>4 DEF BillRight, SubscribePcs
  <2>3. EndsAlone(s) /\ call[s].pc = "put" /\ ~LeavesAmountToPlan(call[s]) =>
            \A i \in DOMAIN billed : AddsUp(billed[i]) => AddsUp(billed'[i])
    BY <1>2, <1>4 DEF BillRight
  <2>4. alone'[s] /\ call'[s] # call[s] /\ call[s].pc \in SubscribePcs =>
            billed' = billed \/ PlanBilled'
    BY <1>3, <1>4 DEF BillPcs
  <2>5. call[s].pc \in BillPcs /\ call'[s].pc \in {"done", "swallowed"} => call'[s] # call[s]
    BY DEF BillPcs, SubscribePcs
  <2>6. alone'[s] /\ call[s].pc \in BillPcs /\ call'[s].pc \in {"done", "swallowed"} =>
            chosen' = call[s].plan
    BY <1>3, <1>4, <2>5
  <2> QED BY <2>1, <2>2, <2>3, <2>4, <2>6 DEF BillPcs
<1>5. BillInv /\ [BillingNext]_<<rvars, pvars>> =>
         [\A r \in Requests :
             /\ EndsAlone(r) /\ call[r].pc \in SubscribePcs /\ ChangesPlan(call[r]) => BilledForPlan'
             /\ alone'[r] /\ call'[r] # call[r] /\ call[r].pc \in SubscribePcs =>
                   billed' = billed \/ BilledForPlan'
             /\ alone'[r] /\ call[r].pc \in {"plan"} \cup SubscribePcs
                   /\ call'[r].pc \in {"done", "swallowed"} => chosen' = call[r].plan
             /\ EndsAlone(r) /\ call[r].pc = "put" /\ ~LeavesAmountToPlan(call[r]) =>
                   \A i \in DOMAIN billed : AddsUp(billed[i]) => AddsUp(billed'[i])
         ]_<<rvars, pvars>>
  BY <1>4 DEF BillingNext
<1> QED BY BillInvAtFirst, BillInvStays, <1>5, PTL DEF BillingSpec, SoloBillIsRight
=============================================================================

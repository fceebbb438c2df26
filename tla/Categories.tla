------------------------------ MODULE Categories ------------------------------
(***************************************************************************)
(* CategoryService: the tree of product categories. Each operation looks   *)
(* at the parent, at the ancestors one query at a time, and at the names   *)
(* beside it, and then writes one row. sortOrder is left out. The isActive *)
(* that a request writes matters only when it is written: it is chosen     *)
(* then.                                                                   *)
(***************************************************************************)
EXTENDS Requests

CONSTANTS CategoryIds, Names

ASSUME NoIsNoCategory == {"none", "keep"} \cap CategoryIds = {}

VARIABLE cat   \* cat[c]: the row of c

kvars == <<cat>>

CatSteps == {"idle", "name", "insert", "climb", "rename", "rewrite", "hide", "done", "lost"}

NoCategory == [parent |-> "none", name |-> "none", active |-> FALSE]
Live(c)    == cat[c].name # "none"

CatsTypeOK ==
    /\ cat \in [CategoryIds -> [parent: CategoryIds \cup {"none"}, name: Names \cup {"none"},
                                active: BOOLEAN]]
    /\ \A r \in Requests : call[r].pc \in CatSteps

\* n is the name of a category under p, other than c.
Taken(n, p, c) == \E d \in CategoryIds \ {c} : Live(d) /\ cat[d].name = n /\ cat[d].parent = p

\* A set of categories each of which has its parent in the set.
NoCycle ==
    ~\E S \in (SUBSET CategoryIds) \ {{}} : \A c \in S : cat[c].parent \in S

\* Any tree that creations can have built.
CatsInit ==
    /\ cat \in [CategoryIds ->
          [parent: CategoryIds \cup {"none"}, name: Names, active: {TRUE}] \cup {NoCategory}]
    /\ NoCycle
    /\ \A c \in CategoryIds : Live(c) =>
          /\ ~Taken(cat[c].name, cat[c].parent, c)
          /\ cat[c].parent # "none" => Live(cat[c].parent)

-----------------------------------------------------------------------------
(* create *)

CreateCategory(r, c, p, n) ==
    /\ ~Live(c)
    /\ p # "none" => Live(p) /\ cat[p].active
    /\ Begin(r, [pc |-> "name", cat |-> c, parent |-> p, name |-> n])
    /\ UNCHANGED cat

LookForName(r) ==
    /\ call[r].pc = "name"
    /\ ~Taken(call[r].name, call[r].parent, call[r].cat)
    /\ Pass(r, "name", "insert")
    /\ UNCHANGED cat

InsertCategory(r) ==
    /\ call[r].pc = "insert"
    /\ ~Live(call[r].cat)
    /\ Go(r, "insert", Over)
    /\ \E active \in BOOLEAN :
          cat' = [cat EXCEPT ![call[r].cat] =
                     [parent |-> call[r].parent, name |-> call[r].name, active |-> active]]

-----------------------------------------------------------------------------
(* update; "keep" stands for a field the request leaves out. isActive is always written: *)
(* left out, it is TRUE, the value UpdateCategoryDto inherits.                           *)

UpdateCategory(r, c, p, n) ==
    /\ Live(c) /\ p # c
    /\ p \in CategoryIds => Live(p)
    /\ Begin(r, [pc |-> IF p \in CategoryIds THEN "climb" ELSE "rename",
                 cat |-> c, parent |-> p, name |-> n, at |-> c, was |-> cat[c]])
    /\ UNCHANGED cat

\* isDescendant(parentId, id): from the category upward, looking for its new parent.
Climb(r) ==
    /\ call[r].pc = "climb"
    /\ LET up == cat[call[r].at].parent IN
        /\ up # call[r].parent
        /\ Go(r, "climb", IF up = "none" THEN At(r, "rename") ELSE [call[r] EXCEPT !.at = up])
    /\ UNCHANGED cat

Renamed(q) == q.name \notin {"keep", q.was.name}

\* Mutant: the names are looked up where the category is, not where it goes.
LevelOld(q) == q.was.parent

Level(q) == IF q.parent = "keep" THEN q.was.parent ELSE q.parent

CheckName(r) ==
    /\ call[r].pc = "rename"
    /\ Renamed(call[r]) => ~Taken(call[r].name, Level(call[r]), call[r].cat)
    /\ Pass(r, "rename", "rewrite")
    /\ UNCHANGED cat

WriteCategory(r) ==
    /\ call[r].pc = "rewrite"
    /\ Go(r, "rewrite", Over)
    /\ \E active \in BOOLEAN :
          cat' = [cat EXCEPT ![call[r].cat] =
             [parent |-> IF call[r].parent = "keep" THEN @.parent ELSE call[r].parent,
              name   |-> IF call[r].name = "keep" THEN @.name ELSE call[r].name,
              active |-> active]]

-----------------------------------------------------------------------------
(* softDelete, activate *)

\* No active child, and no active product (any category may have one).
SoftDelete(r, c) ==
    /\ Live(c)
    /\ \A d \in CategoryIds : cat[d].parent = c => ~cat[d].active
    /\ Begin(r, [pc |-> "hide", cat |-> c])
    /\ UNCHANGED cat

HideCategory(r) ==
    /\ call[r].pc = "hide"
    /\ Go(r, "hide", Over)
    /\ cat' = [cat EXCEPT ![call[r].cat].active = FALSE]

Activate(r, c) ==
    /\ Live(c)
    /\ Begin(r, Over)
    /\ cat' = [cat EXCEPT ![c].active = TRUE]

CatStep(r) ==
    \/ \E c \in CategoryIds :
          \/ \E p \in CategoryIds \cup {"none"}, n \in Names : CreateCategory(r, c, p, n)
          \/ \E p \in CategoryIds \cup {"none", "keep"}, n \in Names \cup {"keep"} :
                UpdateCategory(r, c, p, n)
          \/ SoftDelete(r, c) \/ Activate(r, c)
    \/ LookForName(r) \/ InsertCategory(r)
    \/ Climb(r) \/ CheckName(r) \/ WriteCategory(r) \/ HideCategory(r)
    \/ Lose(r) /\ UNCHANGED cat

CatsNext == \E r \in Requests : CatStep(r)

CatsSpec == (RequestsInit /\ CatsInit) /\ [][CatsNext]_<<rvars, kvars>>

-----------------------------------------------------------------------------
(* Properties *)

\* A category that is created, or renamed and perhaps moved as well, while nothing else goes
\* on gets a name no other category beside it has, whatever duplicates there were before.
SoloNameIsFree ==
    [][\A r \in Requests :
          EndsAlone(r) /\ (call[r].pc = "insert" \/ (call[r].pc = "rewrite" /\ Renamed(call[r]))) =>
              ~Taken(call[r].name, cat'[call[r].cat].parent, call[r].cat)]_<<rvars, kvars>>

\* No two categories of one name are beside each other (create: already exists at this level).
SiblingsDiffer ==
    \A c \in CategoryIds : Live(c) => ~Taken(cat[c].name, cat[c].parent, c)

\* An active category is under an active one (create: Parent category is not active).
ActiveUnderActive ==
    \A c \in CategoryIds : cat[c].active /\ cat[c].parent # "none" => cat[cat[c].parent].active
=============================================================================

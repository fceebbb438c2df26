----------------------------- MODULE RequestsProofs -----------------------------
(***************************************************************************)
(* What the steps of module Requests do to its two variables, for the      *)
(* proofs about the services built on them. Each lemma says once what a    *)
(* step leaves, so that no proof has to expand it.                         *)
(***************************************************************************)
EXTENDS Requests, TLAPS

\* Both variables are maps of requests, and nothing overlaps what has not come in.
Kept ==
    /\ call = [r \in Requests |-> call[r]]
    /\ alone \in [Requests -> BOOLEAN]
    /\ \A r \in Requests : call[r].pc = "idle" => alone[r]

\* As long as requests come one after the other there is one under way at most.
OneOpen == OneByOne => \A r, s \in Requests : Open(r) /\ Open(s) => r = s

\* No request has come in at first.
LEMMA KeptAtFirst == RequestsInit => Kept /\ OneOpen
BY DEF RequestsInit, Kept, OneOpen, Open, Unasked

\* A request that comes in changes its own entry; if requests still come one after the other,
\* they did before, and no other is under way.
LEMMA BeginLeaves ==
    ASSUME Kept, NEW r \in Requests, NEW q, q.pc # "idle", Begin(r, q)
    PROVE  /\ Kept' /\ OneOpen'
           /\ call[r].pc = "idle" /\ call'[r] = q
           /\ \A s \in Requests : s # r => call'[s] = call[s]
           /\ OneByOne' => OneByOne /\ \A s \in Requests : s # r => ~Open(s)'
<1>1. call[r].pc = "idle" /\ call'[r] = q /\ \A s \in Requests : s # r => call'[s] = call[s]
  BY DEF Begin, Kept
<1>2. /\ alone' \in [Requests -> BOOLEAN]
      /\ alone'[r] = (\A o \in Requests : ~Open(o))
      /\ \A s \in Requests : s # r => alone'[s] = (alone[s] /\ ~Open(s))
  BY DEF Begin, Kept, Open
<1>3. call' = [s \in Requests |-> call'[s]]
  BY DEF Begin, Kept
<1>4. \A s \in Requests : call'[s].pc = "idle" => alone'[s]
  BY <1>1, <1>2 DEF Kept, Open
<1>5. Kept'
  BY <1>2, <1>3, <1>4 DEF Kept
<1>6. ASSUME OneByOne' PROVE OneByOne /\ \A s \in Requests : s # r => ~Open(s)'
  BY <1>1, <1>2, <1>6 DEF OneByOne, Kept, Open
<1>7. OneOpen'
  BY <1>6 DEF OneOpen
<1> QED BY <1>1, <1>5, <1>6, <1>7

\* A request that goes on changes its own entry; if requests come one after the other, no
\* other is under way.
LEMMA GoLeaves ==
    ASSUME Kept, OneOpen, NEW r \in Requests, NEW pc, NEW q, q.pc # "idle",
           pc \notin {"idle", "done", "swallowed", "lost"}, Go(r, pc, q)
    PROVE  /\ Kept' /\ OneOpen'
           /\ call[r].pc = pc /\ call'[r] = q
           /\ \A s \in Requests : s # r => call'[s] = call[s]
           /\ OneByOne' => OneByOne /\ \A s \in Requests : s # r => ~Open(s)'
<1>1. /\ call[r].pc = pc /\ call'[r] = q /\ alone' = alone
      /\ \A s \in Requests : s # r => call'[s] = call[s]
      /\ call' = [s \in Requests |-> call'[s]]
  BY DEF Go, Kept
<1>2. Kept'
  BY <1>1 DEF Kept
<1>3. OneByOne' => OneByOne /\ \A s \in Requests : s # r => ~Open(s)'
  BY <1>1 DEF OneByOne, OneOpen, Open
<1>4. OneOpen'
  BY <1>3 DEF OneOpen
<1> QED BY <1>1, <1>2, <1>3, <1>4

\* A request that is lost leaves the others as they are.
LEMMA LoseLeaves ==
    ASSUME Kept, OneOpen, NEW r \in Requests, Lose(r)
    PROVE  /\ Kept' /\ OneOpen'
           /\ call'[r] = [pc |-> "lost"]
           /\ \A s \in Requests : s # r => call'[s] = call[s]
           /\ OneByOne' => OneByOne
<1>1. /\ alone' = alone /\ call'[r] = [pc |-> "lost"]
      /\ \A s \in Requests : s # r => call'[s] = call[s]
      /\ call' = [s \in Requests |-> call'[s]]
  BY DEF Lose, Kept
<1>2. Kept' /\ OneOpen'
  BY <1>1 DEF Kept, OneOpen, OneByOne, Open
<1> QED BY <1>1, <1>2 DEF OneByOne

\* Where nothing happens to the requests, what is known of them stays.
LEMMA NothingLeaves ==
    ASSUME Kept, OneOpen, UNCHANGED rvars
    PROVE  Kept' /\ OneOpen' /\ OneByOne' = OneByOne
BY DEF Kept, OneOpen, OneByOne, Open, rvars

-----------------------------------------------------------------------------
(* What nothing overlaps *)

\* s is under way and nothing has overlapped it so far.
Solo(s) == alone[s] /\ Open(s)

\* Such a request is the only one that is under way.
SoloOpen == \A r, s \in Requests : Solo(r) /\ Open(s) => r = s

\* A step of r is a step of r alone, and leaves no other request that nothing overlaps.
OnlyFor(r, q) ==
    /\ call'[r] = q
    /\ \A s \in Requests : s # r => call'[s] = call[s] /\ ~Solo(s)'

\* No request is under way at first.
LEMMA SoloAtFirst == RequestsInit => Kept /\ SoloOpen /\ \A r \in Requests : ~Solo(r)
BY DEF RequestsInit, Kept, SoloOpen, Solo, Open, Unasked

\* A request that comes in overlaps all that are under way.
LEMMA SoloBegins ==
    ASSUME Kept, SoloOpen, NEW r \in Requests, NEW q, q.pc # "idle", Begin(r, q)
    PROVE  Kept' /\ SoloOpen' /\ OnlyFor(r, q) /\ call[r].pc = "idle"
<1>1. call[r].pc = "idle" /\ call'[r] = q /\ \A s \in Requests : s # r => call'[s] = call[s]
  BY DEF Begin, Kept
<1>2. /\ alone' \in [Requests -> BOOLEAN]
      /\ alone'[r] = (\A o \in Requests : ~Open(o))
      /\ \A s \in Requests : s # r => alone'[s] = (alone[s] /\ ~Open(s))
  BY DEF Begin, Kept, Open
<1>3. call' = [s \in Requests |-> call'[s]]
  BY DEF Begin, Kept
<1>4. \A s \in Requests : call'[s].pc = "idle" => alone'[s]
  BY <1>1, <1>2 DEF Kept, Open
<1>5. Kept'
  BY <1>2, <1>3, <1>4 DEF Kept
<1>6. \A s \in Requests : s # r => ~Solo(s)'
  BY <1>1, <1>2 DEF Solo, Open
<1>7. alone'[r] => \A s \in Requests : s # r => ~Open(s)'
  BY <1>1, <1>2 DEF Open
<1>8. SoloOpen'
  BY <1>6, <1>7 DEF SoloOpen, Solo
<1> QED BY <1>1, <1>5, <1>6, <1>8 DEF OnlyFor

\* A request that goes on has been alone if it is: no other that is under way is.
LEMMA SoloGoes ==
    ASSUME Kept, SoloOpen, NEW r \in Requests, NEW pc, NEW q, q.pc # "idle",
           pc \notin {"idle", "done", "swallowed", "lost"}, Go(r, pc, q)
    PROVE  Kept' /\ SoloOpen' /\ OnlyFor(r, q) /\ call[r].pc = pc /\ alone' = alone
<1>1. /\ call[r].pc = pc /\ call'[r] = q /\ alone' = alone
      /\ \A s \in Requests : s # r => call'[s] = call[s]
      /\ call' = [s \in Requests |-> call'[s]]
  BY DEF Go, Kept
<1>2. Kept'
  BY <1>1 DEF Kept
<1>3. \A s \in Requests : s # r => ~Solo(s)'
  BY <1>1 DEF SoloOpen, Solo, Open
<1>4. Solo(r)' => \A s \in Requests : s # r => ~Open(s)'
  BY <1>1 DEF SoloOpen, Solo, Open
<1>5. SoloOpen'
  BY <1>3, <1>4 DEF SoloOpen
<1> QED BY <1>1, <1>2, <1>3, <1>5 DEF OnlyFor

\* A request that is lost is not under way any more.
LEMMA SoloLost ==
    ASSUME Kept, SoloOpen, NEW r \in Requests, Lose(r)
    PROVE  Kept' /\ SoloOpen' /\ OnlyFor(r, [pc |-> "lost"]) /\ ~Solo(r)'
<1>1. /\ alone' = alone /\ call'[r] = [pc |-> "lost"] /\ Open(r)
      /\ \A s \in Requests : s # r => call'[s] = call[s]
      /\ call' = [s \in Requests |-> call'[s]]
  BY DEF Lose, Kept
<1>2. Kept'
  BY <1>1 DEF Kept, Open
<1>3. \A s \in Requests : ~Solo(s)'
  BY <1>1 DEF SoloOpen, Solo, Open
<1>4. SoloOpen'
  BY <1>3 DEF SoloOpen
<1> QED BY <1>1, <1>2, <1>3, <1>4 DEF OnlyFor

\* Nor is one whose error is swallowed.
LEMMA SoloSwallowed ==
    ASSUME Kept, SoloOpen, NEW r \in Requests, Swallow(r)
    PROVE  Kept' /\ SoloOpen' /\ OnlyFor(r, [pc |-> "swallowed"]) /\ ~Solo(r)'
<1>1. /\ alone' = alone /\ call'[r] = [pc |-> "swallowed"] /\ Open(r)
      /\ \A s \in Requests : s # r => call'[s] = call[s]
      /\ call' = [s \in Requests |-> call'[s]]
  BY DEF Swallow, Kept
<1>2. Kept'
  BY <1>1 DEF Kept, Open
<1>3. \A s \in Requests : ~Solo(s)'
  BY <1>1 DEF SoloOpen, Solo, Open
<1>4. SoloOpen'
  BY <1>3 DEF SoloOpen
<1> QED BY <1>1, <1>2, <1>3, <1>4 DEF OnlyFor

\* Where nothing happens to the requests, what is known of them stays and none ends.
LEMMA SoloStays ==
    ASSUME Kept, SoloOpen, UNCHANGED rvars
    PROVE  Kept' /\ SoloOpen' /\ \A r \in Requests : (Solo(r)' <=> Solo(r)) /\ ~EndsAlone(r)
BY DEF Kept, SoloOpen, Solo, Open, rvars, EndsAlone

\* What has been overlapped stays so.
LEMMA OverlappedStays ==
    ASSUME Kept, NEW r \in Requests, NEW q, NEW pc, Begin(r, q) \/ Go(r, pc, q) \/ Lose(r),
           NEW s \in Requests, call[s].pc # "idle", alone'[s]
    PROVE  alone[s]
BY DEF Kept, Begin, Go, Lose

\* What ends alone in a step of r is r, and r was alone before.
LEMMA WhoEndsAlone ==
    ASSUME NEW r \in Requests, NEW q, OnlyFor(r, q), NEW s \in Requests, EndsAlone(s)
    PROVE  s = r /\ q.pc = "done" /\ alone'[r] /\ call[r].pc # "done"
BY DEF OnlyFor, EndsAlone
=============================================================================

---------------------------- MODULE ArenaProofs -----------------------------
(***************************************************************************)
(* Proofs about Arena, for any number of threads and blocks, any sizes and *)
(* all kinds of arena and options that ArenaAssumption allows.             *)
(***************************************************************************)
EXTENDS ArenaProps, WellFoundedInduction, TLAPS

-----------------------------------------------------------------------------
(* The range a purge goes to next.                                         *)

\* Every set of natural numbers has a least one.
LEMMA Least ==
    ASSUME NEW S \in SUBSET Nat, S # {}
    PROVE  \E x \in S : \A y \in S : x <= y
<1> DEFINE R == OpToRel(<, Nat)
<1>1. IsWellFoundedOn(R, Nat)
  BY NatLessThanWellFounded
<1>2. \A x, y \in Nat : y < x => <<y, x>> \in R
  BY DEF OpToRel
<1> HIDE DEF R
<1>3. PICK x \in S : \A y \in S : <<y, x>> \notin R
  BY <1>1, WFMin
<1>4. ASSUME NEW y \in S PROVE x <= y
  <2>1. x \in Nat /\ y \in Nat /\ ~(y < x)
    BY <1>2, <1>3
  <2> QED
    BY <2>1
<1> QED
  BY <1>3, <1>4

LEMMA SpanIn == ASSUME NEW b \in Nat, NEW n \in Nat, b + n <= Blocks
                PROVE  Span(b, n) \subseteq Block
  BY ArenaAssumption DEF Span, Block

LEMMA SpanNonEmpty == ASSUME NEW b \in Nat, NEW n \in Nat, n > 0
                      PROVE  Span(b, n) # {}
<1>1. b \in Span(b, n)
  BY DEF Span
<1> QED
  BY <1>1

\* The first block of a set from b on.
LEMMA FirstOf ==
    ASSUME NEW seen \in SUBSET Block, NEW b \in Nat, ~\A d \in seen : d < b
    PROVE  \E d \in seen : d >= b /\ \A e \in seen : e >= b => d <= e
<1> DEFINE S == {d \in seen : d >= b}
<1>1. S \in SUBSET Nat
  <2>1. Block \subseteq Nat
    BY ArenaAssumption DEF Block
  <2> QED
    BY <2>1
<1>2. PICK d \in seen : ~(d < b)
  OBVIOUS
<1>3. d \in S
  BY <1>2, ArenaAssumption DEF Block
<1>4. \E x \in S : \A y \in S : x <= y
  <2> HIDE DEF S
  <2> QED
    BY <1>1, <1>3, Least
<1> QED
  BY <1>4

\* How many blocks of a set there are from one of them on.
LEMMA LengthOf ==
    ASSUME NEW seen \in SUBSET Block, NEW first \in seen
    PROVE  \E n \in 1..Blocks : Span(first, n) \subseteq seen /\ first + n \notin seen
<1> DEFINE S == {n \in Nat : n > 0 /\ first + n \notin seen}
<1>1. Blocks \in Nat /\ first \in Nat /\ first < Blocks
  BY ArenaAssumption DEF Block
<1>2. Blocks - first \in S
  BY <1>1 DEF Block
<1>3. PICK n \in S : \A k \in S : n <= k
  <2>1. S \in SUBSET Nat
    OBVIOUS
  <2> HIDE DEF S
  <2> QED
    BY <1>2, <2>1, Least
<1>4. n \in 1..Blocks
  BY <1>1, <1>2, <1>3
<1>5. ASSUME NEW d \in Span(first, n) PROVE d \in seen
  <2>1. d - first \in Nat /\ d - first < n /\ first + (d - first) = d
    BY <1>1, <1>5 DEF Span
  <2>2. CASE d = first
    BY <2>2
  <2>3. CASE d # first
    <3>1. d - first > 0
      BY <1>1, <2>1, <2>3
    <3> QED
      BY <1>3, <2>1, <3>1
  <2> QED
    BY <2>2, <2>3
<1> QED
  BY <1>3, <1>4, <1>5

\* What Seek says of the place it leads to.
LEMMA SeekFinds ==
    ASSUME NEW c \in Control, NEW b \in Nat
    PROVE  /\ Seek(c, b) \in Control
           /\ Seek(c, b).at \in {"rearm", "claim"}
           /\ Seek(c, b).at = "claim" =>
                  LET r == Span(Seek(c, b).bit, Seek(c, b).len)
                  IN  r # {} /\ r \subseteq Block
<1>1. CASE \A d \in c.seen : d < b
  <2>1. Seek(c, b) = [Idle EXCEPT !.at = "rearm", !.full = c.full]
    BY <1>1 DEF Seek
  <2>2. Idle \in Control
    BY ArenaAssumption DEF Idle, Control, Label
  <2> QED
    BY <2>1, <2>2 DEF Control, Label
<1>2. CASE ~\A d \in c.seen : d < b
  <2> DEFINE Is(d) == d >= b /\ \A e \in c.seen : e >= b => d <= e
             first == CHOOSE d \in c.seen : Is(d)
             Fits(n) == Span(first, n) \subseteq c.seen /\ first + n \notin c.seen
             len   == CHOOSE n \in 1..Blocks : Fits(n)
  <2>1. c.seen \in SUBSET Block
    BY DEF Control
  <2>2. first \in c.seen
    <3>1. \E d \in c.seen : Is(d)
      BY <1>2, <2>1, FirstOf
    <3> HIDE DEF Is
    <3> QED
      BY <3>1
  <2>3. Seek(c, b) = [c EXCEPT !.at = "claim", !.bit = first, !.len = len,
                               !.seen = {d \in @ : d >= first}]
    BY <1>2 DEF Seek
  <2> HIDE DEF first
  <2>4. len \in 1..Blocks /\ Fits(len)
    <3>1. \E n \in 1..Blocks : Fits(n)
      BY <2>1, <2>2, LengthOf
    <3> HIDE DEF Fits
    <3> QED
      BY <3>1
  <2> HIDE DEF len
  <2>5. first \in Nat /\ first \in 0..Blocks /\ len \in 0..Blocks /\ len \in Nat /\ len > 0
    BY <2>1, <2>2, <2>4, ArenaAssumption DEF Block
  <2>6. /\ Seek(c, b) \in Control /\ Seek(c, b).at = "claim"
        /\ Seek(c, b).bit = first /\ Seek(c, b).len = len
    BY <2>3, <2>5 DEF Control, Label
  <2> QED
    BY <2>1, <2>4, <2>5, <2>6, SpanNonEmpty
<1> QED
  BY <1>1, <1>2

-----------------------------------------------------------------------------
(* Steps of one thread.                                                    *)

\* Thread t goes to c and has memory m.
Moves(t, c, m) == pc' = [pc EXCEPT ![t] = c] /\ hold' = [hold EXCEPT ![t] = m]

LEMMA Moved ==
    ASSUME TypeOK, NEW t \in Thread, NEW c, NEW m, Moves(t, c, m)
    PROVE  /\ pc'[t] = c /\ hold'[t] = m
           /\ \A u \in Thread \ {t} : pc'[u] = pc[u] /\ hold'[u] = hold[u]
  BY DEF TypeOK, Moves

\* The claims of the others are theirs, and t has what it had, more, or less of it.
LEMMA ClaimsStep ==
    ASSUME ClaimsAccounted, TypeOK', NEW t \in Thread, NEW c, NEW m, Moves(t, c, m),
           inuse' = (inuse \ Mine(t)) \cup Mine(t)',
           Mine(t)' \cap (inuse \ Mine(t)) = {},
           hold'[t].run \cap Purging(t)' = {}
    PROVE  ClaimsAccounted'
<1>1. \A u \in Thread \ {t} : /\ Mine(u)' = Mine(u) /\ Purging(u)' = Purging(u)
                              /\ hold'[u] = hold[u]
  BY Moved DEF ClaimsAccounted, Mine, Purging, At
<1>2. \A u \in Thread \ {t} : Mine(u) \subseteq inuse \ Mine(t)
  BY DEF ClaimsAccounted
<1>3. inuse' = UNION {Mine(u)' : u \in Thread}
  <2>1. ASSUME NEW b \in inuse' PROVE \E u \in Thread : b \in Mine(u)'
    BY <1>1, <2>1 DEF ClaimsAccounted
  <2>2. ASSUME NEW u \in Thread, NEW b \in Mine(u)' PROVE b \in inuse'
    BY <1>1, <1>2, <2>2
  <2> QED
    BY <2>1, <2>2
<1>4. ASSUME NEW u \in Thread, NEW v \in Thread, u # v PROVE Mine(u)' \cap Mine(v)' = {}
  BY <1>1, <1>2, <1>4 DEF ClaimsAccounted
<1>5. ASSUME NEW u \in Thread PROVE (hold[u].run \cap Purging(u) = {})'
  BY <1>1 DEF ClaimsAccounted
<1> QED
  BY <1>3, <1>4, <1>5 DEF ClaimsAccounted

LEMMA PlacedStep ==
    ASSUME IInv, NEW t \in Thread, NEW c, NEW m, Moves(t, c, m),
           opt' = opt, dirty \subseteq dirty', Placed(t)'
    PROVE  \A u \in Thread : Placed(u)'
<1>1. ASSUME NEW u \in Thread \ {t} PROVE Placed(u)'
  <2>1. pc'[u] = pc[u] /\ hold'[u] = hold[u] /\ Placed(u)
    BY Moved DEF IInv, ClaimsAccounted
  <2> QED
    BY <2>1 DEF Placed, At
<1> QED
  BY <1>1

\* What the others have been told stays true.
LEMMA TruthStep ==
    ASSUME IInv, NEW t \in Thread, NEW c, NEW m, Moves(t, c, m),
           os \ Mine(t) \subseteq os', written' \subseteq written \cup Mine(t),
           m.full => m.run \subseteq os', m.zero => m.run \cap written' = {}
    PROVE  MemidIsTrue'
<1>1. ASSUME NEW u \in Thread \ {t}
      PROVE  /\ hold'[u].full => hold'[u].run \subseteq os'
             /\ hold'[u].zero => hold'[u].run \cap written' = {}
  <2>1. hold'[u] = hold[u] /\ hold[u].run \cap Mine(t) = {}
    BY Moved DEF IInv, ClaimsAccounted, Mine
  <2> QED
    BY <2>1 DEF IInv, MemidIsTrue
<1>2. hold'[t] = m
  BY Moved DEF IInv, ClaimsAccounted
<1> QED
  BY <1>1, <1>2 DEF MemidIsTrue

\* A step shows that the bits of t's own blocks stay right; others' are as before.
LEMMA RealStep ==
    ASSUME IInv, NEW t \in Thread, NEW c, NEW m, Moves(t, c, m),
           \A b \in committed' \ os' :
               \/ b \in committed \ os /\ b \notin hold[t].run
               \/ /\ b \in m.run /\ ~m.full
                  /\ c.at \notin Allocating \cup Freeing
    PROVE  CommittedIsReal'
<1> SUFFICES ASSUME NEW b \in committed' \ os'
             PROVE  \E u \in Thread : /\ b \in hold'[u].run /\ ~hold'[u].full
                                      /\ pc'[u].at \notin Allocating \cup Freeing
  BY DEF CommittedIsReal
<1>1. /\ pc'[t] = c /\ hold'[t] = m
      /\ \A u \in Thread \ {t} : pc'[u] = pc[u] /\ hold'[u] = hold[u]
  BY Moved DEF IInv, ClaimsAccounted
<1>2. CASE b \in committed \ os /\ b \notin hold[t].run
  BY <1>1, <1>2 DEF IInv, CommittedIsReal
<1>3. CASE b \in m.run /\ ~m.full /\ c.at \notin Allocating \cup Freeing
  BY <1>1, <1>3
<1> QED
  BY <1>2, <1>3

-----------------------------------------------------------------------------
(* The steps.                                                              *)

\* A step that leaves the memory of t and what is known of it alone.
LEMMA QuietStep ==
    ASSUME IInv, NEW t \in Thread, NEW c \in Control, pc' = [pc EXCEPT ![t] = c],
           purge' \subseteq Block, expire' \in BOOLEAN,
           UNCHANGED <<opt, inuse, dirty, committed, os, written, hold>>,
           Purging(t)' = Purging(t), Placed(t)',
           c.at \in Allocating \cup Freeing => pc[t].at \in Allocating \cup Freeing
    PROVE  IInv'
<1>1. Moves(t, c, hold[t]) /\ TypeOK'
  BY DEF Moves, IInv, ClaimsAccounted, TypeOK
<1>2. ClaimsAccounted'
  <2>1. Mine(t)' = Mine(t) /\ Mine(t) \subseteq inuse
    BY DEF Mine, IInv, ClaimsAccounted
  <2> QED
    BY <1>1, <2>1, ClaimsStep DEF IInv, ClaimsAccounted
<1>3. CommittedIsReal'
  <2>1. \A u \in Thread : pc'[u] = IF u = t THEN c ELSE pc[u]
    BY DEF IInv, ClaimsAccounted, TypeOK
  <2> QED
    BY <2>1 DEF IInv, CommittedIsReal
<1>4. \A u \in Thread : Placed(u)'
  BY <1>1, PlacedStep
<1> QED
  BY <1>1, <1>2, <1>3, <1>4 DEF IInv, MemidIsTrue

LEMMA IdleIs == Idle \in Control /\ Idle.at = "idle"
  BY ArenaAssumption DEF Idle, Control, Label

\* On to another place.
LEMMA GoneTo ==
    ASSUME TypeOK, NEW t \in Thread, NEW at \in Label, GoTo(t, at)
    PROVE  /\ pc' = [pc EXCEPT ![t] = [pc[t] EXCEPT !.at = at]]
           /\ pc'[t] = [pc[t] EXCEPT !.at = at]
           /\ pc'[t].at = at /\ pc'[t].bit = pc[t].bit /\ pc'[t].len = pc[t].len
           /\ pc'[t] \in Control
  BY DEF TypeOK, GoTo, Control

LEMMA CollectStep ==
    ASSUME IInv, NEW t \in Thread, Collect(t)
    PROVE  IInv'
<1> DEFINE c == IF opt.delay = "later" THEN [Idle EXCEPT !.at = "guard"] ELSE Idle
<1>1. pc' = [pc EXCEPT ![t] = c] /\ pc[t] = Idle
  BY DEF Collect, TryPurge
<1>2. c \in Control /\ c.at \in {"guard", "idle"}
  BY IdleIs DEF Control, Label
<1> HIDE DEF c
<1>3. pc'[t] = c /\ pc[t].at = "idle"
  BY <1>1, IdleIs DEF IInv, ClaimsAccounted, TypeOK
<1>4. Purging(t)' = Purging(t) /\ Placed(t)'
  BY <1>2, <1>3 DEF Purging, Placed, Collect, shared, IInv, Allocating, Freeing
<1> QED
  BY <1>1, <1>2, <1>3, <1>4, QuietStep
     DEF Collect, shared, Allocating, Freeing, IInv, ClaimsAccounted, TypeOK

LEMMA GuardStep ==
    ASSUME IInv, NEW t \in Thread, Guard(t)
    PROVE  IInv'
<1> DEFINE c == IF \E u \in Thread : pc[u].at \in Guarded THEN Idle
                ELSE [pc[t] EXCEPT !.at = "due"]
<1>1. pc' = [pc EXCEPT ![t] = c] /\ pc[t].at = "guard"
  BY DEF Guard, IInv, ClaimsAccounted, TypeOK
<1>2. c \in Control /\ c.at \in {"due", "idle"}
  BY ArenaAssumption DEF Idle, Control, Label, IInv, ClaimsAccounted, TypeOK
<1> HIDE DEF c
<1>3. pc'[t] = c
  BY <1>1 DEF IInv, ClaimsAccounted, TypeOK
<1>4. Purging(t)' = Purging(t) /\ Placed(t)'
  BY <1>1, <1>2, <1>3 DEF Purging, Placed, Guard, shared, IInv, Allocating, Freeing
<1> QED
  BY <1>1, <1>2, <1>3, <1>4, QuietStep
     DEF Guard, shared, Allocating, Freeing, IInv, ClaimsAccounted, TypeOK

LEMMA DueStep ==
    ASSUME IInv, NEW t \in Thread, Due(t)
    PROVE  IInv'
<1>1. PICK c \in Control : /\ pc' = [pc EXCEPT ![t] = c]
                           /\ c.at = "idle" \/ (c.at = "scan" /\ ~opt.pinned)
  <2>1. CASE pc' = [pc EXCEPT ![t] = Idle]
    BY <2>1, IdleIs
  <2>2. CASE ~opt.pinned /\ GoTo(t, "scan")
    BY <2>2, GoneTo DEF Label, IInv, ClaimsAccounted
  <2> QED
    BY <2>1, <2>2 DEF Due
<1>2. pc'[t] = c /\ pc[t].at = "due"
  BY <1>1 DEF Due, IInv, ClaimsAccounted, TypeOK
<1>3. Purging(t)' = Purging(t) /\ Placed(t)'
  BY <1>1, <1>2 DEF Purging, Placed, Due, IInv, Allocating, Freeing
<1>4. expire' \in BOOLEAN
  BY DEF Due, IInv, ClaimsAccounted, TypeOK
<1> QED
  BY <1>1, <1>2, <1>3, <1>4, QuietStep
     DEF Due, Allocating, Freeing, IInv, ClaimsAccounted, TypeOK

LEMMA ScanStep ==
    ASSUME IInv, NEW t \in Thread, Scan(t)
    PROVE  IInv'
<1> DEFINE s == [pc[t] EXCEPT !.seen = purge]
           c == Seek(s, 0)
<1>1. pc' = [pc EXCEPT ![t] = c] /\ pc[t].at = "scan" /\ s \in Control
  BY DEF Scan, IInv, ClaimsAccounted, TypeOK, Control
<1> HIDE DEF s
<1>2. /\ c \in Control /\ c.at \in {"rearm", "claim"}
      /\ c.at = "claim" => LET r == Span(c.bit, c.len) IN r # {} /\ r \subseteq Block
  BY <1>1, SeekFinds
<1> HIDE DEF c
<1>3. pc'[t] = c
  BY <1>1 DEF IInv, ClaimsAccounted, TypeOK
<1>4. Purging(t)' = Purging(t) /\ Placed(t)'
  BY <1>1, <1>2, <1>3 DEF Purging, Placed, At, Scan, shared, IInv, Allocating, Freeing
<1> QED
  BY <1>1, <1>2, <1>3, <1>4, QuietStep
     DEF Scan, shared, Allocating, Freeing, IInv, ClaimsAccounted, TypeOK

LEMMA RearmStep ==
    ASSUME IInv, NEW t \in Thread, Rearm(t)
    PROVE  IInv'
<1>1. Idle \in Control /\ Idle.at = "idle"
  BY ArenaAssumption DEF Idle, Control, Label
<1>2. pc' = [pc EXCEPT ![t] = Idle] /\ pc'[t] = Idle /\ pc[t].at = "rearm"
  BY DEF Rearm, IInv, ClaimsAccounted, TypeOK
<1>3. Purging(t)' = Purging(t) /\ Placed(t)'
  BY <1>1, <1>2 DEF Purging, Placed, Rearm, IInv, Allocating, Freeing
<1>4. expire' \in BOOLEAN
  BY DEF Rearm
<1> QED
  BY <1>1, <1>2, <1>3, <1>4, QuietStep
     DEF Rearm, Allocating, Freeing, IInv, ClaimsAccounted, TypeOK

LEMMA MarkingSteps ==
    ASSUME IInv, NEW t \in Thread,
           Unschedule(t) \/ Mark(t) \/ (SetExpire(t) /\ opt.delay # "now")
    PROVE  IInv'
<1>1. TypeOK /\ Placed(t) /\ hold[t].run \subseteq Block
  BY DEF IInv, ClaimsAccounted, TypeOK, Memory
<1>2. PICK at \in {"describe", "mark", "release"} :
          /\ GoTo(t, at) /\ pc[t].at \in {"unschedule", "expire", "mark"}
          /\ (pc[t].at = "unschedule" /\ at = "describe") \/ pc[t].at \in {"expire", "mark"}
          /\ at = "mark" => pc[t].at = "expire"
  BY DEF Unschedule, Mark, SetExpire
<1>3. /\ pc' = [pc EXCEPT ![t] = pc'[t]] /\ pc'[t] \in Control /\ pc'[t].at = at
      /\ pc[t].at \in {"unschedule", "expire", "mark"}
      /\ (pc[t].at = "unschedule" /\ at = "describe") \/ pc[t].at \in {"expire", "mark"}
      /\ at = "mark" => pc[t].at = "expire"
  <2>1. at \in Label
    BY <1>2 DEF Label
  <2> QED
    BY <1>1, <1>2, <2>1, GoneTo
<1>4. Purging(t)' = Purging(t) /\ Placed(t)'
  BY <1>1, <1>2, <1>3 DEF Purging, Placed, Unschedule, Mark, SetExpire, Allocating, Freeing
<1>5. purge' \subseteq Block /\ expire' \in BOOLEAN
  BY <1>1 DEF Unschedule, Mark, SetExpire, TypeOK
<1> QED
  BY <1>2, <1>3, <1>4, <1>5, QuietStep DEF Unschedule, Mark, SetExpire, Allocating, Freeing

-----------------------------------------------------------------------------
(* Steps that claim, give back, commit or purge.                           *)

\* What a step has to show: of its thread, and of the bits.
LEMMA InvStep ==
    ASSUME IInv, NEW t \in Thread, NEW c \in Control, NEW m \in Memory, Moves(t, c, m),
           opt' = opt, inuse' \subseteq Block, dirty' \subseteq Block,
           committed' \subseteq Block, purge' \subseteq Block, os' \subseteq Block,
           expire' \in BOOLEAN, written' \subseteq Block,
           inuse' = (inuse \ Mine(t)) \cup Mine(t)',
           Mine(t)' \cap (inuse \ Mine(t)) = {},
           hold'[t].run \cap Purging(t)' = {},
           dirty \subseteq dirty', written' \subseteq dirty', Placed(t)',
           os \ Mine(t) \subseteq os', written' \subseteq written \cup Mine(t),
           m.full => m.run \subseteq os', m.zero => m.run \cap written' = {},
           \A b \in committed' \ os' :
               \/ b \in committed \ os /\ b \notin hold[t].run
               \/ b \in m.run /\ ~m.full /\ c.at \notin Allocating \cup Freeing,
           opt.pinned => committed' = {} /\ os' = Block
    PROVE  IInv'
<1>1. TypeOK'
  BY DEF Moves, IInv, ClaimsAccounted, TypeOK
<1>2. ClaimsAccounted'
  BY <1>1, ClaimsStep DEF IInv
<1>3. MemidIsTrue'
  BY TruthStep
<1>4. CommittedIsReal'
  BY RealStep
<1>5. \A u \in Thread : Placed(u)'
  BY PlacedStep
<1> QED
  BY <1>2, <1>3, <1>4, <1>5 DEF IInv

\* What IInv says of one thread.
LEMMA Own ==
    ASSUME IInv, NEW t \in Thread
    PROVE  /\ TypeOK /\ Placed(t) /\ pc[t] \in Control /\ hold[t] \in Memory
           /\ hold[t].run \subseteq Block /\ Mine(t) \subseteq inuse
           /\ hold[t].run \cap Purging(t) = {}
           /\ hold[t].full => hold[t].run \subseteq os
           /\ hold[t].zero => hold[t].run \cap written = {}
           /\ \A b \in (committed \ os) \cap hold[t].run :
                  ~hold[t].full /\ pc[t].at \notin Allocating \cup Freeing
<1>1. ASSUME NEW b \in (committed \ os) \cap hold[t].run
      PROVE  ~hold[t].full /\ pc[t].at \notin Allocating \cup Freeing
  <2>1. PICK u \in Thread : /\ b \in hold[u].run /\ ~hold[u].full
                            /\ pc[u].at \notin Allocating \cup Freeing
    BY <1>1 DEF IInv, CommittedIsReal
  <2>2. u = t
    BY <1>1, <2>1 DEF IInv, ClaimsAccounted, Mine
  <2> QED
    BY <2>1, <2>2
<1> QED
  BY <1>1 DEF IInv, ClaimsAccounted, TypeOK, Memory, Mine, MemidIsTrue

LEMMA AllocStep ==
    ASSUME IInv, NEW t \in Thread, NEW b \in Block, NEW n \in Counts,
           NEW commit \in BOOLEAN, Alloc(t, b, n, commit)
    PROVE  IInv'
<1> DEFINE c == [pc[t] EXCEPT !.at = IF opt.pinned THEN "describe" ELSE "unschedule",
                              !.commit = commit]
           r == Span(b, n)
           m == [hold[t] EXCEPT !.run = r]
<1>1. /\ r # {} /\ r \subseteq Block /\ r \cap inuse = {} /\ inuse' = inuse \cup r
      /\ pc[t] = Idle /\ hold[t].run = {}
  <2>1. r # {}
    BY SpanNonEmpty, ArenaAssumption DEF Block
  <2> QED
    BY <2>1 DEF Alloc
<1> HIDE DEF r
<1>2. c \in Control /\ c.at \in Allocating /\ Moves(t, c, m) /\ pc'[t] = c /\ hold'[t] = m
  BY Own DEF Alloc, Moves, TypeOK, Control, Label, Allocating, r
<1>3. m \in Memory /\ m.run = r /\ ~m.full /\ ~m.zero
  <2>1. ~hold[t].full /\ ~hold[t].zero
    BY <1>1, Own DEF Placed, None
  <2> QED
    BY <1>1, <2>1, Own DEF Memory
<1> HIDE DEF c, m
<1>4. Purging(t) = {} /\ Purging(t)' = {} /\ Mine(t) = {} /\ Mine(t)' = r
  BY <1>1, <1>2, <1>3, IdleIs DEF Purging, Mine, Allocating
<1>5. Placed(t)'
  BY <1>1, <1>2, <1>3 DEF Placed, Allocating, Freeing
<1> QED
  BY <1>1, <1>2, <1>3, <1>4, <1>5, Own, InvStep DEF Alloc, IInv, TypeOK

\* The bits of blocks that are not t's own are of others.
LEMMA DescribeStep ==
    ASSUME IInv, NEW t \in Thread, Describe(t)
    PROVE  IInv'
<1> DEFINE d == Dirtied(hold[t])
           c == Idle
<1>1. PICK full \in BOOLEAN :
          /\ hold' = [hold EXCEPT ![t] = [d EXCEPT !.full = full]]
          /\ \/ opt.pinned /\ full /\ UNCHANGED <<committed, os>>
             \/ ~opt.pinned /\ full = (d.run \subseteq committed) /\ UNCHANGED <<committed, os>>
             \/ /\ ~opt.pinned /\ committed' = committed \cup d.run
                /\ \/ d.run \subseteq committed /\ full /\ UNCHANGED os
                   \/ full /\ os' = os \cup d.run
                   \/ ~full /\ UNCHANGED os
  <2> DEFINE all == d.run \subseteq committed
             Is(f) == hold' = [hold EXCEPT ![t] = [d EXCEPT !.full = f]]
  <2>1. \/ opt.pinned /\ Is(TRUE) /\ UNCHANGED <<committed, os>>
        \/ ~opt.pinned /\ Is(all) /\ UNCHANGED <<committed, os>>
        \/ /\ ~opt.pinned /\ committed' = committed \cup d.run
           /\ \/ all /\ Is(TRUE) /\ UNCHANGED os
              \/ Is(TRUE) /\ os' = os \cup d.run
              \/ Is(FALSE) /\ UNCHANGED os
    BY DEF Describe
  <2>2. all \in BOOLEAN
    OBVIOUS
  <2> HIDE DEF Is, d, all
  <2> QED
    BY <2>1, <2>2 DEF Is, all
<1> DEFINE m == [d EXCEPT !.full = full]
<1>2. /\ pc[t].at = "describe" /\ hold[t].run # {} /\ hold[t].run \subseteq Block
      /\ d.run = hold[t].run /\ d \in Memory
      /\ d.zero <=> opt.zero /\ hold[t].run \cap dirty = {}
      /\ opt.zero \in BOOLEAN
  <2>1. opt.zero \in BOOLEAN /\ hold[t] \in Memory
    BY Own, ArenaAssumption DEF TypeOK, Option
  <2> QED
    BY <2>1, Own DEF Describe, Placed, Dirtied, Memory, Allocating
<1>3. m \in Memory /\ m.run = hold[t].run /\ (m.full <=> full) /\ m.zero = d.zero
  <2> HIDE DEF d
  <2> QED
    BY <1>2 DEF Memory
<1>4. Moves(t, c, m) /\ pc'[t] = Idle /\ hold'[t] = m
  BY <1>1, Own DEF Describe, Moves, TypeOK
<1>5. dirty' = IF opt.zero THEN dirty \cup hold[t].run ELSE dirty
  BY DEF Describe
<1> HIDE DEF d, m, c
<1>6. Purging(t) = {} /\ Purging(t)' = {} /\ Mine(t) = hold[t].run /\ Mine(t)' = hold[t].run
  BY <1>2, <1>3, <1>4, IdleIs DEF Purging, Mine
<1>7. Placed(t)'
  BY <1>2, <1>3, <1>4, <1>5, IdleIs DEF Placed, Allocating, Freeing, Describe
<1>8. /\ (committed \ os) \cap hold[t].run = {} /\ hold[t].run \cap committed \subseteq os
  BY <1>2, Own DEF Allocating
<1>9. /\ committed' \subseteq Block /\ os' \subseteq Block /\ os \subseteq os'
      /\ dirty' \subseteq Block
      /\ full => hold[t].run \subseteq os'
      /\ \A b \in committed' \ os' :
             \/ b \in committed \ os /\ b \notin hold[t].run
             \/ b \in hold[t].run /\ ~full
      /\ opt.pinned => committed' = {} /\ os' = Block
  <2>1. /\ opt.pinned => committed = {} /\ os = Block
        /\ committed \subseteq Block /\ os \subseteq Block /\ dirty \subseteq Block
    BY Own DEF IInv, TypeOK
  <2> QED
    BY <1>1, <1>2, <1>5, <1>8, <2>1
<1>10. m.zero => hold[t].run \cap written = {}
  BY <1>2, <1>3 DEF IInv
<1>11. c \in Control /\ c.at \notin Allocating \cup Freeing
  BY IdleIs DEF c, Allocating, Freeing
<1> QED
  BY <1>2, <1>3, <1>4, <1>5, <1>6, <1>7, <1>9, <1>10, <1>11, Own, InvStep
     DEF Describe, IInv, TypeOK

LEMMA SegmentStep ==
    ASSUME IInv, NEW t \in Thread, Commit(t) \/ Decommit(t)
    PROVE  IInv'
<1>1. PICK f \in BOOLEAN :
      /\ pc[t] = Idle /\ hold[t].run # {} /\ hold[t].run \subseteq Block
      /\ hold' = [hold EXCEPT ![t].full = f]
      /\ UNCHANGED <<opt, inuse, dirty, committed, purge, expire, written, pc>>
      /\ f => os' = os \cup hold[t].run
      /\ ~f => os' = os \ hold[t].run /\ ~opt.pinned
  <2>1. hold[t].run \subseteq Block /\ (Normal(t) => hold[t].run # {})
    BY Own DEF Normal
  <2>2. CASE Commit(t)
    BY <2>1, <2>2 DEF Commit
  <2>3. CASE Decommit(t)
    BY <2>1, <2>3 DEF Decommit
  <2> QED
    BY <2>2, <2>3
<1> DEFINE m == [hold[t] EXCEPT !.full = f]
<1>2. m \in Memory /\ m.run = hold[t].run /\ m.full = f /\ m.zero = hold[t].zero
  BY <1>1, Own DEF Memory
<1>3. Moves(t, pc[t], m) /\ pc' = pc /\ hold'[t] = m
  BY <1>1, Own DEF Moves, TypeOK
<1> HIDE DEF m
<1>4. Purging(t) = {} /\ Purging(t)' = {} /\ Mine(t) = hold[t].run /\ Mine(t)' = hold[t].run
  BY <1>1, <1>2, <1>3, IdleIs DEF Purging, Mine
<1>5. Placed(t)'
  BY <1>1, <1>2, <1>3, Own, IdleIs DEF Placed, Allocating, Freeing
<1>6. /\ os' \subseteq Block /\ os \ hold[t].run \subseteq os'
      /\ f => hold[t].run \subseteq os'
      /\ \A b \in committed' \ os' :
             \/ b \in committed \ os /\ b \notin hold[t].run
             \/ b \in hold[t].run /\ ~f
      /\ opt.pinned => committed' = {} /\ os' = Block
  <2>1. /\ opt.pinned => committed = {} /\ os = Block
        /\ os \subseteq Block
    BY Own DEF IInv, TypeOK
  <2>2. CASE f
    BY <1>1, <2>1, <2>2
  <2>3. CASE ~f
    BY <1>1, <2>1, <2>3
  <2> QED
    BY <2>2, <2>3
<1>7. pc[t].at \notin Allocating \cup Freeing
  BY <1>1, IdleIs DEF Allocating, Freeing
<1> QED
  BY <1>1, <1>2, <1>3, <1>4, <1>5, <1>6, <1>7, Own, InvStep DEF IInv, TypeOK

LEMMA FreeStep ==
    ASSUME IInv, NEW t \in Thread, Free(t)
    PROVE  IInv'
<1> DEFINE m == [hold[t] EXCEPT !.full = FALSE, !.zero = FALSE]
<1>1. PICK at \in {"release", "expire"} : GoTo(t, at) /\ (at = "expire" => ~opt.pinned)
  BY DEF Free
<1>2. /\ pc'[t] \in Control /\ pc'[t].at = at /\ pc' = [pc EXCEPT ![t] = pc'[t]]
  <2>1. at \in Label
    BY DEF Label
  <2> QED
    BY <1>1, <2>1, GoneTo, Own
<1>3. m \in Memory /\ m.run = hold[t].run /\ ~m.full /\ ~m.zero /\ m.run # {}
  BY Own DEF Memory, Free
<1>4. Moves(t, pc'[t], m) /\ hold'[t] = m
  BY <1>2, Own DEF Moves, TypeOK, Free
<1>5. pc[t].at = "idle" /\ opt' = opt /\ UNCHANGED <<inuse, dirty, purge, expire, os>>
  BY IdleIs DEF Free
<1> HIDE DEF m
<1>6. Purging(t) = {} /\ Purging(t)' = {} /\ Mine(t) = hold[t].run /\ Mine(t)' = hold[t].run
  BY <1>2, <1>3, <1>4, <1>5 DEF Purging, Mine
<1>7. hold[t].run \subseteq Block /\ (opt.zero => hold[t].run \subseteq dirty)
  BY <1>5, Own DEF Placed, Allocating
<1>8. Placed(t)'
  BY <1>1, <1>2, <1>3, <1>4, <1>5, <1>7 DEF Placed, Allocating, Freeing
<1>9. /\ written' \subseteq dirty /\ written' \subseteq written \cup hold[t].run
      /\ written' \subseteq Block
  BY <1>7, Own DEF Free, IInv, TypeOK
<1>10. /\ committed' \subseteq committed
       /\ \A b \in committed' \ os : b \notin hold[t].run
  <2>1. opt.pinned => committed = {}
    BY DEF IInv
  <2>2. committed' = IF ~opt.pinned /\ ~hold[t].full THEN committed \ hold[t].run ELSE committed
    BY DEF Free
  <2>3. hold[t].full => hold[t].run \subseteq os
    BY Own
  <2> QED
    BY <2>1, <2>2, <2>3
<1> QED
  BY <1>2, <1>3, <1>4, <1>5, <1>6, <1>7, <1>8, <1>9, <1>10, Own, InvStep DEF IInv, TypeOK

\* A purge of t's own blocks takes them from the OS together with their bits.
LEMMA Purged ==
    ASSUME IInv, NEW t \in Thread, NEW r \in SUBSET Mine(t), Purge(r),
           ~opt.pinned, opt.recommit \in BOOLEAN
    PROVE  /\ purge' = purge \ r /\ committed' \subseteq committed
           /\ os' \subseteq os /\ os \ Mine(t) \subseteq os'
           /\ committed' \ os' \subseteq committed \ os
  BY DEF Purge

LEMMA PurgeNowStep ==
    ASSUME IInv, NEW t \in Thread, SetExpire(t), opt.delay = "now"
    PROVE  IInv'
<1> DEFINE at == "release"
<1>1. /\ pc[t].at = "expire" /\ GoTo(t, at) /\ Purge(hold[t].run)
      /\ UNCHANGED <<opt, inuse, dirty, expire, written, hold>>
  BY DEF SetExpire
<1>2. /\ pc'[t] \in Control /\ pc'[t].at = "release" /\ pc' = [pc EXCEPT ![t] = pc'[t]]
  <2>1. at \in Label
    BY DEF Label
  <2> HIDE DEF at
  <2>2. pc'[t].at = at /\ pc'[t] \in Control /\ pc' = [pc EXCEPT ![t] = pc'[t]]
    BY <1>1, <2>1, GoneTo, Own
  <2> QED
    BY <2>2 DEF at
<1> HIDE DEF at
<1>3. Moves(t, pc'[t], hold[t]) /\ hold' = hold
  BY <1>1, <1>2, Own DEF Moves, TypeOK
<1>4. Purging(t) = {} /\ Purging(t)' = {} /\ Mine(t) = hold[t].run /\ Mine(t)' = hold[t].run
  BY <1>1, <1>2, <1>3 DEF Purging, Mine
<1>5. ~opt.pinned /\ ~hold[t].full /\ ~hold[t].zero
  BY <1>1, Own DEF Placed, Freeing
<1>6. Placed(t)'
  BY <1>1, <1>2, <1>3, Own DEF Placed, Allocating, Freeing
<1>7. /\ purge' \subseteq purge /\ committed' \subseteq committed
      /\ os' \subseteq os /\ os \ Mine(t) \subseteq os'
      /\ committed' \ os' \subseteq committed \ os
  <2>1. opt.recommit \in BOOLEAN
    BY Own, ArenaAssumption DEF TypeOK, Option
  <2> QED
    BY <1>1, <1>4, <1>5, <2>1, Purged
<1>8. \A b \in committed' \ os' : b \in committed \ os /\ b \notin hold[t].run
  BY <1>1, <1>7, Own DEF Freeing
<1> QED
  BY <1>1, <1>2, <1>3, <1>4, <1>5, <1>6, <1>7, <1>8, Own, InvStep DEF IInv, TypeOK

LEMMA ReleaseStep ==
    ASSUME IInv, NEW t \in Thread, Release(t)
    PROVE  IInv'
<1> DEFINE c == IF opt.delay = "later" THEN [Idle EXCEPT !.at = "guard"] ELSE Idle
           m == None
<1>1. /\ pc[t].at = "release" /\ inuse' = inuse \ hold[t].run
      /\ UNCHANGED <<opt, dirty, committed, purge, expire, os, written>>
  BY DEF Release
<1>2. Moves(t, c, m) /\ c \in Control /\ c.at \in {"guard", "idle"} /\ m \in Memory
  BY IdleIs DEF Release, TryPurge, Moves, Control, Label, None, Memory
<1>3. pc'[t] = c /\ hold'[t] = m
  BY <1>2, Own, Moved
<1>4. m = None /\ m.run = {} /\ ~m.full /\ ~m.zero
  BY DEF None
<1> HIDE DEF c, m
<1>5. Purging(t) = {} /\ Purging(t)' = {} /\ Mine(t) = hold[t].run /\ Mine(t)' = {}
  BY <1>1, <1>2, <1>3, <1>4 DEF Purging, Mine
<1>6. Placed(t)'
  BY <1>2, <1>3, <1>4 DEF Placed, Allocating, Freeing
<1>7. \A b \in committed \ os : b \notin hold[t].run
  BY <1>1, Own DEF Freeing
<1> QED
  BY <1>1, <1>2, <1>3, <1>4, <1>5, <1>6, <1>7, Own, InvStep DEF IInv, TypeOK

LEMMA TryClaimStep ==
    ASSUME IInv, NEW t \in Thread, TryClaim(t)
    PROVE  IInv'
<1>1. /\ pc[t].at = "claim" /\ At(t) # {} /\ At(t) \subseteq Block /\ ~opt.pinned
      /\ UNCHANGED <<opt, dirty, committed, purge, expire, os, written, hold>>
  BY Own DEF TryClaim, Placed
<1>2. CASE At(t) \cap inuse = {} /\ inuse' = inuse \cup At(t) /\ GoTo(t, "purge")
  <2> DEFINE at == "purge"
  <2>1. at \in Label
    BY DEF Label
  <2> HIDE DEF at
  <2>2. /\ pc' = [pc EXCEPT ![t] = pc'[t]] /\ pc'[t] \in Control /\ pc'[t].at = at
        /\ pc'[t].bit = pc[t].bit /\ pc'[t].len = pc[t].len
    BY <1>2, <2>1, GoneTo, Own DEF at
  <2>3. pc'[t].at = "purge" /\ At(t)' = At(t)
    BY <2>2 DEF at, At
  <2>4. Moves(t, pc'[t], hold[t]) /\ hold' = hold
    BY <1>1, <2>2, Own DEF Moves, TypeOK
  <2>5. /\ Purging(t) = {} /\ Purging(t)' = At(t) /\ Mine(t) = hold[t].run
        /\ Mine(t)' = hold[t].run \cup At(t)
    BY <1>1, <2>3 DEF Purging, Mine
  <2>6. Placed(t)'
    BY <1>1, <2>3, Own DEF Placed, Allocating, Freeing
  <2>7. \A b \in committed \ os :
             b \notin hold[t].run \/ (b \in hold[t].run /\ ~hold[t].full)
    BY Own
  <2>8. pc'[t].at \notin Allocating \cup Freeing
    BY <2>3 DEF Allocating, Freeing
  <2> QED
    BY <1>1, <1>2, <2>2, <2>4, <2>5, <2>6, <2>7, <2>8, Own, InvStep DEF IInv, TypeOK
<1>3. CASE /\ inuse' = inuse
           /\ pc' = [pc EXCEPT ![t] = IF @.len > 1 THEN [pc[t] EXCEPT !.len = @ - 1]
                                      ELSE Seek(@, @.bit + 1)]
  <2> DEFINE c == IF pc[t].len > 1 THEN [pc[t] EXCEPT !.len = @ - 1]
                  ELSE Seek(pc[t], pc[t].bit + 1)
  <2>1. pc[t] \in Control /\ pc[t].bit \in Nat /\ pc[t].len \in 0..Blocks /\ Blocks \in Nat
    BY Own, ArenaAssumption DEF Control
  <2>2. /\ c \in Control /\ c.at \in {"rearm", "claim"}
        /\ c.at = "claim" => LET r == Span(c.bit, c.len) IN r # {} /\ r \subseteq Block
    <3>1. CASE pc[t].len > 1
      <4>1. c = [pc[t] EXCEPT !.len = pc[t].len - 1] /\ pc[t].len - 1 \in 0..Blocks
        BY <2>1, <3>1
      <4>2. c \in Control /\ c.at = "claim" /\ c.bit = pc[t].bit /\ c.len = pc[t].len - 1
        BY <1>1, <2>1, <4>1 DEF Control
      <4>3. Span(c.bit, c.len) # {} /\ Span(c.bit, c.len) \subseteq At(t)
        <5>1. c.bit \in Nat /\ c.len \in Nat /\ c.len > 0
          BY <2>1, <3>1, <4>2
        <5> HIDE DEF c
        <5> QED
          BY <2>1, <4>2, <5>1, SpanNonEmpty DEF Span, At
      <4> HIDE DEF c
      <4> QED
        BY <1>1, <4>2, <4>3
    <3>2. CASE ~(pc[t].len > 1)
      <4>1. c = Seek(pc[t], pc[t].bit + 1) /\ pc[t].bit + 1 \in Nat
        BY <2>1, <3>2
      <4> HIDE DEF c
      <4> QED
        BY <2>1, <4>1, SeekFinds
    <3> QED
      BY <3>1, <3>2
  <2>3. pc' = [pc EXCEPT ![t] = c] /\ pc'[t] = c
    <3>1. pc' = [pc EXCEPT ![t] = c]
      BY <1>3
    <3> HIDE DEF c
    <3> QED
      BY <3>1, Own DEF TypeOK
  <2> HIDE DEF c
  <2>4. Purging(t)' = Purging(t) /\ Placed(t)'
    BY <1>1, <2>2, <2>3, Own DEF Purging, Placed, At, Allocating, Freeing
  <2> QED
    BY <1>1, <1>3, <2>2, <2>3, <2>4, Own, QuietStep DEF Allocating, Freeing, TypeOK
<1> QED
  BY <1>2, <1>3 DEF TryClaim

LEMMA PurgeRangeStep ==
    ASSUME IInv, NEW t \in Thread, PurgeRange(t)
    PROVE  IInv'
<1> DEFINE f == pc[t].full /\ At(t) \subseteq purge
           c == [pc[t] EXCEPT !.at = "unclaim", !.seen = purge, !.full = f]
           r == At(t) \cap purge
<1>1. /\ pc[t].at = "purge" /\ Purge(r) /\ pc' = [pc EXCEPT ![t] = c]
      /\ UNCHANGED <<opt, inuse, dirty, expire, written, hold>>
  <2>1. pc' = [pc EXCEPT ![t].at = "unclaim", ![t].seen = purge,
                         ![t].full = @ /\ At(t) \subseteq purge]
    BY DEF PurgeRange
  <2>2. pc' = [pc EXCEPT ![t] = c]
    BY <2>1, Own DEF TypeOK, Control
  <2> QED
    BY <2>2 DEF PurgeRange
<1>2. /\ At(t) # {} /\ At(t) \subseteq Block /\ ~opt.pinned
  BY <1>1, Own DEF Placed
<1>3. /\ c \in Control /\ c.at = "unclaim" /\ c.bit = pc[t].bit /\ c.len = pc[t].len
  <2>1. f \in BOOLEAN /\ purge \subseteq Block /\ pc[t] \in Control
    BY Own DEF TypeOK
  <2> HIDE DEF f
  <2> QED
    BY <2>1 DEF Control, Label
<1>4. pc'[t] = c /\ Moves(t, c, hold[t])
  <2> HIDE DEF c
  <2> QED
    BY <1>1, Own DEF Moves, TypeOK
<1> HIDE DEF c, f
<1>5. Purging(t) = At(t) /\ Purging(t)' = At(t) /\ Mine(t)' = Mine(t)
  BY <1>1, <1>3, <1>4 DEF Purging, Mine, At
<1>6. Placed(t)'
  <2>1. At(t)' = At(t)
    BY <1>3, <1>4 DEF At
  <2> QED
    BY <1>1, <1>2, <1>3, <1>4, <2>1, Own DEF Placed, Allocating, Freeing
<1>7. r \subseteq Mine(t) /\ r \cap hold[t].run = {} /\ opt.recommit \in BOOLEAN
  BY <1>5, Own, ArenaAssumption DEF Mine, TypeOK, Option
<1> HIDE DEF r
<1>8. /\ purge' \subseteq purge /\ committed' \subseteq committed
      /\ os' \subseteq os /\ os \ Mine(t) \subseteq os'
      /\ committed' \ os' \subseteq committed \ os
  BY <1>1, <1>2, <1>7, Purged
<1>9. hold[t].full => hold[t].run \subseteq os'
  BY <1>1, <1>7, Own DEF Purge
<1>10. \A b \in committed' \ os' :
           b \in committed \ os
           /\ (b \in hold[t].run => ~hold[t].full)
  BY <1>8, Own
<1>11. c.at \notin Allocating \cup Freeing
  BY <1>3 DEF Allocating, Freeing
<1> QED
  BY <1>1, <1>2, <1>3, <1>4, <1>5, <1>6, <1>8, <1>9, <1>10, <1>11, Own, InvStep
     DEF IInv, TypeOK

LEMMA UnclaimStep ==
    ASSUME IInv, NEW t \in Thread, Unclaim(t)
    PROVE  IInv'
<1> DEFINE n == pc[t].bit + pc[t].len + 1
           c == Seek(pc[t], n)
<1>1. /\ pc[t].at = "unclaim" /\ inuse' = inuse \ At(t) /\ pc' = [pc EXCEPT ![t] = c]
      /\ UNCHANGED <<opt, dirty, committed, purge, expire, os, written, hold>>
  BY DEF Unclaim
<1>2. n \in Nat /\ pc[t] \in Control
  BY Own, ArenaAssumption DEF Control
<1> HIDE DEF n
<1>3. /\ c \in Control /\ c.at \in {"rearm", "claim"}
      /\ c.at = "claim" => LET r == Span(c.bit, c.len) IN r # {} /\ r \subseteq Block
  BY <1>2, SeekFinds
<1> HIDE DEF c
<1>4. pc'[t] = c /\ Moves(t, c, hold[t])
  BY <1>1, Own DEF Moves, TypeOK
<1>5. /\ Purging(t) = At(t) /\ Purging(t)' = {} /\ Mine(t) = hold[t].run \cup At(t)
      /\ Mine(t)' = hold[t].run
  BY <1>1, <1>3, <1>4 DEF Purging, Mine
<1>6. Placed(t)'
  BY <1>1, <1>3, <1>4, Own DEF Placed, At, Allocating, Freeing
<1>7. inuse' = (inuse \ Mine(t)) \cup Mine(t)'
  BY <1>1, <1>5, Own
<1>8. c.at \notin Allocating \cup Freeing
  BY <1>3 DEF Allocating, Freeing
<1> QED
  BY <1>1, <1>3, <1>4, <1>5, <1>6, <1>7, <1>8, Own, InvStep DEF IInv, TypeOK

-----------------------------------------------------------------------------
(* The theorems.                                                           *)

LEMMA InitHolds == Init => IInv
<1> SUFFICES ASSUME Init PROVE IInv
  OBVIOUS
<1>1. /\ \A t \in Thread : pc[t] = Idle /\ hold[t] = None
      /\ None.run = {} /\ ~None.full /\ ~None.zero /\ None \in Memory
      /\ opt \in Options /\ (opt.pinned => opt.committed)
  BY ArenaAssumption DEF Init, None, Memory
<1>2. TypeOK
  BY <1>1, IdleIs DEF Init, TypeOK
<1>3. \A t \in Thread : Mine(t) = {} /\ Purging(t) = {} /\ Placed(t)
  BY <1>1, IdleIs DEF Mine, Purging, Placed, Allocating, Freeing
<1>4. ClaimsAccounted
  BY <1>2, <1>3 DEF Init, ClaimsAccounted, Mine
<1>5. MemidIsTrue
  BY <1>1 DEF MemidIsTrue
<1>6. committed \subseteq os /\ written \subseteq dirty
      /\ (opt.pinned => committed = {} /\ os = Block)
  BY <1>1 DEF Init
<1> QED
  BY <1>3, <1>4, <1>5, <1>6 DEF IInv, CommittedIsReal

LEMMA StepHolds == ASSUME IInv, NEW t \in Thread, Step(t) PROVE IInv'
<1>1. CASE Unschedule(t) \/ Mark(t) \/ SetExpire(t)
  BY <1>1, MarkingSteps, PurgeNowStep
<1>2. CASE \E b \in Block, n \in Counts, commit \in BOOLEAN : Alloc(t, b, n, commit)
  BY <1>2, AllocStep
<1>3. CASE Describe(t) \/ Commit(t) \/ Decommit(t) \/ Free(t) \/ Release(t)
  BY <1>3, DescribeStep, SegmentStep, FreeStep, ReleaseStep
<1>4. CASE \/ Collect(t) \/ Guard(t) \/ Due(t) \/ Scan(t) \/ TryClaim(t)
           \/ PurgeRange(t) \/ Unclaim(t) \/ Rearm(t)
  BY <1>4, CollectStep, GuardStep, DueStep, ScanStep, TryClaimStep, PurgeRangeStep,
     UnclaimStep, RearmStep
<1> QED
  BY <1>1, <1>2, <1>3, <1>4 DEF Step

\* The inductive invariant.
THEOREM Invariance == Spec => []IInv
<1>1. ASSUME IInv, UNCHANGED vars PROVE IInv'
  <2>1. TypeOK' /\ MemidIsTrue' /\ CommittedIsReal'
    BY <1>1 DEF vars, IInv, ClaimsAccounted, TypeOK, MemidIsTrue, CommittedIsReal
  <2>2. \A t \in Thread : /\ Mine(t)' = Mine(t) /\ Purging(t)' = Purging(t)
                          /\ Placed(t) => Placed(t)'
    BY <1>1 DEF vars, Mine, Purging, At, Placed
  <2>3. ClaimsAccounted'
    BY <1>1, <2>1, <2>2 DEF vars, IInv, ClaimsAccounted
  <2> QED
    BY <1>1, <2>1, <2>2, <2>3 DEF vars, IInv
<1>2. ASSUME IInv, [Next]_vars PROVE IInv'
  BY <1>1, <1>2, StepHolds DEF Next
<1> QED
  BY <1>2, InitHolds, PTL DEF Spec

\* Every bit in use is a block of one program or of one purge (arena.c:664): a purge
\* and an allocation never share a block, and none is lost.
THEOREM AllClaimsAccounted == Spec => []ClaimsAccounted
  BY Invariance, PTL DEF IInv

\* What arena_try_alloc_at tells of its memory, committed and zero, is true as long as
\* the program has it (arena.c:222-268), whatever is purged at the same time.
THEOREM MemidAlwaysTrue == Spec => []MemidIsTrue
  BY Invariance, PTL DEF IInv

\* A committed bit without committed memory is only ever with a holder who knows
\* (arena.c:253-263, 446-453, 657).
THEOREM CommittedAlwaysReal == Spec => []CommittedIsReal
  BY Invariance, PTL DEF IInv

-----------------------------------------------------------------------------
(* An arena is a pool of ranges.                                           *)

LEMMA ClaimsAre == \A t \in Thread : UNION Claims(t) = Mine(t)
  BY DEF Claims, Mine

\* A step by which t keeps, adds or gives up one range.
LEMMA PoolStep ==
    ASSUME IInv, NEW t \in Thread,
           \A u \in Thread \ {t} : pc'[u] = pc[u] /\ hold'[u] = hold[u],
           \/ Claims(t)' = Claims(t)
           \/ \E r \in Ranges : r \cap inuse = {} /\ Claims(t)' = Claims(t) \cup {r}
           \/ \E r \in Claims(t) : Claims(t)' = Claims(t) \ {r}
    PROVE  [Pool!Next]_([u \in Thread |-> Claims(u)])
<1> DEFINE bar == [u \in Thread |-> Claims(u)]
<1>1. \A u \in Thread \ {t} : Claims(u)' = Claims(u)
  BY DEF Claims, Purging, At
<1>2. CASE Claims(t)' = Claims(t)
  <2>1. \A u \in Thread : Claims(u)' = Claims(u)
    BY <1>1, <1>2
  <2>2. bar' = bar
    BY <2>1
  <2> QED
    BY <2>2
<1>3. ASSUME NEW r \in Ranges, r \cap inuse = {}, Claims(t)' = Claims(t) \cup {r}
      PROVE  Pool!Next
  <2>1. r \cap UNION {UNION bar[u] : u \in Thread} = {}
    BY <1>3, ClaimsAre DEF IInv, ClaimsAccounted
  <2>2. r \in bar'[t] \ bar[t]
    <3>1. r # {} /\ r \notin Claims(t)
      BY <1>3, ClaimsAre, Own DEF Ranges
    <3> QED
      BY <1>3, <3>1
  <2>3. bar' = [bar EXCEPT ![t] = @ \cup {r}]
    BY <1>1, <1>3
  <2> QED
    BY <1>3, <2>1, <2>2, <2>3 DEF Pool!Next, Pool!Claim, Pool!Claimed
<1>4. ASSUME NEW r \in Claims(t), Claims(t)' = Claims(t) \ {r}
      PROVE  Pool!Next
  <2>1. r \in bar[t] \ bar'[t]
    BY <1>4
  <2>2. bar' = [bar EXCEPT ![t] = @ \ {r}]
    BY <1>1, <1>4
  <2> QED
    BY <2>1, <2>2 DEF Pool!Next, Pool!Release
<1> QED
  BY <1>2, <1>3, <1>4

LEMMA StepPools ==
    ASSUME IInv, NEW t \in Thread, Step(t)
    PROVE  [Pool!Next]_([u \in Thread |-> Claims(u)])
<1>1. TypeOK /\ Placed(t) /\ hold[t].run \cap Purging(t) = {} /\ Mine(t) \subseteq inuse
  BY Own
<1>2. \A u \in Thread \ {t} : pc'[u] = pc[u] /\ hold'[u] = hold[u]
  BY <1>1 DEF Step, TypeOK, Alloc, Unschedule, Describe, Commit, Decommit, Free, SetExpire,
     Mark, Release, Collect, Guard, Due, Scan, TryClaim, PurgeRange, Unclaim, Rearm,
     GoTo, TryPurge, shared
<1>3. CASE hold'[t].run = hold[t].run /\ Purging(t)' = Purging(t)
  <2>1. Claims(t)' = Claims(t)
    BY <1>3 DEF Claims
  <2> QED
    BY <1>2, <2>1, PoolStep
<1>4. CASE \E b \in Block, n \in Counts, commit \in BOOLEAN : Alloc(t, b, n, commit)
  <2>1. PICK b \in Block, n \in Counts, commit \in BOOLEAN : Alloc(t, b, n, commit)
    BY <1>4
  <2>2. Span(b, n) # {}
    BY SpanNonEmpty, ArenaAssumption DEF Block
  <2>3. Span(b, n) \in Ranges /\ Span(b, n) \cap inuse = {}
    BY <2>1, <2>2 DEF Alloc, Ranges
  <2>4. hold'[t].run = Span(b, n) /\ pc'[t].at \in {"describe", "unschedule"}
    BY <1>1, <2>1 DEF Alloc, TypeOK, Memory, Control
  <2>5. Claims(t) = {} /\ Claims(t)' = {Span(b, n)}
    BY <2>1, <2>2, <2>4, IdleIs DEF Alloc, Claims, Purging
  <2> QED
    BY <1>2, <2>3, <2>5, PoolStep
<1>5. CASE Release(t)
  <2>1. hold'[t].run = {} /\ pc[t].at = "release" /\ hold[t].run # {}
    BY <1>1, <1>5 DEF Release, TypeOK, None, Placed, Freeing
  <2>2. pc'[t].at \in {"guard", "idle"}
    BY <1>1, <1>5, IdleIs DEF Release, TryPurge, TypeOK, Control
  <2>3. Claims(t) = {hold[t].run} /\ Claims(t)' = {}
    BY <2>1, <2>2 DEF Claims, Purging
  <2> QED
    BY <1>2, <2>3, PoolStep
<1>6. CASE TryClaim(t) /\ At(t) \cap inuse = {}
  <2>1. At(t) # {} /\ At(t) \in Ranges /\ Purging(t) = {}
    BY <1>1, <1>6 DEF TryClaim, Placed, Ranges, Purging
  <2>2. GoTo(t, "purge") /\ hold' = hold
    BY <1>6 DEF TryClaim
  <2>3. Purging(t)' = At(t)
    BY <1>1, <2>2 DEF GoTo, TypeOK, Control, Purging, At
  <2>4. Claims(t)' = Claims(t) \cup {At(t)}
    BY <2>1, <2>2, <2>3 DEF Claims
  <2> QED
    BY <1>2, <1>6, <2>1, <2>4, PoolStep
<1>7. CASE Unclaim(t)
  <2>1. At(t) # {} /\ Purging(t) = At(t) /\ pc[t].bit + pc[t].len + 1 \in Nat
    BY <1>1, <1>7, ArenaAssumption DEF Unclaim, Placed, Purging, TypeOK, Control
  <2>2. Purging(t)' = {} /\ hold' = hold
    BY <1>1, <1>7, <2>1, SeekFinds DEF Unclaim, TypeOK, Purging
  <2>3. At(t) \in Claims(t) /\ Claims(t)' = Claims(t) \ {At(t)}
    BY <1>1, <2>1, <2>2 DEF Claims
  <2> QED
    BY <1>2, <2>3, PoolStep
<1>8. CASE \/ Unschedule(t) \/ Describe(t) \/ Commit(t) \/ Decommit(t) \/ Free(t)
           \/ SetExpire(t) \/ Mark(t) \/ Collect(t) \/ Guard(t) \/ Due(t) \/ Scan(t)
           \/ PurgeRange(t) \/ Rearm(t) \/ (TryClaim(t) /\ At(t) \cap inuse # {})
  <2>1. hold'[t].run = hold[t].run
    <3>1. CASE Describe(t)
      <4>1. PICK full : hold' = [hold EXCEPT ![t] = [Dirtied(hold[t]) EXCEPT !.full = full]]
        BY <3>1 DEF Describe
      <4> QED
        BY <1>1, <4>1 DEF TypeOK, Memory, Dirtied
    <3>2. CASE Commit(t) \/ Decommit(t) \/ Free(t)
      BY <1>1, <3>2 DEF TypeOK, Memory, Commit, Decommit, Free
    <3>3. CASE hold' = hold
      BY <3>3
    <3> QED
      BY <1>8, <3>1, <3>2, <3>3 DEF Unschedule, SetExpire, Mark, Collect, Guard, Due, Scan,
         PurgeRange, Rearm, TryClaim, shared
  <2>2. Purging(t)' = Purging(t)
    <3>1. CASE PurgeRange(t)
      BY <1>1, <3>1 DEF PurgeRange, TypeOK, Control, Purging, At
    <3>2. CASE \/ Unschedule(t) \/ Free(t) \/ SetExpire(t) \/ Mark(t)
               \/ Collect(t) \/ Guard(t) \/ Due(t) \/ Describe(t) \/ Rearm(t)
               \/ Commit(t) \/ Decommit(t)
      BY <1>1, <3>2, IdleIs DEF TypeOK, Control, Purging, GoTo, TryPurge, shared,
         Unschedule, Describe, Commit, Decommit, Free, SetExpire, Mark, Collect, Guard, Due, Rearm
    <3>3. CASE Scan(t) \/ (TryClaim(t) /\ At(t) \cap inuse # {})
      <4>1. pc'[t].at \in {"rearm", "claim"} /\ pc[t].at \in {"scan", "claim"}
        <5>1. CASE Scan(t)
          <6>1. [pc[t] EXCEPT !.seen = purge] \in Control /\ 0 \in Nat
            BY <1>1 DEF TypeOK, Control
          <6> QED
            BY <1>1, <5>1, <6>1, SeekFinds DEF Scan, TypeOK
        <5>2. CASE TryClaim(t) /\ At(t) \cap inuse # {}
          <6>1. pc[t] \in Control /\ pc[t].bit + 1 \in Nat
            BY <1>1, ArenaAssumption DEF TypeOK, Control
          <6> QED
            BY <1>1, <5>2, <6>1, SeekFinds DEF TryClaim, TypeOK, Control
        <5> QED
          BY <3>3, <5>1, <5>2
      <4> QED
        BY <4>1 DEF Purging
    <3> QED
      BY <1>8, <3>1, <3>2, <3>3
  <2> QED
    BY <1>3, <2>1, <2>2
<1> QED
  BY <1>4, <1>5, <1>6, <1>7, <1>8 DEF Step

\* Allocations, frees and purges, with all their races, are claims and releases of whole
\* ranges that never overlap.
THEOREM PoolRefinement == Spec => ImplementsPool
<1>1. Init => Pool!Init
  <2> SUFFICES ASSUME Init, NEW t \in Thread PROVE Claims(t) = {}
    BY DEF Pool!Init
  <2> QED
    BY IdleIs DEF Init, Claims, Purging, None
<1>2. IInv /\ [Next]_vars => [Pool!Next]_([t \in Thread |-> Claims(t)])
  <2>1. ASSUME UNCHANGED vars PROVE \A t \in Thread : Claims(t)' = Claims(t)
    BY <2>1 DEF vars, Claims, Purging, At
  <2> QED
    BY <2>1, StepPools DEF Next
<1> QED
  BY <1>1, <1>2, Invariance, PTL DEF Spec, ImplementsPool, Pool!Spec
=============================================================================

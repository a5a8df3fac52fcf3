---------------------------- MODULE SegmentProofs ----------------------------
(***************************************************************************)
(* The spans of segments are sound, for any number of threads, segments    *)
(* and slices.  First each operation on one segment record: what it does   *)
(* to the walk over its spans, to its pages, its masks and the queue       *)
(* (Frees, Joins, Clears, Takes, Makes ...).  Then what a step has to show *)
(* of the one segment it is at, and who else may be at it (Ready, Alone).  *)
(* Then each step.  Last the theorems: the invariant, what follows from    *)
(* it, and that segments implement a pool of ranges.                       *)
(***************************************************************************)
EXTENDS SegmentProps, FiniteSetTheorems, WellFoundedInduction, TLAPS

-----------------------------------------------------------------------------
(* Numbers.                                                                *)

\* Every set of natural numbers has a least one.
LEMMA Least ==
  ASSUME NEW S \in SUBSET Nat, S # {}
  PROVE  \E x \in S : \A y \in S : x <= y
<1> DEFINE R == OpToRel(<, Nat)
<1>1. IsWellFoundedOn(R, Nat)
  BY NatLessThanWellFounded
<1>2. \A x, y \in Nat : y < x => <<y, x>> \in R
  BY DEF OpToRel
<1> HIDE DEF R
<1>3. PICK x \in S : \A y \in S : <<y, x>> \notin R
  BY <1>1, WFMin
<1>4. ASSUME NEW y \in S PROVE x <= y
  <2>1. x \in Nat /\ y \in Nat /\ ~(y < x)
    BY <1>2, <1>3
  <2> QED BY <2>1
<1> QED BY <1>3, <1>4

\* One that has a bound has a greatest one.
LEMMA Greatest ==
  ASSUME NEW S \in SUBSET Nat, S # {}, NEW e \in Nat, \A i \in S : i <= e
  PROVE  \E k \in S : \A i \in S : i <= k
<1> DEFINE rest == {e - i : i \in S}
<1>1. rest \in SUBSET Nat /\ rest # {}
  <2>1. \A i \in S : e - i \in Nat
    OBVIOUS
  <2> QED BY <2>1
<1> HIDE DEF rest
<1>2. PICK r \in rest : \A q \in rest : r <= q
  BY <1>1, Least
<1>3. PICK k \in S : r = e - k
  BY <1>2 DEF rest
<1>4. ASSUME NEW i \in S PROVE i <= k
  <2>1. e - i \in rest
    BY DEF rest
  <2>2. e - k <= e - i
    BY <1>2, <1>3, <2>1
  <2> QED BY <2>2
<1> QED BY <1>4

-----------------------------------------------------------------------------
(* The walk over the heads.                                                *)

\* Every slice_count is a number.
Counted(g) == g.entries \in Nat /\ \A i \in 0..(g.entries - 1) : g.slices[i].count \in Nat

\* The sets that have the next head with each head; the heads from i on are in all
\* of them that i is in.
Closed(g, H) == \A i \in H : i < g.entries /\ g.slices[i].count # 0 => i + g.slices[i].count \in H
HeadsFrom(g, i) ==
  {j \in Nat : j < g.entries /\ \A H \in SUBSET Nat : i \in H /\ Closed(g, H) => j \in H}

LEMMA HeadsFromNext ==
  ASSUME NEW g, Counted(g), NEW i \in Nat
  PROVE  /\ i >= g.entries => HeadsFrom(g, i) = {}
         /\ i < g.entries /\ g.slices[i].count = 0 => HeadsFrom(g, i) = {i}
         /\ i < g.entries /\ g.slices[i].count # 0 =>
              HeadsFrom(g, i) = {i} \cup HeadsFrom(g, i + g.slices[i].count)
<1> DEFINE n == i + g.slices[i].count
<1>1. CASE i >= g.entries
  <2>1. Closed(g, {i})
    BY <1>1 DEF Closed, Counted
  <2>2. HeadsFrom(g, i) \subseteq {i}
    BY <2>1 DEF HeadsFrom
  <2> QED BY <1>1, <2>2 DEF HeadsFrom, Counted
<1>2. CASE i < g.entries /\ g.slices[i].count = 0
  <2>1. Closed(g, {i})
    BY <1>2 DEF Closed, Counted
  <2>2. HeadsFrom(g, i) \subseteq {i}
    BY <2>1 DEF HeadsFrom
  <2> QED BY <1>2, <2>2 DEF HeadsFrom, Counted
<1>3. CASE i < g.entries /\ g.slices[i].count # 0
  <2>1. n \in Nat
    BY <1>3 DEF Counted
  <2> HIDE DEF n
  <2>2. ASSUME NEW j \in HeadsFrom(g, i), j # i PROVE j \in HeadsFrom(g, n)
    <3>1. j \in Nat /\ j < g.entries
      BY DEF HeadsFrom
    <3>2. ASSUME NEW H \in SUBSET Nat, n \in H, Closed(g, H) PROVE j \in H
      <4>1. H \cup {i} \in SUBSET Nat /\ Closed(g, H \cup {i})
        BY <3>2 DEF Closed, n
      <4> QED BY <2>2, <4>1 DEF HeadsFrom
    <3> QED BY <3>1, <3>2 DEF HeadsFrom
  <2>3. ASSUME NEW j \in HeadsFrom(g, n) PROVE j \in HeadsFrom(g, i)
    <3>1. \A H \in SUBSET Nat : i \in H /\ Closed(g, H) => n \in H
      BY <1>3 DEF Closed, n
    <3> QED BY <3>1 DEF HeadsFrom
  <2>4. i \in HeadsFrom(g, i)
    BY <1>3 DEF HeadsFrom
  <2>5. HeadsFrom(g, i) = {i} \cup HeadsFrom(g, n)
    BY <2>2, <2>3, <2>4
  <2>6. ~(i >= g.entries)
    BY <1>3 DEF Counted
  <2> QED BY <1>3, <2>5, <2>6 DEF n
<1> QED BY <1>1, <1>2, <1>3 DEF Counted

\* So there is a function as in the definition of Heads.
LEMMA HeadsWalk ==
  ASSUME NEW g, Counted(g)
  PROVE  \E from : /\ Heads(g) = from[0]
                   /\ from = [i \in Nat |->
                        IF i >= g.entries THEN {}
                        ELSE {i} \cup (IF g.slices[i].count = 0 THEN {}
                                       ELSE from[i + g.slices[i].count])]
<1> DEFINE Eq(f) == f = [i \in Nat |->
                        IF i >= g.entries THEN {}
                        ELSE {i} \cup (IF g.slices[i].count = 0 THEN {}
                                       ELSE f[i + g.slices[i].count])]
           from == CHOOSE f : Eq(f)
<1>1. \E f : Eq(f)
  <2> DEFINE f == [i \in Nat |-> HeadsFrom(g, i)]
  <2>1. ASSUME NEW i \in Nat
        PROVE  f[i] = IF i >= g.entries THEN {}
                      ELSE {i} \cup (IF g.slices[i].count = 0 THEN {}
                                     ELSE f[i + g.slices[i].count])
    <3>1. CASE i >= g.entries
      BY <3>1, HeadsFromNext
    <3>2. CASE i < g.entries /\ g.slices[i].count = 0
      BY <3>2, HeadsFromNext DEF Counted
    <3>3. CASE i < g.entries /\ g.slices[i].count # 0
      <4>1. i + g.slices[i].count \in Nat /\ ~(i >= g.entries)
        BY <3>3 DEF Counted
      <4>2. f[i] = HeadsFrom(g, i)
            /\ f[i + g.slices[i].count] = HeadsFrom(g, i + g.slices[i].count)
        BY <4>1
      <4> HIDE DEF f
      <4> QED BY <3>3, <4>1, <4>2, HeadsFromNext
    <3> QED BY <3>1, <3>2, <3>3 DEF Counted
  <2>2. f = [i \in Nat |-> f[i]]
    OBVIOUS
  <2> HIDE DEF f
  <2>3. Eq(f)
    BY <2>1, <2>2
  <2> QED BY <2>3
<1>2. Eq(from)
  <2> HIDE DEF Eq
  <2> QED BY <1>1
<1>3. Heads(g) = from[0]
  BY DEF Heads
<1> HIDE DEF from
<1> QED BY <1>2, <1>3

\* A set of heads whose spans follow each other is what the walk finds.
LEMMA TilesHeads ==
  ASSUME NEW g, Counted(g), NEW H, Tiles(g, H)
  PROVE  Heads(g) = H
<1>1. PICK from : /\ Heads(g) = from[0]
                  /\ from = [i \in Nat |->
                        IF i >= g.entries THEN {}
                        ELSE {i} \cup (IF g.slices[i].count = 0 THEN {}
                                       ELSE from[i + g.slices[i].count])]
  BY HeadsWalk
<1> DEFINE End(i) == i + g.slices[i].count
<1>2. \A i \in H : /\ i \in Nat /\ i < g.entries /\ End(i) \in Nat /\ End(i) > i
                   /\ End(i) \in H \/ End(i) >= g.entries
                   /\ \A j \in H : j <= i \/ j >= End(i)
  BY DEF Tiles, Counted
<1>3. \A i \in H : from[i] = {i} \cup from[End(i)]
  <2> TAKE i \in H
  <2>1. i \in Nat /\ ~(i >= g.entries) /\ g.slices[i].count # 0
    BY <1>2 DEF Tiles, Counted
  <2> QED BY <1>1, <2>1
<1>4. \A n \in Nat : n >= g.entries => from[n] = {}
  BY <1>1
<1> HIDE DEF End
<1> DEFINE Bad == {j \in H : from[j] # {k \in H : k >= j}}
<1>5. Bad = {}
  <2> SUFFICES ASSUME Bad # {} PROVE FALSE
    OBVIOUS
  <2>1. Bad \in SUBSET Nat /\ \A j \in Bad : j <= g.entries
    BY <1>2 DEF Counted
  <2> HIDE DEF Bad
  <2>2. PICK j \in Bad : \A i \in Bad : i <= j
    BY <2>1, Greatest DEF Counted
  <2>3. j \in H
    BY DEF Bad
  <2>4. from[End(j)] = {k \in H : k >= End(j)}
    <3>1. CASE End(j) >= g.entries
      BY <1>2, <1>4, <2>3, <3>1 DEF Counted
    <3>2. CASE End(j) \in H
      BY <1>2, <2>2, <2>3, <3>2 DEF Bad
    <3> QED BY <1>2, <2>3, <3>1, <3>2
  <2>5. {k \in H : k >= j} = {j} \cup {k \in H : k >= End(j)}
    BY <1>2, <2>3
  <2> QED BY <1>3, <2>2, <2>3, <2>4, <2>5 DEF Bad
<1>6. from[0] = {k \in H : k >= 0}
  BY <1>5 DEF Tiles
<1>7. from[0] = H
  BY <1>2, <1>6
<1> QED BY <1>1, <1>7

\* Each index is in the span of a head.
LEMMA Covered ==
  ASSUME NEW g, Counted(g), NEW H, Tiles(g, H), NEW j \in Nat, j < g.entries
  PROVE  \E i \in H : i <= j /\ j < i + g.slices[i].count
<1> DEFINE Before == {i \in H : i <= j}
<1>1. Before \in SUBSET Nat /\ Before # {} /\ \A i \in Before : i <= j
  <2>1. 0 \in Before /\ H \subseteq Nat
    BY DEF Tiles, Counted
  <2> QED BY <2>1
<1>2. PICK i \in Before : \A k \in Before : k <= i
  <2> HIDE DEF Before
  <2> QED BY <1>1, Greatest
<1>3. i \in Nat /\ i < g.entries /\ i + g.slices[i].count \in Nat /\ g.slices[i].count > 0
  BY DEF Tiles, Counted
<1>4. i + g.slices[i].count > j
  BY <1>2, <1>3 DEF Tiles, Counted
<1> QED BY <1>3, <1>4

-----------------------------------------------------------------------------
(* Spans that are cut and merged.                                          *)

\* From a on and before b, the spans of h are not those of g but begin at the slices
\* of K, with which the heads are N.
Recuts(g, h, H, a, b, K, N) ==
  /\ Counted(g) /\ Counted(h) /\ h.entries = g.entries /\ Tiles(g, H)
  /\ a \in H /\ b \in Nat /\ a < b /\ (b \in H \/ b >= g.entries)
  /\ \A j \in H : j < a \/ j >= b => h.slices[j].count = g.slices[j].count
  /\ a \in K /\ K \subseteq 0..(g.entries - 1)
  /\ \A k \in K : /\ a <= k /\ k < b /\ h.slices[k].count > 0
                  /\ k + h.slices[k].count \in K \/ k + h.slices[k].count = b
                  /\ \A l \in K : l <= k \/ l >= k + h.slices[k].count
  /\ N = {i \in H : i < a \/ i >= b} \cup K

LEMMA Recut ==
  ASSUME NEW g, NEW h, NEW H, NEW a, NEW b, NEW K, NEW N, Recuts(g, h, H, a, b, K, N)
  PROVE  Tiles(h, N) /\ Heads(h) = N
<1>0. /\ Counted(g) /\ Counted(h) /\ h.entries = g.entries /\ Tiles(g, H)
      /\ a \in H /\ b \in Nat /\ a < b /\ (b \in H \/ b >= g.entries)
      /\ \A j \in H : j < a \/ j >= b => h.slices[j].count = g.slices[j].count
      /\ a \in K /\ K \subseteq 0..(g.entries - 1)
      /\ \A k \in K : /\ a <= k /\ k < b /\ h.slices[k].count > 0
                      /\ k + h.slices[k].count \in K \/ k + h.slices[k].count = b
                      /\ \A l \in K : l <= k \/ l >= k + h.slices[k].count
      /\ N = {i \in H : i < a \/ i >= b} \cup K
  BY DEF Recuts
<1>1. /\ g.entries \in Nat /\ a \in Nat /\ H \subseteq 0..(g.entries - 1)
      /\ \A i \in H : i \in Nat /\ g.slices[i].count \in Nat /\ h.slices[i].count \in Nat
      /\ \A k \in K : k \in Nat /\ h.slices[k].count \in Nat /\ k + h.slices[k].count \in Nat
  BY <1>0 DEF Tiles, Counted
<1>2. 0 \in N /\ N \subseteq 0..(g.entries - 1)
  <2>1. 0 \in H /\ (0 < a \/ a = 0)
    BY <1>0, <1>1 DEF Tiles
  <2>2. 0 \in N
    BY <1>0, <2>1
  <2> QED BY <1>0, <1>1, <2>2
<1>3. ASSUME NEW i \in H, i < a
      PROVE  /\ h.slices[i].count > 0 /\ i + h.slices[i].count \in N
             /\ \A j \in N : j <= i \/ j >= i + h.slices[i].count
  <2>1. h.slices[i].count = g.slices[i].count /\ i + g.slices[i].count <= a
    BY <1>0, <1>1, <1>3 DEF Tiles
  <2>2. i + g.slices[i].count \in H
    BY <1>0, <1>1, <2>1 DEF Tiles
  <2>3. i + g.slices[i].count < a \/ i + g.slices[i].count = a
    BY <1>0, <1>1, <2>1
  <2>5. i + g.slices[i].count \in N
    BY <1>0, <2>2, <2>3
  <2>4. \A j \in N : j <= i \/ j >= i + g.slices[i].count
    BY <1>0, <1>1, <1>3, <2>1 DEF Tiles
  <2> QED BY <1>0, <2>1, <2>4, <2>5 DEF Tiles
<1>4. ASSUME NEW i \in H, i >= b
      PROVE  /\ h.slices[i].count > 0
             /\ i + h.slices[i].count \in N \/ i + h.slices[i].count >= g.entries
             /\ \A j \in N : j <= i \/ j >= i + h.slices[i].count
  <2>1. h.slices[i].count = g.slices[i].count /\ g.slices[i].count > 0
    BY <1>0, <1>4 DEF Tiles
  <2>2. i + g.slices[i].count \in H \/ i + g.slices[i].count >= g.entries
    BY <1>0 DEF Tiles
  <2>3. i + g.slices[i].count > b
    BY <1>0, <1>1, <1>4, <2>1
  <2>4. \A j \in N : j <= i \/ j >= i + g.slices[i].count
    <3>1. \A j \in H : j <= i \/ j >= i + g.slices[i].count
      BY <1>0 DEF Tiles
    <3>2. \A j \in K : j <= i
      BY <1>0, <1>1, <1>4
    <3> QED BY <1>0, <3>1, <3>2
  <2> QED BY <1>0, <1>1, <2>1, <2>2, <2>3, <2>4
<1>5. ASSUME NEW k \in K
      PROVE  /\ h.slices[k].count > 0
             /\ k + h.slices[k].count \in N \/ k + h.slices[k].count >= g.entries
             /\ \A j \in N : j <= k \/ j >= k + h.slices[k].count
  <2>1. k + h.slices[k].count <= b
    BY <1>0, <1>1
  <2>2. \A j \in N : j <= k \/ j >= k + h.slices[k].count
    BY <1>0, <1>1, <2>1
  <2> QED BY <1>0, <1>1, <2>2
<1>6. Tiles(h, N)
  BY <1>0, <1>1, <1>2, <1>3, <1>4, <1>5 DEF Tiles
<1> QED BY <1>0, <1>6, TilesHeads

\* A span goes on as long as its slices are as they were.
LEMMA StillFollows ==
  ASSUME NEW g, NEW h, NEW i \in Nat, g.slices[i].count \in Nat, Follows(g, i),
         h.kind = g.kind, h.entries = g.entries, g.entries \in Nat,
         \A j \in Nat : i <= j /\ j < i + g.slices[i].count /\ j <= g.entries
           => h.slices[j] = g.slices[j],
         i < g.entries, g.kind = "normal"
  PROVE  Follows(h, i)
<1> DEFINE c == g.slices[i].count
<1>1. h.slices[i] = g.slices[i] /\ c > 0 /\ i + c <= g.entries
  BY DEF Follows
<1>2. WaysBack(h, i) = WaysBack(g, i)
  BY <1>1 DEF WaysBack, IsFree
<1>3. ASSUME NEW j \in WaysBack(g, i) PROVE First(h, j) = First(g, j)
  <2>1. j \in Nat /\ i <= j /\ j < i + c
    BY <1>1, SegmentAssumption DEF WaysBack, Span
  <2> QED BY <1>1, <2>1 DEF First
<1> QED BY <1>1, <1>2, <1>3 DEF Follows, IsFree

\* What the fields of a segment are.
LEMMA Fields ==
  ASSUME NEW g \in SegmentState
  PROVE  /\ Counted(g) /\ g.entries \in 0..Slices /\ g.entries \in Nat /\ Slices \in Nat
         /\ DOMAIN g.slices = 0..Slices
         /\ g.used \in Nat /\ g.abandoned \in Nat /\ g.expire \in BOOLEAN
         /\ \A j \in 0..Slices : /\ g.slices[j] \in SliceState
                                 /\ g.slices[j].count \in Nat /\ g.slices[j].offset \in Nat
<1>1. g.slices \in [0..Slices -> SliceState] /\ g.entries \in 0..Slices /\ Slices \in Nat
  BY SegmentAssumption DEF SegmentState
<1>2. \A j \in 0..Slices : g.slices[j] \in SliceState
  BY <1>1
<1>3. \A j \in 0..Slices : g.slices[j].count \in Nat /\ g.slices[j].offset \in Nat
  BY <1>1, <1>2 DEF SliceState
<1> QED BY <1>1, <1>2, <1>3 DEF Counted, SegmentState

\* A normal segment, that may be in the middle of a change of its counters.
Normal(g) == Laid(g) /\ g.kind = "normal" /\ SpansFollow(g) /\ SpansCoalesced(g)

\* Where its heads are.
LEMMA NormalHeads ==
  ASSUME NEW g, Normal(g)
  PROVE  /\ g \in SegmentState /\ Counted(g) /\ g.entries = Slices /\ Slices \in Nat
         /\ Info \in Heads(g) /\ Info \in Nat /\ Info > 0 /\ g.slices[0].count = Info
         /\ ~IsFree(g, 0) /\ Tiles(g, Heads(g))
         /\ \A i \in Heads(g) :
              /\ i \in Nat /\ i < Slices /\ g.slices[i].count \in Nat /\ g.slices[i].count > 0
              /\ i + g.slices[i].count \in Heads(g) \/ i + g.slices[i].count = Slices
              /\ i + g.slices[i].count <= Slices
              /\ \A j \in Heads(g) : j <= i \/ j >= i + g.slices[i].count
              /\ i = 0 \/ i >= Info
<1>1. g \in SegmentState /\ Counted(g) /\ g.entries = Slices /\ Slices \in Nat
      /\ g.slices[0].count = Info /\ Info \in Nat /\ Info > 0 /\ Info < Slices
      /\ ~IsFree(g, 0) /\ Tiles(g, Heads(g))
  BY Fields, SegmentAssumption DEF Normal, Laid
<1>2. ASSUME NEW i \in Heads(g)
      PROVE  /\ i \in Nat /\ i < Slices /\ g.slices[i].count \in Nat /\ g.slices[i].count > 0
             /\ i + g.slices[i].count \in Heads(g) \/ i + g.slices[i].count >= Slices
             /\ i + g.slices[i].count <= Slices
             /\ \A j \in Heads(g) : j <= i \/ j >= i + g.slices[i].count
  <2>1. i + g.slices[i].count <= Slices
    BY <1>1 DEF Normal, SpansFollow, Follows
  <2> QED BY <1>1, <2>1 DEF Tiles, Counted
<1>3. 0 \in Heads(g) /\ \A i \in Heads(g) : i = 0 \/ i >= Info
  BY <1>1, <1>2 DEF Tiles
<1>4. Info \in Heads(g)
  BY <1>1, <1>2, <1>3 DEF Tiles
<1> QED BY <1>1, <1>2, <1>3, <1>4

\* The last slice of the span before a head leads to that span.
LEMMA SpanBefore ==
  ASSUME NEW g, Normal(g), NEW i \in Heads(g), i > 0
  PROVE  \E p \in Heads(g) : p + g.slices[p].count = i /\ First(g, i - 1) = p
<1>1. i \in Nat /\ i < g.entries /\ i - 1 \in Nat /\ i - 1 < g.entries
  BY NormalHeads
<1>2. PICK p \in Heads(g) : p <= i - 1 /\ i - 1 < p + g.slices[p].count
  BY <1>1, NormalHeads, Covered
<1>3. p \in Nat /\ g.slices[p].count \in Nat /\ p + g.slices[p].count = i
  BY <1>1, <1>2, NormalHeads
<1>4. \A j \in WaysBack(g, p) : First(g, j) = p
  BY DEF Normal, SpansFollow, Follows
<1>5. i - 1 \in WaysBack(g, p)
  BY <1>1, <1>3 DEF WaysBack
<1> QED BY <1>3, <1>4, <1>5

\* The free spans next to the one at i.
Near(g, i) == {j \in Heads(g) : IsFree(g, j) /\ (j = i + g.slices[i].count \/ j + g.slices[j].count = i)}

\* x has the spans of g, but for what is marked in the one at i.
Like(g, x, i) ==
  /\ x \in SegmentState /\ x.kind = g.kind /\ x.entries = g.entries
  /\ x.slices[i].count = g.slices[i].count
  /\ \A j \in 0..Slices : j < i \/ j >= i + g.slices[i].count => x.slices[j] = g.slices[j]

\* Neighbours finds them, whatever is marked in the span itself.
LEMMA NeighboursAre ==
  ASSUME NEW g, Normal(g), NEW i \in Heads(g), i >= Info, NEW x, Like(g, x, i)
  PROVE  Neighbours(x, i) = Near(g, i)
<1> DEFINE e == i + g.slices[i].count
<1>0. /\ x.entries = g.entries /\ x.slices[i].count = g.slices[i].count
      /\ \A j \in 0..Slices : j < i \/ j >= e => x.slices[j] = g.slices[j]
  BY DEF Like
<1>1. /\ i \in Nat /\ i > 0 /\ i < Slices /\ g.entries = Slices /\ Slices \in Nat
      /\ g.slices[i].count \in Nat /\ e > i /\ (e \in Heads(g) \/ e = Slices) /\ e <= Slices
  BY NormalHeads
<1>2. PICK p \in Heads(g) : p + g.slices[p].count = i /\ First(g, i - 1) = p
  BY <1>1, SpanBefore
<1>3. p \in Nat /\ p < i /\ i - 1 \in 0..Slices /\ i - 1 \in Slice /\ p \in 0..Slices
  BY <1>1, <1>2, NormalHeads DEF Slice
<1>4. First(x, i - 1) = p /\ (IsFree(x, p) <=> IsFree(g, p))
  BY <1>0, <1>1, <1>2, <1>3 DEF First, IsFree
<1>5. ASSUME e < Slices PROVE e \in Heads(g) /\ (IsFree(x, e) <=> IsFree(g, e))
  BY <1>0, <1>1, <1>5 DEF IsFree
<1>6. \A j \in Heads(g) : j + g.slices[j].count = i => j = p
  <2> TAKE j \in Heads(g)
  <2>1. j \in Nat /\ g.slices[j].count \in Nat /\ g.slices[j].count > 0
        /\ g.slices[p].count \in Nat /\ g.slices[p].count > 0
        /\ (p <= j \/ p >= j + g.slices[j].count) /\ (j <= p \/ j >= p + g.slices[p].count)
    BY NormalHeads
  <2> QED BY <1>2, <1>3, <2>1
<1> DEFINE behind == {j \in {i + x.slices[i].count} : j < x.entries /\ IsFree(x, j)}
           before == {j \in {First(x, k) : k \in Slice \cap {i - 1}} : IsFree(x, j)}
<1>7. behind = {j \in Heads(g) : IsFree(g, j) /\ j = e}
  <2>1. behind = {j \in {e} : j < Slices /\ IsFree(x, j)}
    BY <1>0, <1>1
  <2>2. e \in Heads(g) => e < Slices
    BY NormalHeads
  <2> HIDE DEF behind, e
  <2> QED BY <1>5, <2>1, <2>2
<1>8. before = {j \in Heads(g) : IsFree(g, j) /\ j + g.slices[j].count = i}
  <2>1. before = {j \in {p} : IsFree(x, j)}
    BY <1>3, <1>4
  <2> HIDE DEF before
  <2> QED BY <1>2, <1>4, <1>6, <2>1
<1>9. Neighbours(x, i) = behind \cup before
  BY DEF Neighbours
<1> QED BY <1>7, <1>8, <1>9 DEF Near

\* They and it, N, are all spans from a on and before b.
Group(g, i, N, a, b) ==
  /\ N = Near(g, i) \cup {i} /\ N \subseteq Heads(g) /\ a \in N
  /\ \A k \in N : k \in Nat /\ a <= k /\ k < b /\ Info <= k
  /\ b \in Nat /\ b <= Slices /\ (b \in Heads(g) \/ b = Slices)
  /\ (\E l \in N : b = l + g.slices[l].count)
  /\ \A j \in Heads(g) : a <= j /\ j < b => j \in N

Least_(N) == CHOOSE j \in N : \A k \in N : j <= k
Last_(N) == CHOOSE j \in N : \A k \in N : k <= j

LEMMA Around ==
  ASSUME NEW g, Normal(g), NEW i \in Heads(g), i >= Info
  PROVE  LET N    == Near(g, i) \cup {i}
             last == Last_(N)
         IN  Group(g, i, N, Least_(N), last + g.slices[last].count)
<1> DEFINE N == Near(g, i) \cup {i}
           b(l) == l + g.slices[l].count
<1>1. N \subseteq Heads(g) /\ i \in N /\ \A k \in N : k \in Nat /\ k <= Slices /\ Info <= k
  <2>1. \A k \in Near(g, i) : k # 0
    BY NormalHeads DEF Near
  <2> QED BY <2>1, NormalHeads DEF Near
<1>2. PICK f \in N : \A k \in N : f <= k
  <2> HIDE DEF N
  <2>1. N \in SUBSET Nat /\ N # {}
    BY <1>1
  <2> QED BY <2>1, Least
<1>3. PICK l \in N : \A k \in N : k <= l
  <2> HIDE DEF N
  <2>1. N \in SUBSET Nat /\ N # {} /\ Slices \in Nat
    BY <1>1, SegmentAssumption
  <2> QED BY <1>1, <2>1, Greatest
<1> HIDE DEF N
<1>4. Least_(N) \in N /\ \A k \in N : Least_(N) <= k
  BY <1>2 DEF Least_
<1>5. Last_(N) \in N /\ \A k \in N : k <= Last_(N)
  BY <1>3 DEF Last_
<1>6. ASSUME NEW j \in Heads(g), Least_(N) <= j, j < b(Last_(N)) PROVE j \in N
  <2> SUFFICES ASSUME j \notin N PROVE FALSE
    OBVIOUS
  <2> DEFINE first == Least_(N)
             last == Last_(N)
  <2> HIDE DEF first, last
  <2>1. /\ first \in N /\ last \in N /\ first <= i /\ i <= last /\ first <= j /\ j < b(last)
        /\ j # first /\ j # last /\ j # i /\ first \in Heads(g) /\ last \in Heads(g)
    BY <1>1, <1>4, <1>5, <1>6 DEF first, last
  <2>2. /\ first \in Nat /\ last \in Nat /\ j \in Nat /\ i \in Nat
        /\ g.slices[first].count \in Nat /\ g.slices[last].count \in Nat
        /\ g.slices[i].count \in Nat
        /\ j >= b(first) /\ (j <= last \/ j >= b(last)) /\ (j <= i \/ j >= b(i))
    <3>1. \A k \in Heads(g) : /\ k \in Nat /\ g.slices[k].count \in Nat
                              /\ \A m \in Heads(g) : m <= k \/ m >= k + g.slices[k].count
      BY NormalHeads
    <3> QED BY <2>1, <3>1
  <2>3. first = i \/ b(first) = i
    <3>1. CASE first = i + g.slices[i].count
      BY <2>1, <2>2, <3>1, NormalHeads
    <3> QED BY <2>1, <3>1 DEF N, Near
  <2>4. last = i \/ last = b(i)
    <3>1. CASE last + g.slices[last].count = i
      <4>1. g.slices[last].count > 0
        BY <2>1, NormalHeads
      <4> QED BY <2>1, <2>2, <3>1, <4>1
    <3> QED BY <2>1, <3>1 DEF N, Near
  <2>5. j > i
    BY <2>1, <2>2, <2>3
  <2> QED BY <2>1, <2>2, <2>4, <2>5
<1>7. /\ b(Last_(N)) \in Nat /\ b(Last_(N)) <= Slices
      /\ (b(Last_(N)) \in Heads(g) \/ b(Last_(N)) = Slices)
      /\ b(Last_(N)) > Last_(N)
  <2>1. Last_(N) \in Heads(g)
    BY <1>1, <1>5
  <2> QED BY <2>1, NormalHeads
<1>8. \A k \in N : k \in Nat /\ Least_(N) <= k /\ k < b(Last_(N)) /\ Info <= k
  BY <1>1, <1>4, <1>5, <1>7
<1> QED BY <1>1, <1>4, <1>5, <1>6, <1>7, <1>8 DEF N, Group

\* Together they become a free span.
Merges(g, i, N, a, b, h) ==
  /\ Normal(g) /\ i \in Heads(g) /\ Group(g, i, N, a, b)
  /\ h \in SegmentState /\ h.kind = g.kind /\ h.entries = g.entries
  /\ h.slices[a] = [count |-> b - a, offset |-> 0, block |-> 0]
  /\ b - a > 1 => h.slices[b - 1].offset = b - a - 1
  /\ \A j \in 0..Slices : j < a \/ j >= b => h.slices[j] = g.slices[j]

LEMMA Merged ==
  ASSUME NEW g, NEW i, NEW N, NEW a, NEW b, NEW h, Merges(g, i, N, a, b, h)
  PROVE  /\ Normal(h) /\ Heads(h) = (Heads(g) \ N) \cup {a}
         /\ \A j \in Heads(g) \ N : h.slices[j] = g.slices[j]
         /\ Pages(h) = Pages(g) \ {i}
<1>0. /\ Normal(g) /\ i \in Heads(g) /\ Group(g, i, N, a, b)
      /\ h \in SegmentState /\ h.kind = g.kind /\ h.entries = g.entries
      /\ h.slices[a] = [count |-> b - a, offset |-> 0, block |-> 0]
      /\ b - a > 1 => h.slices[b - 1].offset = b - a - 1
      /\ \A j \in 0..Slices : j < a \/ j >= b => h.slices[j] = g.slices[j]
  BY DEF Merges
<1>1. /\ a \in N /\ N \subseteq Heads(g)
      /\ \A k \in N : k \in Nat /\ a <= k /\ k < b /\ Info <= k
      /\ b \in Nat /\ b <= Slices /\ (b \in Heads(g) \/ b = Slices)
      /\ \A j \in Heads(g) : a <= j /\ j < b => j \in N
      /\ N = Near(g, i) \cup {i} /\ \E l \in N : b = l + g.slices[l].count
  BY <1>0 DEF Group
<1>2. /\ a \in Heads(g) /\ a \in Nat /\ a >= Info /\ Info \in Nat /\ Info > 0 /\ a < b
      /\ Slices \in Nat /\ g.entries = Slices /\ Tiles(g, Heads(g)) /\ Counted(g) /\ Counted(h)
  BY <1>0, <1>1, NormalHeads, Fields
<1>3. \A j \in Heads(g) : j \in 0..Slices /\ j < Slices /\ j \in Nat
  <2> TAKE j \in Heads(g)
  <2>1. j \in Nat /\ j < Slices
    BY <1>0, NormalHeads
  <2> QED BY <1>0, <1>2, <2>1
<1>4. {j \in Heads(g) : j < a \/ j >= b} = Heads(g) \ N
  <2>1. \A j \in Heads(g) : (j < a \/ j >= b) <=> j \notin N
    BY <1>0, <1>1, <1>2, <1>3
  <2> QED BY <1>0, <2>1
<1>5. \A j \in Heads(g) \ N : h.slices[j] = g.slices[j] /\ (j < a \/ j >= b)
  BY <1>0, <1>3, <1>4
<1>6. h.slices[a].count = b - a /\ h.slices[a].offset = 0 /\ h.slices[a].block = 0
  BY <1>0
<1>7. Heads(h) = (Heads(g) \ N) \cup {a} /\ Tiles(h, Heads(h))
  <2> DEFINE K == {a}
  <2>1. /\ a \in K /\ K \subseteq 0..(g.entries - 1)
        /\ \A k \in K : /\ a <= k /\ k < b /\ h.slices[k].count > 0
                        /\ k + h.slices[k].count \in K \/ k + h.slices[k].count = b
                        /\ \A l \in K : l <= k \/ l >= k + h.slices[k].count
    <3>1. a + (b - a) = b /\ b - a > 0 /\ a <= g.entries - 1
      BY <1>0, <1>1, <1>2
    <3> QED BY <1>0, <1>2, <1>6, <3>1
  <2>2. \A j \in Heads(g) : j < a \/ j >= b => h.slices[j].count = g.slices[j].count
    BY <1>0, <1>3
  <2> DEFINE M == (Heads(g) \ N) \cup K
  <2>3. a \in Heads(g) /\ b \in Nat /\ (b \in Heads(g) \/ b >= g.entries)
    BY <1>0, <1>1, <1>2
  <2> HIDE DEF K
  <2>4. Recuts(g, h, Heads(g), a, b, K, M)
    BY <1>0, <1>2, <1>4, <2>1, <2>2, <2>3 DEF Recuts
  <2>5. Tiles(h, M) /\ Heads(h) = M
    BY <1>0, <2>4, Recut
  <2> QED BY <1>0, <2>5 DEF K
<1>8. IsFree(h, a) /\ \A j \in Heads(g) \ N : IsFree(h, j) <=> IsFree(g, j)
  BY <1>0, <1>5, <1>6 DEF IsFree
<1>9. Pages(h) = Pages(g) \ {i}
  <2>1. \A j \in N : j = i \/ IsFree(g, j)
    BY <1>0, <1>1 DEF Near
  <2>2. a # i => IsFree(g, a)
    BY <1>0, <1>1, <2>1
  <2>3. i \in N /\ a \in N
    BY <1>0, <1>1
  <2>4. \A j : j \in Heads(h) <=> j = a \/ (j \in Heads(g) /\ j \notin N)
    BY <1>0, <1>7
  <2>5. \A j : j \in Pages(h) <=> j \in Pages(g) /\ j # i
    BY <1>0, <1>1, <1>8, <2>1, <2>3, <2>4 DEF Pages
  <2> QED BY <1>0, <2>5
<1>10. SpansFollow(h)
  <2>1. ASSUME NEW j \in Heads(g) \ N PROVE Follows(h, j)
    <3>1. j \in Nat /\ g.slices[j].count \in Nat /\ j < g.entries
          /\ (j + g.slices[j].count <= a \/ j >= b)
      <4>1. j \in Nat /\ g.slices[j].count \in Nat /\ (a <= j \/ a >= j + g.slices[j].count)
        BY <1>0, <1>2, NormalHeads
      <4> QED BY <1>0, <1>2, <1>3, <1>5, <4>1
    <3>2. \A k \in Nat : j <= k /\ k < j + g.slices[j].count /\ k <= g.entries
            => h.slices[k] = g.slices[k]
      <4> TAKE k \in Nat
      <4> HAVE j <= k /\ k < j + g.slices[j].count /\ k <= g.entries
      <4>1. k \in 0..Slices /\ (k < a \/ k >= b)
        BY <1>0, <1>1, <1>2, <3>1
      <4> QED BY <1>0, <4>1
    <3> QED BY <1>0, <1>2, <3>1, <3>2, StillFollows DEF Normal, SpansFollow
  <2>2. Follows(h, a)
    <3>1. WaysBack(h, a) = {b - 1}
      <4>1. a + h.slices[a].count - 1 = b - 1
        BY <1>1, <1>2, <1>6
      <4> QED BY <1>8, <4>1 DEF WaysBack
    <3>2. First(h, b - 1) = a
      <4>1. CASE b - a > 1
        BY <1>0, <1>1, <1>2, <4>1 DEF First
      <4>2. CASE b - a = 1
        <5>1. b - 1 = a
          BY <1>0, <1>1, <1>2, <4>2
        <5> QED BY <1>0, <1>2, <1>6, <5>1 DEF First
      <4> QED BY <1>0, <1>1, <1>2, <4>1, <4>2
    <3>3. h.slices[a].count > 0 /\ a + h.slices[a].count <= h.entries
      BY <1>0, <1>1, <1>2, <1>6
    <3> QED BY <1>0, <3>1, <3>2, <3>3 DEF Follows, Normal
  <2> QED BY <1>0, <1>7, <2>1, <2>2 DEF SpansFollow
<1>11. SpansCoalesced(h)
  <2>1. ASSUME NEW j \in Heads(g) \ N, IsFree(g, j) PROVE j # b /\ j + g.slices[j].count # a
    <3>1. j # i + g.slices[i].count /\ j + g.slices[j].count # i
      BY <1>0, <1>1, <2>1 DEF Near
    <3>2. \A k \in N \ {i} : j # k + g.slices[k].count /\ k # j + g.slices[j].count
      <4>1. \A k \in N \ {i} : k \in Heads(g) /\ IsFree(g, k)
        BY <1>0, <1>1 DEF Near
      <4> QED BY <1>0, <2>1, <4>1 DEF Normal, SpansCoalesced
    <3> QED BY <1>0, <1>1, <3>1, <3>2
  <2>2. \A j \in Heads(g) \ N : \A k \in Heads(g) \ N : IsFree(g, j) /\ IsFree(g, k)
           => k # j + g.slices[j].count
    BY <1>0 DEF Normal, SpansCoalesced
  <2>3. a # a + h.slices[a].count /\ b = a + h.slices[a].count
    BY <1>0, <1>1, <1>2, <1>6
  <2>4. ASSUME NEW j \in Heads(h), NEW k \in Heads(h), IsFree(h, j), IsFree(h, k)
        PROVE  k # j + h.slices[j].count
    <3>1. CASE j = a
      BY <1>0, <1>7, <1>8, <2>1, <2>3, <2>4, <3>1
    <3>2. CASE j \in Heads(g) \ N
      BY <1>0, <1>5, <1>7, <1>8, <2>1, <2>2, <2>4, <3>2
    <3> QED BY <1>0, <1>7, <3>1, <3>2
  <2> QED BY <1>0, <2>4 DEF SpansCoalesced
<1>12. Laid(h)
  <2>1. h.slices[0] = g.slices[0]
    <3>1. 0 \in 0..Slices /\ 0 < a
      BY <1>0, <1>2
    <3> QED BY <1>0, <3>1
  <2>2. \A j \in Pages(h) : h.slices[j] = g.slices[j] /\ j \in Pages(g)
    BY <1>0, <1>5, <1>7, <1>8, <1>9 DEF Pages
  <2>3. ~IsFree(h, 0)
    BY <1>0, <2>1, NormalHeads DEF IsFree
  <2> QED BY <1>0, <1>7, <2>1, <2>2, <2>3 DEF Laid, Normal
<1> QED BY <1>0, <1>5, <1>7, <1>9, <1>10, <1>11, <1>12 DEF Normal

\* A free span becomes a page of n slices, and a free span if it has more.
Cuts(g, i, n, h) ==
  LET m == g.slices[i].count
  IN  /\ Normal(g) /\ i \in Heads(g) /\ IsFree(g, i)
      /\ n \in Counts \cup HugeCounts /\ n <= m
      /\ h \in SegmentState /\ h.kind = g.kind /\ h.entries = g.entries
      /\ h.slices[i].count = n /\ ~IsFree(h, i) /\ \A j \in WaysBack(h, i) : First(h, j) = i
      /\ n < m => /\ h.slices[i + n].count = m - n /\ h.slices[i + n].block = 0
                  /\ First(h, i + m - 1) = i + n
      /\ \A j \in 0..Slices : j < i \/ j >= i + m => h.slices[j] = g.slices[j]

LEMMA Cut ==
  ASSUME NEW g, NEW i, NEW n, NEW h, Cuts(g, i, n, h)
  PROVE  LET m == g.slices[i].count
         IN  /\ Normal(h) /\ Heads(h) = Heads(g) \cup {j \in {i + n} : n < m}
             /\ \A j \in Heads(g) \ {i} : h.slices[j] = g.slices[j]
             /\ Pages(h) = Pages(g) \cup {i} /\ i \notin Pages(g) /\ i >= Info
<1> DEFINE m == g.slices[i].count
           K == {i} \cup {j \in {i + n} : n < m}
           M == Heads(g) \cup {j \in {i + n} : n < m}
<1>1. /\ Normal(g) /\ i \in Heads(g) /\ IsFree(g, i)
      /\ n \in Counts \cup HugeCounts /\ n <= m
      /\ h \in SegmentState /\ h.kind = g.kind /\ h.entries = g.entries
      /\ h.slices[i].count = n /\ ~IsFree(h, i) /\ \A j \in WaysBack(h, i) : First(h, j) = i
      /\ n < m => /\ h.slices[i + n].count = m - n /\ h.slices[i + n].block = 0
                  /\ First(h, i + m - 1) = i + n
      /\ \A j \in 0..Slices : j < i \/ j >= i + m => h.slices[j] = g.slices[j]
  BY DEF Cuts
<1>2. n \in Nat /\ n > 0
  BY <1>1, SegmentAssumption
<1>3. /\ i \in Nat /\ i < Slices /\ m \in Nat /\ m > 0 /\ i + m <= Slices /\ Slices \in Nat
      /\ (i + m \in Heads(g) \/ i + m = Slices) /\ i >= Info /\ Info \in Nat /\ Info > 0
      /\ g.entries = Slices /\ Tiles(g, Heads(g)) /\ Counted(g) /\ Counted(h)
      /\ g.slices[0].count = Info /\ ~IsFree(g, 0)
  BY <1>1, NormalHeads, Fields
<1>4. \A j \in Heads(g) : /\ j \in 0..Slices /\ j \in Nat /\ j < Slices
                          /\ g.slices[j].count \in Nat
                          /\ (j <= i \/ j >= i + m) /\ (i <= j \/ i >= j + g.slices[j].count)
  <2> TAKE j \in Heads(g)
  <2>1. j \in Nat /\ j < Slices /\ g.slices[j].count \in Nat
        /\ (j <= i \/ j >= i + m) /\ (i <= j \/ i >= j + g.slices[j].count)
    BY <1>1, NormalHeads
  <2> QED BY <1>3, <2>1
<1>5. \A j \in Heads(g) \ {i} : h.slices[j] = g.slices[j] /\ (j < i \/ j >= i + m)
  BY <1>1, <1>3, <1>4
<1> HIDE DEF m
<1>6. Tiles(h, M) /\ Heads(h) = M
  <2>1. \A k \in K : k = i \/ (k = i + n /\ n < m)
    OBVIOUS
  <2>2. ASSUME NEW k \in K
        PROVE  /\ i <= k /\ k < i + m /\ h.slices[k].count > 0
               /\ k + h.slices[k].count \in K \/ k + h.slices[k].count = i + m
               /\ \A l \in K : l <= k \/ l >= k + h.slices[k].count
    <3>1. CASE k = i
      <4>1. i + n \in K \/ i + n = i + m
        BY <1>1, <1>2, <1>3
      <4> QED BY <1>1, <1>2, <1>3, <2>1, <3>1, <4>1
    <3>2. CASE k = i + n /\ n < m
      <4>1. h.slices[k].count = m - n
        BY <1>1, <3>2 DEF m
      <4> QED BY <1>1, <1>2, <1>3, <2>1, <3>2, <4>1
    <3> QED BY <2>1, <3>1, <3>2
  <2>3. i \in K /\ K \subseteq 0..(g.entries - 1)
    BY <1>2, <1>3
  <2>4. M = {j \in Heads(g) : j < i \/ j >= i + m} \cup K
    BY <1>1, <1>4
  <2>5. \A j \in Heads(g) : j < i \/ j >= i + m => h.slices[j].count = g.slices[j].count
    BY <1>1, <1>4 DEF m
  <2>6. i + m \in Nat /\ i < i + m /\ (i + m \in Heads(g) \/ i + m >= g.entries)
    BY <1>3
  <2> HIDE DEF K, M
  <2>7. Recuts(g, h, Heads(g), i, i + m, K, M)
    BY <1>1, <1>3, <2>2, <2>3, <2>4, <2>5, <2>6 DEF Recuts
  <2> QED BY <2>7, Recut
<1>7. /\ \A j \in Heads(g) \ {i} : IsFree(h, j) <=> IsFree(g, j)
      /\ n < m => IsFree(h, i + n)
      /\ n < m => i + n \notin Heads(g)
  <2>1. n < m => h.slices[i + n].block = 0
    BY <1>1 DEF m
  <2>2. n < m => i + n \notin Heads(g)
    BY <1>2, <1>3, <1>4
  <2> QED BY <1>5, <2>1, <2>2 DEF IsFree
<1>8. Pages(h) = Pages(g) \cup {i} /\ i \notin Pages(g)
  <2>1. i # 0
    BY <1>3
  <2>2. \A j : j \in Pages(h) <=> j \in Pages(g) \/ j = i
    BY <1>1, <1>6, <1>7, <2>1 DEF Pages
  <2>3. i \notin Pages(g)
    BY <1>1 DEF Pages
  <2> QED BY <2>2, <2>3
<1>9. SpansFollow(h)
  <2>1. ASSUME NEW j \in Heads(g) \ {i} PROVE Follows(h, j)
    <3>1. j \in Nat /\ g.slices[j].count \in Nat /\ j < g.entries
          /\ (j + g.slices[j].count <= i \/ j >= i + m)
      BY <1>3, <1>4, <1>5
    <3>2. \A k \in Nat : j <= k /\ k < j + g.slices[j].count /\ k <= g.entries
            => h.slices[k] = g.slices[k]
      <4> TAKE k \in Nat
      <4> HAVE j <= k /\ k < j + g.slices[j].count /\ k <= g.entries
      <4>1. k \in 0..Slices /\ (k < i \/ k >= i + m)
        BY <1>3, <3>1
      <4> QED BY <1>1, <4>1 DEF m
    <3> QED BY <1>1, <1>3, <3>1, <3>2, StillFollows DEF Normal, SpansFollow
  <2>2. Follows(h, i)
    <3>1. i + n <= h.entries /\ n > 0
      BY <1>1, <1>2, <1>3 DEF m
    <3> QED BY <1>1, <3>1 DEF Follows, Normal
  <2>3. ASSUME n < m PROVE Follows(h, i + n)
    <3>1. /\ h.slices[i + n].count = m - n /\ IsFree(h, i + n)
          /\ First(h, i + m - 1) = i + n
      BY <1>1, <2>3 DEF m, IsFree
    <3>2. /\ m - n > 0 /\ i + n + (m - n) <= h.entries /\ i + n + (m - n) - 1 = i + m - 1
      BY <1>1, <1>2, <1>3, <2>3
    <3>3. WaysBack(h, i + n) = {i + m - 1}
      BY <3>1, <3>2 DEF WaysBack
    <3> QED BY <1>1, <3>1, <3>2, <3>3 DEF Follows, Normal
  <2> QED BY <1>6, <2>1, <2>2, <2>3 DEF SpansFollow
<1>10. SpansCoalesced(h)
  <2>1. ASSUME NEW j \in Heads(h), NEW k \in Heads(h), IsFree(h, j), IsFree(h, k)
        PROVE  k # j + h.slices[j].count
    <3>1. \A l \in Heads(g) \ {i} : IsFree(g, l) => l # i + m /\ i # l + g.slices[l].count
      BY <1>1 DEF m, Normal, SpansCoalesced
    <3>2. CASE j \in Heads(g) \ {i} /\ k \in Heads(g) \ {i}
      BY <1>1, <1>5, <1>7, <2>1, <3>2 DEF Normal, SpansCoalesced
    <3>3. CASE j = i + n /\ n < m /\ k \in Heads(g) \ {i}
      <4>1. j + h.slices[j].count = i + m
        BY <1>1, <1>2, <1>3, <3>3 DEF m
      <4> QED BY <1>7, <2>1, <3>1, <3>3, <4>1
    <3>4. CASE j \in Heads(g) \ {i} /\ k = i + n /\ n < m
      <4>1. k # j + g.slices[j].count
        BY <1>2, <1>3, <1>4, <1>5, <3>4
      <4> QED BY <1>5, <3>4, <4>1
    <3>5. CASE j = i + n /\ k = i + n /\ n < m
      <4>1. j + h.slices[j].count = i + m
        BY <1>1, <1>2, <1>3, <3>5 DEF m
      <4> QED BY <1>2, <1>3, <3>5, <4>1
    <3>6. j # i /\ k # i
      BY <1>1, <2>1
    <3> QED BY <1>6, <3>2, <3>3, <3>4, <3>5, <3>6
  <2> QED BY <2>1 DEF SpansCoalesced
<1>11. Laid(h)
  <2>1. h.slices[0] = g.slices[0]
    <3>1. 0 \in 0..Slices /\ 0 < i
      BY <1>3
    <3> QED BY <1>1, <3>1
  <2>2. \A j \in Pages(h) : h.slices[j].count \in Counts \cup HugeCounts
    <3>1. \A j \in Pages(g) : j \in Heads(g) /\ g.slices[j].count \in Counts \cup HugeCounts
      BY <1>1 DEF Normal, Laid, Pages
    <3> QED BY <1>1, <1>5, <1>8, <3>1
  <2>3. ~IsFree(h, 0)
    BY <1>3, <2>1 DEF IsFree
  <2> QED BY <1>1, <1>3, <1>6, <2>1, <2>2, <2>3 DEF Laid, Normal
<1> QED BY <1>1, <1>3, <1>5, <1>6, <1>8, <1>9, <1>10, <1>11 DEF m, Normal

-----------------------------------------------------------------------------
(* What the operations on a segment change.                                *)

\* All but the slices; all but the masks; all but both.
SameRest(g, h) ==
  /\ h \in SegmentState /\ h.kind = g.kind /\ h.entries = g.entries /\ h.total = g.total
  /\ h.owner = g.owner /\ h.used = g.used /\ h.abandoned = g.abandoned
  /\ h.live = g.live /\ h.heap = g.heap
OnlySlices(g, h) ==
  SameRest(g, h) /\ h.commit = g.commit /\ h.purge = g.purge /\ h.expire = g.expire
    /\ h.os = g.os
OnlyMasks(g, h) == SameRest(g, h) /\ h.slices = g.slices

\* The masks agree with each other; only slices of m become not committed or wait for
\* a purge.
MasksFit(g) == g.purge \subseteq g.commit /\ g.commit \subseteq g.os /\ (g.purge # {} => g.expire)
MasksKept(g, h, m) ==
  (MasksFit(g) => MasksFit(h)) /\ (g.commit \ g.purge) \ m \subseteq h.commit \ h.purge

LEMMA PurgedKeeps ==
  ASSUME NEW g \in SegmentState, NEW m \in SUBSET Slice
  PROVE  OnlyMasks(g, Purged(g, m)) /\ MasksKept(g, Purged(g, m), m)
         /\ Purged(g, m).expire = g.expire /\ Purged(g, m).purge = g.purge \ m
<1> DEFINE decommit == opt.decommit /\ m \cap g.commit # {}
           c == IF decommit THEN g.commit \ m ELSE g.commit
           o == IF decommit THEN g.os \ m ELSE g.os
           h == [g EXCEPT !.commit = c, !.os = o, !.purge = g.purge \ m, !.expire = g.expire]
<1>1. g.commit \in SUBSET Slice /\ g.os \in SUBSET Slice /\ g.purge \in SUBSET Slice
      /\ g.expire \in BOOLEAN
  BY DEF SegmentState
<1>2. Purged(g, m) = h
  BY DEF Purged, SegmentState
<1>3. c \in SUBSET Slice /\ o \in SUBSET Slice /\ g.purge \ m \in SUBSET Slice
  BY <1>1
<1>4. c \subseteq g.commit /\ g.commit \ m \subseteq c /\ (g.commit \subseteq g.os => c \subseteq o)
  OBVIOUS
<1> HIDE DEF c, o
<1>5. OnlyMasks(g, h) /\ h.commit = c /\ h.os = o /\ h.purge = g.purge \ m /\ h.expire = g.expire
  BY <1>1, <1>3 DEF SegmentState, OnlyMasks, SameRest
<1> HIDE DEF h
<1>6. MasksKept(g, h, m)
  BY <1>4, <1>5 DEF MasksKept, MasksFit
<1> QED BY <1>2, <1>5, <1>6

LEMMA TryPurgedKeeps ==
  ASSUME NEW g \in SegmentState
  PROVE  OnlyMasks(g, TryPurged(g)) /\ MasksKept(g, TryPurged(g), {})
<1>1. CASE AllowPurge /\ g.purge # {}
  <2> DEFINE h == [g EXCEPT !.expire = FALSE, !.purge = {}]
  <2>1. /\ OnlyMasks(g, h) /\ h.commit = g.commit /\ h.os = g.os /\ h.purge = {}
        /\ h.expire = FALSE /\ h \in SegmentState
    BY DEF SegmentState, OnlyMasks, SameRest
  <2>2. TryPurged(g) = Purged(h, g.purge) /\ g.purge \in SUBSET Slice
    BY <1>1 DEF TryPurged, SegmentState
  <2> HIDE DEF h
  <2>3. /\ OnlyMasks(h, Purged(h, g.purge)) /\ MasksKept(h, Purged(h, g.purge), g.purge)
        /\ Purged(h, g.purge).purge = {}
    BY <2>1, <2>2, PurgedKeeps
  <2>4. OnlyMasks(g, Purged(h, g.purge))
    BY <2>1, <2>3 DEF OnlyMasks, SameRest
  <2>5. MasksKept(g, Purged(h, g.purge), {})
    BY <2>1, <2>3 DEF MasksKept, MasksFit
  <2> QED BY <2>2, <2>4, <2>5
<1>2. CASE ~(AllowPurge /\ g.purge # {})
  BY <1>2 DEF TryPurged, OnlyMasks, SameRest, MasksKept
<1> QED BY <1>1, <1>2

LEMMA ScheduledKeeps ==
  ASSUME NEW g \in SegmentState, NEW m \in SUBSET Slice, NEW late
  PROVE  OnlyMasks(g, Scheduled(g, m, late)) /\ MasksKept(g, Scheduled(g, m, late), m)
<1> DEFINE h == [g EXCEPT !.purge = g.purge \cup (m \cap g.commit), !.expire = TRUE]
<1>1. /\ OnlyMasks(g, h) /\ h.commit = g.commit /\ h.os = g.os /\ h \in SegmentState
      /\ h.purge = g.purge \cup (m \cap g.commit) /\ h.expire = TRUE
  BY DEF SegmentState, OnlyMasks, SameRest
<1>2. \/ Scheduled(g, m, late) = g \/ Scheduled(g, m, late) = Purged(g, m)
      \/ Scheduled(g, m, late) = h \/ Scheduled(g, m, late) = TryPurged(h)
  BY DEF Scheduled, SegmentState
<1> HIDE DEF h
<1>3. OnlyMasks(g, g) /\ MasksKept(g, g, m)
  BY DEF OnlyMasks, SameRest, MasksKept
<1>4. MasksKept(g, h, m)
  BY <1>1 DEF MasksKept, MasksFit
<1>5. OnlyMasks(g, TryPurged(h)) /\ MasksKept(g, TryPurged(h), m)
  <2>1. OnlyMasks(h, TryPurged(h)) /\ MasksKept(h, TryPurged(h), {})
    BY <1>1, TryPurgedKeeps
  <2> QED BY <1>1, <1>4, <2>1 DEF OnlyMasks, SameRest, MasksKept
<1> QED BY <1>1, <1>2, <1>3, <1>4, <1>5, PurgedKeeps

\* Other slices.
LEMMA SlicesFields ==
  ASSUME NEW g \in SegmentState, NEW f \in [0..Slices -> SliceState], NEW h,
         h = [g EXCEPT !.slices = f]
  PROVE  OnlySlices(g, h) /\ h.slices = f
BY DEF SegmentState, OnlySlices, SameRest

\* y is x after alloc_hook_segment_span_free of n slices from i; then what it did: the
\* first and the last slice say where the span is, a segment with an owner queues it.
Frees(s, x, i, n, y) ==
  /\ y = SpanFree(s, x, i, n)
  /\ x.g \in SegmentState /\ i \in Nat /\ n \in Nat /\ n > 0 /\ i + n - 1 <= Slices

Freed(s, x, i, n, y) ==
  /\ OnlySlices(x.g, y.g)
  /\ y.g.slices[i] = [count |-> n, offset |-> 0, block |-> 0]
  /\ n > 1 => y.g.slices[i + n - 1].offset = n - 1
  /\ \A j \in 0..Slices : j # i /\ j # i + n - 1 => y.g.slices[j] = x.g.slices[j]
  /\ y.q = IF x.g.owner = NoThread THEN x.q ELSE x.q \cup {<<Bin(n), s, i>>}

LEMMA SpanFreeIs ==
  ASSUME NEW s, NEW x, NEW i, NEW n, NEW y, Frees(s, x, i, n, y)
  PROVE  Freed(s, x, i, n, y)
<1> DEFINE f == [j \in 0..Slices |->
                  IF j = i THEN [count |-> n, offset |-> 0, block |-> 0]
                  ELSE IF j = i + n - 1 THEN [count |-> 0, offset |-> n - 1, block |-> 0]
                  ELSE x.g.slices[j]]
           h == [x.g EXCEPT !.slices = f]
<1>0. /\ y = SpanFree(s, x, i, n)
      /\ x.g \in SegmentState /\ i \in Nat /\ n \in Nat /\ n > 0 /\ i + n - 1 <= Slices
  BY DEF Frees
<1>1. f \in [0..Slices -> SliceState]
  <2>1. /\ [count |-> n, offset |-> 0, block |-> 0] \in SliceState
        /\ [count |-> 0, offset |-> n - 1, block |-> 0] \in SliceState
    BY <1>0, SegmentAssumption DEF SliceState
  <2>2. \A j \in 0..Slices : x.g.slices[j] \in SliceState
    BY <1>0, Fields
  <2> QED BY <2>1, <2>2
<1>2. y.g = h /\ y.q = IF h.owner = NoThread THEN x.q ELSE x.q \cup {Entry(s, h, i)}
  BY <1>0 DEF SpanFree
<1>3. i \in 0..Slices /\ i + n - 1 \in 0..Slices
  BY <1>0, SegmentAssumption
<1>4. /\ f[i] = [count |-> n, offset |-> 0, block |-> 0]
      /\ n > 1 => f[i + n - 1] = [count |-> 0, offset |-> n - 1, block |-> 0]
      /\ \A j \in 0..Slices : j # i /\ j # i + n - 1 => f[j] = x.g.slices[j]
  BY <1>0, <1>3
<1> HIDE DEF f
<1>5. OnlySlices(x.g, h) /\ h.slices = f
  BY <1>0, <1>1, SlicesFields
<1> HIDE DEF h
<1>6. Entry(s, h, i) = <<Bin(n), s, i>> /\ h.owner = x.g.owner
  BY <1>4, <1>5 DEF Entry, OnlySlices, SameRest
<1> QED BY <1>2, <1>4, <1>5, <1>6 DEF Freed

\* Apart from the span at i, the pages of a segment, its info slices too, are committed
\* and wait for no purge.
MasksBut(g, x, i) ==
  MasksFit(x) /\ \A j \in (Pages(g) \ {i}) \cup {0} : Slice \cap SpanOf(g, j) \subseteq x.commit \ x.purge

\* c is what Coalesced makes of the span at i, in a segment that is g but for it.
Joins(s, x, g, i, late, c) ==
  /\ c = Coalesced(s, x, i, late)
  /\ Normal(g) /\ i \in Heads(g) /\ i >= Info /\ Like(g, x.g, i) /\ MasksBut(g, x.g, i)

\* The queue entries of the free spans next to the one at i.
Gone(s, g, i) == {Entry(s, g, j) : j \in Near(g, i)}

\* Coalesced makes one free span of the span at i and those next to it.
CoalescesTo(s, x, g, i, c) ==
  LET N == Near(g, i) \cup {i}
      a == Least_(N)
      b == Last_(N) + g.slices[Last_(N)].count
  IN  /\ c.first = a /\ Merges(g, i, N, a, b, c.g)
      /\ SameRest(x.g, c.g) /\ MasksKept(x.g, c.g, a..(b - 1))
      /\ c.q = IF x.g.owner = NoThread THEN x.q ELSE (x.q \ Gone(s, g, i)) \cup {<<Bin(b - a), s, a>>}

LEMMA CoalescedIs ==
  ASSUME NEW s, NEW x, NEW g, NEW i, NEW late, NEW c, Joins(s, x, g, i, late, c)
  PROVE  CoalescesTo(s, x, g, i, c)
<1> DEFINE N == Near(g, i) \cup {i}
           a == Least_(N)
           l == Last_(N)
           b == l + g.slices[l].count
           f == [j \in 0..Slices |-> IF j \in Near(g, i) THEN [x.g.slices[j] EXCEPT !.block = 1]
                                     ELSE x.g.slices[j]]
           y == IF x.g.owner = NoThread THEN x
                ELSE [g |-> [x.g EXCEPT !.slices = f],
                      q |-> x.q \ {Entry(s, x.g, j) : j \in Near(g, i)}]
           z == SpanFree(s, y, a, b - a)
<1>0. /\ c = Coalesced(s, x, i, late)
      /\ Normal(g) /\ i \in Heads(g) /\ i >= Info /\ Like(g, x.g, i)
  BY DEF Joins
<1>1. Group(g, i, N, a, b) /\ l \in N
  <2>1. Group(g, i, N, a, b)
    BY <1>0, Around
  <2>2. N \in SUBSET Nat /\ N # {} /\ Slices \in Nat /\ \A k \in N : k <= Slices
    BY <1>0, <2>1, NormalHeads DEF Group
  <2>3. PICK k \in N : \A j \in N : j <= k
    BY <2>2, Greatest
  <2> HIDE DEF N
  <2>4. l \in N
    BY <2>3 DEF Last_
  <2> QED BY <2>1, <2>4
<1>2. /\ x.g \in SegmentState /\ x.g.kind = "normal" /\ x.g.entries = g.entries
      /\ x.g.slices[i].count = g.slices[i].count
      /\ \A j \in 0..Slices : j < i \/ j >= i + g.slices[i].count => x.g.slices[j] = g.slices[j]
  BY <1>0 DEF Like, Normal
<1>3. \A j \in Near(g, i) : x.g.slices[j] = g.slices[j] /\ j \in 0..Slices
  <2> TAKE j \in Near(g, i)
  <2>1. /\ j \in Nat /\ j < Slices /\ g.slices[j].count > 0 /\ g.slices[j].count \in Nat
        /\ i \in Nat /\ g.slices[i].count \in Nat /\ Slices \in Nat
        /\ (j = i + g.slices[i].count \/ j + g.slices[j].count = i)
    BY <1>0, NormalHeads DEF Near
  <2> QED BY <1>2, <2>1
<1>4. x.g.slices[l].count = g.slices[l].count
  BY <1>1, <1>2, <1>3
<1>5. /\ a \in Nat /\ b \in Nat /\ a < b /\ b <= Slices /\ Slices \in Nat /\ a \in N
      /\ \A k \in N : a <= k /\ k < b
  BY <1>0, <1>1, NormalHeads DEF Group
<1>6. c = [g |-> Scheduled(z.g, Span(a, b - a), late), q |-> z.q, first |-> a]
  <2>1. Neighbours(x.g, i) = Near(g, i)
    BY <1>0, NeighboursAre
  <2>3. x.g.kind # "huge" /\ i + x.g.slices[i].count = i + g.slices[i].count
    BY <1>2
  <2> DEFINE n == l + x.g.slices[l].count - a
             u == SpanFree(s, y, a, n)
  <2>4. c = [g |-> Scheduled(u.g, Span(a, n), late), q |-> u.q, first |-> a]
    BY <1>0, <2>1, <2>3 DEF Coalesced, Least_, Last_
  <2>5. n = b - a
    <3> HIDE DEF N, l, a
    <3>1. x.g.slices[l].count = g.slices[l].count
      BY <1>4
    <3>2. l \in Nat /\ g.slices[l].count \in Nat /\ a \in Nat
      BY <1>0, <1>1, <1>5, NormalHeads DEF Group
    <3> QED BY <3>1, <3>2
  <2> HIDE DEF N, l, a
  <2> HIDE DEF n, y
  <2>6. u = z
    BY <2>5
  <2> HIDE DEF u, z
  <2> QED BY <2>4, <2>5, <2>6
<1>7. Span(a, b - a) = a..(b - 1)
  BY <1>5 DEF Span
<1> HIDE DEF a, b, l
<1>8. f \in [0..Slices -> SliceState] /\ \A j \in 0..Slices : j \notin Near(g, i) => f[j] = x.g.slices[j]
  <2>1. \A j \in 0..Slices : x.g.slices[j] \in SliceState
    BY <1>2, Fields
  <2>2. \A j \in 0..Slices : [x.g.slices[j] EXCEPT !.block = 1] \in SliceState
    BY <2>1 DEF SliceState
  <2> QED BY <2>1, <2>2
<1> HIDE DEF f
<1>9. OnlySlices(x.g, y.g) /\ \A j \in 0..Slices : j \notin Near(g, i) => y.g.slices[j] = x.g.slices[j]
  <2>1. CASE x.g.owner = NoThread
    BY <1>2, <2>1 DEF OnlySlices, SameRest
  <2>2. CASE x.g.owner # NoThread
    <3> DEFINE h == [x.g EXCEPT !.slices = f]
    <3>1. OnlySlices(x.g, h) /\ h.slices = f
      BY <1>2, <1>8, SlicesFields
    <3>2. y.g = h
      BY <2>2
    <3> HIDE DEF h, y
    <3> QED BY <1>8, <3>1, <3>2
  <2> QED BY <2>1, <2>2
<1>10. y.q = IF x.g.owner = NoThread THEN x.q ELSE x.q \ {Entry(s, g, j) : j \in Near(g, i)}
  <2>1. {Entry(s, x.g, j) : j \in Near(g, i)} = {Entry(s, g, j) : j \in Near(g, i)}
    BY <1>3 DEF Entry
  <2> QED BY <2>1
<1> HIDE DEF y
<1>11. /\ OnlySlices(y.g, z.g)
       /\ z.g.slices[a] = [count |-> b - a, offset |-> 0, block |-> 0]
       /\ b - a > 1 => z.g.slices[b - 1].offset = b - a - 1
       /\ \A j \in 0..Slices : j # a /\ j # b - 1 => z.g.slices[j] = y.g.slices[j]
       /\ z.q = IF y.g.owner = NoThread THEN y.q ELSE y.q \cup {<<Bin(b - a), s, a>>}
  <2>1. y.g \in SegmentState /\ b - a \in Nat /\ b - a > 0 /\ a + (b - a) - 1 <= Slices
        /\ a + (b - a) - 1 = b - 1
    BY <1>5, <1>9 DEF OnlySlices, SameRest
  <2>2. b - a > 1 \/ ~(b - a > 1)
    OBVIOUS
  <2> DEFINE n == b - a
  <2> HIDE DEF n
  <2>3. n \in Nat /\ n > 0 /\ a + n - 1 <= Slices /\ a + n - 1 = b - 1 /\ z = SpanFree(s, y, a, n)
    BY <2>1 DEF n
  <2> HIDE DEF z
  <2>4. /\ OnlySlices(y.g, z.g)
        /\ z.g.slices[a] = [count |-> n, offset |-> 0, block |-> 0]
        /\ n > 1 => z.g.slices[a + n - 1].offset = n - 1
        /\ \A j \in 0..Slices : j # a /\ j # a + n - 1 => z.g.slices[j] = y.g.slices[j]
        /\ z.q = IF y.g.owner = NoThread THEN y.q ELSE y.q \cup {<<Bin(n), s, a>>}
    <3>1. y.g \in SegmentState /\ a \in Nat /\ n \in Nat /\ n > 0 /\ a + n - 1 <= Slices
      BY <1>5, <2>1, <2>3
    <3>2. Frees(s, y, a, n, z)
      BY <2>3, <3>1 DEF Frees
    <3>3. Freed(s, y, a, n, z)
      BY <3>2, SpanFreeIs
    <3> QED BY <3>3 DEF Freed
  <2> QED BY <2>3, <2>4 DEF n
<1> HIDE DEF z
<1>12. OnlyMasks(z.g, c.g) /\ MasksKept(z.g, c.g, a..(b - 1))
  <2>1. z.g \in SegmentState /\ a..(b - 1) \in SUBSET Slice
    BY <1>5, <1>11 DEF OnlySlices, SameRest, Slice
  <2>2. c.g = Scheduled(z.g, a..(b - 1), late)
    BY <1>6, <1>7
  <2> QED BY <2>1, <2>2, ScheduledKeeps
<1>13. SameRest(x.g, c.g) /\ MasksKept(x.g, c.g, a..(b - 1))
  <2>1. SameRest(x.g, c.g)
    BY <1>9, <1>11, <1>12 DEF OnlySlices, OnlyMasks, SameRest
  <2> QED BY <1>9, <1>11, <1>12, <2>1 DEF OnlySlices, MasksKept, MasksFit
<1>14. Merges(g, i, N, a, b, c.g)
  <2>1. c.g.slices = z.g.slices /\ c.g \in SegmentState /\ c.g.kind = g.kind /\ c.g.entries = g.entries
    <3> QED BY <1>0, <1>2, <1>12, <1>13 DEF OnlyMasks, SameRest, Normal
  <2>2. \A j \in 0..Slices : j < a \/ j >= b => c.g.slices[j] = g.slices[j]
    <3> TAKE j \in 0..Slices
    <3> HAVE j < a \/ j >= b
    <3>1. j # a /\ j # b - 1 /\ j \notin N
      BY <1>5
    <3>2. j < i \/ j >= i + g.slices[i].count
      <4>1. i + g.slices[i].count <= b
        <5>1. PICK k \in N : b = k + g.slices[k].count
          BY <1>1 DEF Group
        <5>2. k \in Heads(g) /\ i \in N /\ i < b
          BY <1>1, <1>5 DEF Group
        <5>3. /\ k \in Nat /\ i \in Nat /\ g.slices[k].count \in Nat /\ g.slices[i].count \in Nat
              /\ (k <= i \/ k >= i + g.slices[i].count) /\ (i <= k \/ i >= k + g.slices[k].count)
          BY <1>0, <5>2, NormalHeads
        <5> QED BY <1>5, <5>1, <5>2, <5>3
      <4>2. i \in Nat /\ g.slices[i].count \in Nat /\ a <= i
        BY <1>0, <1>5, NormalHeads
      <4> QED BY <1>5, <4>1, <4>2
    <3> HIDE DEF N
    <3>3. j \notin Near(g, i)
      BY <3>1 DEF N
    <3>4. c.g.slices[j] = z.g.slices[j] /\ z.g.slices[j] = y.g.slices[j]
      BY <1>11, <2>1, <3>1
    <3>5. y.g.slices[j] = x.g.slices[j]
      BY <1>9, <3>3
    <3>6. x.g.slices[j] = g.slices[j]
      BY <1>2, <3>2
    <3> QED BY <3>4, <3>5, <3>6
  <2> HIDE DEF N
  <2> QED BY <1>0, <1>1, <1>5, <1>11, <2>1, <2>2 DEF Merges
<1>15. c.first = a /\ c.q = z.q
  BY <1>6
<1>16. c.q = IF x.g.owner = NoThread THEN x.q ELSE (x.q \ Gone(s, g, i)) \cup {<<Bin(b - a), s, a>>}
  <2>1. y.g.owner = x.g.owner
    BY <1>9 DEF OnlySlices, SameRest
  <2> QED BY <1>10, <1>11, <1>15, <2>1 DEF Gone
<1>17. c.first = Least_(N) /\ a = Least_(N) /\ b = Last_(N) + g.slices[Last_(N)].count
  BY <1>15 DEF a, b, l
<1> HIDE DEF N
<1> QED BY <1>13, <1>14, <1>16, <1>17 DEF CoalescesTo, N

\* What the segment is then.
Joined(s, x, g, i, c) ==
  /\ Normal(c.g) /\ MasksAgree(c.g) /\ SameRest(x.g, c.g)
  /\ Pages(c.g) = Pages(g) \ {i} /\ \A j \in Pages(c.g) : c.g.slices[j] = g.slices[j]
  /\ c.first \in Heads(c.g) /\ IsFree(c.g, c.first) /\ Info <= c.first /\ c.first <= i
  /\ i + g.slices[i].count <= c.first + c.g.slices[c.first].count
  /\ \A j \in Near(g, i) \cup {i} : c.first <= j /\ j < c.first + c.g.slices[c.first].count
  /\ c.q = IF x.g.owner = NoThread THEN x.q
           ELSE (x.q \ Gone(s, g, i)) \cup {Entry(s, c.g, c.first)}
  /\ Entries(s, c.g) =
       (Entries(s, g) \ (Gone(s, g, i) \cup {Entry(s, g, i)})) \cup {Entry(s, c.g, c.first)}

LEMMA JoinedIs ==
  ASSUME NEW s, NEW x, NEW g, NEW i, NEW late, NEW c, Joins(s, x, g, i, late, c)
  PROVE  Joined(s, x, g, i, c)
<1>0. CoalescesTo(s, x, g, i, c)
  BY CoalescedIs
<1> DEFINE N == Near(g, i) \cup {i}
           a == Least_(N)
           b == Last_(N) + g.slices[Last_(N)].count
<1>1. /\ c = Coalesced(s, x, i, late)
      /\ Normal(g) /\ i \in Heads(g) /\ i >= Info /\ Like(g, x.g, i) /\ MasksBut(g, x.g, i)
  BY DEF Joins
<1>2. /\ c.first = a /\ Merges(g, i, N, a, b, c.g)
      /\ SameRest(x.g, c.g) /\ MasksKept(x.g, c.g, a..(b - 1))
      /\ c.q = IF x.g.owner = NoThread THEN x.q
               ELSE (x.q \ Gone(s, g, i)) \cup {<<Bin(b - a), s, a>>}
  BY <1>0 DEF CoalescesTo
<1> HIDE DEF a, b
<1>3. /\ Group(g, i, N, a, b) /\ c.g.slices[a] = [count |-> b - a, offset |-> 0, block |-> 0]
      /\ \A j \in 0..Slices : j < a \/ j >= b => c.g.slices[j] = g.slices[j]
  BY <1>2 DEF Merges
<1>4. /\ Normal(c.g) /\ Heads(c.g) = (Heads(g) \ N) \cup {a}
      /\ \A j \in Heads(g) \ N : c.g.slices[j] = g.slices[j]
      /\ Pages(c.g) = Pages(g) \ {i}
  <2> HIDE DEF N
  <2> QED BY <1>2, Merged
<1>5. /\ a \in N /\ i \in N /\ N \subseteq Heads(g) /\ b \in Nat /\ b <= Slices /\ Info \in Nat
      /\ Slices \in Nat /\ g.entries = Slices /\ \A k \in N : k \in Nat /\ a <= k /\ k < b /\ Info <= k
      /\ (b \in Heads(g) \/ b = Slices) /\ \A j \in Heads(g) : a <= j /\ j < b => j \in N
  BY <1>1, <1>3, NormalHeads DEF Group
<1>6. c.g.slices[a].count = b - a /\ IsFree(c.g, a) /\ a + (b - a) = b /\ b - a \in Nat
  BY <1>3, <1>5 DEF IsFree
<1>7. Entry(s, c.g, a) = <<Bin(b - a), s, a>>
  BY <1>6 DEF Entry
<1>8. i + g.slices[i].count <= b
  <2>1. i \in Nat /\ g.slices[i].count \in Nat /\ i + g.slices[i].count <= Slices
        /\ (b \in Heads(g) => b <= i \/ b >= i + g.slices[i].count)
    BY <1>1, NormalHeads
  <2> QED BY <1>5, <2>1
<1>9. \A j \in Pages(c.g) \cup {0} : /\ c.g.slices[j] = g.slices[j] /\ j \in Heads(g)
                                    /\ j \in (Pages(g) \ {i}) \cup {0} /\ (j < a \/ j >= b)
  <2> TAKE j \in Pages(c.g) \cup {0}
  <2>1. 0 \in Heads(g)
    BY <1>1, NormalHeads DEF Tiles
  <2>2. j \in Heads(g) /\ j \in (Pages(g) \ {i}) \cup {0}
    BY <1>4, <2>1 DEF Pages
  <2>3. j \notin N
    <3>1. Info > 0
      BY SegmentAssumption
    <3>2. j \in N => j = i \/ IsFree(g, j)
      BY DEF Near
    <3> HIDE DEF N
    <3>3. j \in N => j # 0
      BY <1>5, <3>1
    <3>4. j \in Pages(g) => ~IsFree(g, j)
      BY DEF Pages
    <3> QED BY <1>5, <2>2, <3>2, <3>3, <3>4
  <2>4. j \in Nat
    BY <1>1, <2>2, NormalHeads
  <2> HIDE DEF N
  <2> QED BY <1>4, <1>5, <2>2, <2>3, <2>4
<1>10. MasksAgree(c.g)
  <2>1. MasksFit(c.g) /\ (x.g.commit \ x.g.purge) \ (a..(b - 1)) \subseteq c.g.commit \ c.g.purge
    BY <1>1, <1>2 DEF MasksBut, MasksKept
  <2>2. ASSUME NEW j \in Pages(c.g) \cup {0}
        PROVE  Slice \cap SpanOf(c.g, j) \subseteq c.g.commit \ c.g.purge
    <3>1. SpanOf(c.g, j) = SpanOf(g, j) /\ Slice \cap SpanOf(g, j) \subseteq x.g.commit \ x.g.purge
      BY <1>1, <1>9 DEF MasksBut, SpanOf
    <3>2. SpanOf(g, j) \cap (a..(b - 1)) = {}
      <4>1. j \in Nat /\ g.slices[j].count \in Nat
            /\ (a <= j \/ a >= j + g.slices[j].count)
        <5>1. j \in Heads(g) /\ a \in Heads(g)
          BY <1>5, <1>9
        <5> QED BY <1>1, <5>1, NormalHeads
      <4>2. j + g.slices[j].count <= a \/ j >= b
        BY <1>5, <1>9, <4>1
      <4>3. a \in Nat
        BY <1>5
      <4> QED BY <1>5, <4>1, <4>2, <4>3 DEF SpanOf, Span
    <3> QED BY <2>1, <3>1, <3>2
  <2> QED BY <1>1, <1>4, <2>1, <2>2 DEF MasksAgree, MasksFit, Normal
<1>11. Entries(s, c.g) =
         (Entries(s, g) \ (Gone(s, g, i) \cup {Entry(s, g, i)})) \cup {Entry(s, c.g, a)}
  <2>1. \A j \in Heads(g) \ N : Entry(s, c.g, j) = Entry(s, g, j) /\ (IsFree(c.g, j) <=> IsFree(g, j))
    BY <1>4 DEF Entry, IsFree
  <2>2. \A j, k : Entry(s, g, j) = Entry(s, g, k) => j = k
    BY DEF Entry
  <2>3. Gone(s, g, i) \cup {Entry(s, g, i)} = {Entry(s, g, j) : j \in N}
    BY DEF Gone
  <2> HIDE DEF N
  <2>4. ASSUME NEW e
        PROVE  e \in Entries(s, c.g) <=>
                 \/ e = Entry(s, c.g, a)
                 \/ e \in Entries(s, g) /\ e \notin {Entry(s, g, j) : j \in N}
    <3>1. e \in Entries(s, c.g) <=> \E j \in Heads(c.g) : IsFree(c.g, j) /\ e = Entry(s, c.g, j)
      BY DEF Entries
    <3>2. e \in Entries(s, g) <=> \E j \in Heads(g) : IsFree(g, j) /\ e = Entry(s, g, j)
      BY DEF Entries
    <3>3. e \in Entries(s, c.g) <=>
            \/ e = Entry(s, c.g, a)
            \/ \E j \in Heads(g) \ N : IsFree(g, j) /\ e = Entry(s, g, j)
      BY <1>4, <1>6, <2>1, <3>1
    <3>4. (\E j \in Heads(g) \ N : IsFree(g, j) /\ e = Entry(s, g, j))
            <=> e \in Entries(s, g) /\ e \notin {Entry(s, g, j) : j \in N}
      BY <2>2, <3>2
    <3> QED BY <3>3, <3>4
  <2> QED BY <2>3, <2>4
<1>12. c.q = IF x.g.owner = NoThread THEN x.q
             ELSE (x.q \ Gone(s, g, i)) \cup {Entry(s, c.g, a)}
  BY <1>2, <1>7 DEF Gone
<1>13. a \in Heads(c.g) /\ Info <= a /\ a <= i
  BY <1>4, <1>5
<1> QED BY <1>2, <1>4, <1>5, <1>6, <1>8, <1>9, <1>10, <1>11, <1>12, <1>13 DEF Joined

-----------------------------------------------------------------------------
(* Segments with the same spans.                                           *)

\* h differs from g in masks and counters only; so its spans are those of g.
Alike(g, h) ==
  Laid(g) /\ h \in SegmentState /\ h.kind = g.kind /\ h.entries = g.entries /\ h.slices = g.slices

SameSpans(g, h) ==
  /\ Laid(h) /\ Heads(h) = Heads(g) /\ Pages(h) = Pages(g) /\ h.slices = g.slices
  /\ \A i : (IsFree(h, i) <=> IsFree(g, i)) /\ SpanOf(h, i) = SpanOf(g, i)
  /\ \A s : Entries(s, h) = Entries(s, g)
  /\ SpansFollow(g) => SpansFollow(h)
  /\ SpansCoalesced(g) => SpansCoalesced(h)

LEMMA AlikeSpans ==
  ASSUME NEW g, NEW h, Alike(g, h)
  PROVE  SameSpans(g, h)
<1>1. Laid(g) /\ h \in SegmentState /\ h.kind = g.kind /\ h.entries = g.entries /\ h.slices = g.slices
  BY DEF Alike
<1>2. Counted(h)
  BY <1>1, Fields
<1>3. Tiles(h, Heads(g))
  BY <1>1 DEF Laid, Tiles
<1>4. Heads(h) = Heads(g)
  BY <1>2, <1>3, TilesHeads
<1>5. \A i : (IsFree(h, i) <=> IsFree(g, i)) /\ SpanOf(h, i) = SpanOf(g, i)
             /\ First(h, i) = First(g, i)
  BY <1>1 DEF IsFree, SpanOf, First
<1>6. Pages(h) = Pages(g)
  BY <1>4, <1>5 DEF Pages
<1>7. Laid(h)
  <2>1. \A i \in Pages(h) : h.slices[i].count \in Counts \cup HugeCounts
    BY <1>1, <1>6 DEF Laid
  <2> QED BY <1>1, <1>3, <1>4, <1>5, <2>1 DEF Laid
<1>8. ASSUME NEW s PROVE Entries(s, h) = Entries(s, g)
  BY <1>1, <1>4, <1>5 DEF Entries, Entry
<1>9. ASSUME SpansFollow(g) PROVE SpansFollow(h)
  <2>1. ASSUME NEW i \in Heads(g), Follows(g, i) PROVE Follows(h, i)
    <3>1. WaysBack(h, i) = WaysBack(g, i)
      BY <1>1, <1>5 DEF WaysBack
    <3> QED BY <1>1, <1>5, <2>1, <3>1 DEF Follows
  <2> QED BY <1>4, <1>9, <2>1 DEF SpansFollow
<1>10. ASSUME SpansCoalesced(g) PROVE SpansCoalesced(h)
  BY <1>1, <1>4, <1>5, <1>10 DEF SpansCoalesced
<1> QED BY <1>1, <1>4, <1>5, <1>6, <1>7, <1>8, <1>9, <1>10 DEF SameSpans

\* The masks agree with the pages as long as they lose nothing.
LEMMA MasksStay ==
  ASSUME NEW g, NEW h, Alike(g, h), MasksAgree(g), MasksKept(g, h, {})
  PROVE  MasksAgree(h)
<1>1. SameSpans(g, h) /\ h.kind = g.kind
  BY AlikeSpans DEF Alike
<1>2. MasksFit(h) /\ g.commit \ g.purge \subseteq h.commit \ h.purge
  BY DEF MasksKept, MasksAgree, MasksFit
<1>3. Pages(h) = Pages(g) /\ \A i : SpanOf(h, i) = SpanOf(g, i)
  BY <1>1 DEF SameSpans
<1>4. \A i \in IF h.kind = "normal" THEN Pages(h) \cup {0} ELSE {0} :
        Slice \cap SpanOf(h, i) \subseteq h.commit \ h.purge
  BY <1>1, <1>2, <1>3 DEF MasksAgree
<1> QED BY <1>2, <1>4 DEF MasksAgree, MasksFit

\* So does all that is sound, as long as the counters are right.
LEMMA SoundStays ==
  ASSUME NEW g, NEW h, Sound(g), Alike(g, h), MasksKept(g, h, {}), PagesCounted(h)
  PROVE  Sound(h)
<1>1. SameSpans(g, h)
  BY AlikeSpans
<1>2. MasksAgree(h)
  BY MasksStay DEF Sound
<1> QED BY <1>1, <1>2 DEF Sound, SameSpans

LEMMA PagesFinite ==
  ASSUME NEW g, Laid(g)
  PROVE  /\ IsFiniteSet(Pages(g)) /\ Cardinality(Pages(g)) \in Nat
         /\ \A S : IsFiniteSet(Pages(g) \ S) /\ Cardinality(Pages(g) \ S) \in Nat
<1>1. g.entries \in Nat
  BY Fields DEF Laid
<1>2. IsFiniteSet(0..(g.entries - 1))
  BY <1>1, FS_Interval
<1>3. Pages(g) \subseteq 0..(g.entries - 1)
  BY DEF Laid, Tiles, Pages
<1>4. IsFiniteSet(Pages(g))
  BY <1>2, <1>3, FS_Subset
<1>5. ASSUME NEW S PROVE IsFiniteSet(Pages(g) \ S) /\ Cardinality(Pages(g) \ S) \in Nat
  <2>1. Pages(g) \ S \subseteq Pages(g)
    OBVIOUS
  <2>2. IsFiniteSet(Pages(g) \ S)
    BY <1>4, <2>1, FS_Subset
  <2> QED BY <2>2, FS_CardinalityType
<1> QED BY <1>4, <1>5, FS_CardinalityType

-----------------------------------------------------------------------------
(* A page that is cleared.                                                 *)

\* x.g is g without a page that is in a heap, or with one abandoned page less.
Uncounted(g, x, i) ==
  \/ x.g = g /\ i \in g.heap
  \/ x.g = [g EXCEPT !.abandoned = g.abandoned - 1] /\ i \notin g.heap

\* c is what alloc_hook_segment_page_clear makes of the page at i; then what it did.
Clears(s, g, x, i, late, c) ==
  /\ Sound(g) /\ i \in Pages(g) /\ i \notin g.live /\ Uncounted(g, x, i)
  /\ c = PageClear(s, x, i, late)

Cleared(g, i, c) ==
  /\ Sound(c.g) /\ c.g.kind = g.kind /\ c.g.entries = g.entries /\ c.g.owner = g.owner
  /\ c.g.live = g.live /\ c.g.heap = g.heap \ {i} /\ Pages(c.g) = Pages(g) \ {i}
  /\ \A j \in Pages(c.g) : c.g.slices[j] = g.slices[j]
  /\ c.first \in Heads(c.g) /\ Info <= c.first /\ c.first <= i
  /\ i + g.slices[i].count <= c.first + c.g.slices[c.first].count

\* In queue q and in the segment, one entry takes the place of those joined.
Dequeues(s, q, g, i, c) ==
  IF g.kind # "normal" THEN c.q = q
  ELSE /\ c.q = IF g.owner = NoThread THEN q ELSE (q \ Gone(s, g, i)) \cup {Entry(s, c.g, c.first)}
       /\ Entries(s, c.g) =
            (Entries(s, g) \ (Gone(s, g, i) \cup {Entry(s, g, i)})) \cup {Entry(s, c.g, c.first)}

\* What is marked before it is coalesced.
Unlisted(x, i) == [x.g EXCEPT !.slices[i].block = 1, !.heap = @ \ {i}, !.used = @ - 1]

\* y is g with the page at i taken out of its heap and marked, nothing else.
Marked(g, i, y) ==
  /\ y \in SegmentState /\ y.kind = g.kind /\ y.entries = g.entries /\ y.owner = g.owner
  /\ y.total = g.total /\ y.live = g.live /\ y.heap = g.heap \ {i} /\ y.commit = g.commit
  /\ y.purge = g.purge /\ y.os = g.os /\ y.expire = g.expire
  /\ y.slices[i].count = g.slices[i].count
  /\ \A j \in 0..Slices : j # i => y.slices[j] = g.slices[j]
  /\ y.used = Cardinality(Pages(g) \ {i})
  /\ y.abandoned = Cardinality((Pages(g) \ {i}) \ (g.heap \ {i}))

LEMMA ClearMarks ==
  ASSUME NEW g, NEW x, NEW i, Sound(g), i \in Pages(g), Uncounted(g, x, i)
  PROVE  Marked(g, i, Unlisted(x, i))
<1> DEFINE f == [x.g.slices EXCEPT ![i] = [x.g.slices[i] EXCEPT !.block = 1]]
           y == [x.g EXCEPT !.slices[i].block = 1, !.heap = @ \ {i}, !.used = @ - 1]
<1>1. g \in SegmentState /\ Laid(g) /\ PagesCounted(g) /\ i \in 0..Slices
  BY Fields DEF Sound, Laid, Tiles, Pages
<1>2. /\ Cardinality(Pages(g)) \in Nat /\ Cardinality(Pages(g) \ {i}) = Cardinality(Pages(g)) - 1
      /\ Cardinality(Pages(g) \ {i}) \in Nat
  BY <1>1, PagesFinite, FS_RemoveElement
<1>3. g.used = Cardinality(Pages(g)) /\ g.abandoned = Cardinality(Pages(g) \ g.heap)
  BY <1>1 DEF PagesCounted
<1>4. /\ x.g \in SegmentState /\ x.g.abandoned = Cardinality((Pages(g) \ {i}) \ (g.heap \ {i}))
      /\ x.g.kind = g.kind /\ x.g.entries = g.entries /\ x.g.owner = g.owner
      /\ x.g.total = g.total /\ x.g.live = g.live /\ x.g.heap = g.heap /\ x.g.commit = g.commit
      /\ x.g.purge = g.purge /\ x.g.os = g.os /\ x.g.expire = g.expire
      /\ x.g.slices = g.slices /\ x.g.used = g.used
  <2>1. CASE x.g = g /\ i \in g.heap
    <3>1. (Pages(g) \ {i}) \ (g.heap \ {i}) = Pages(g) \ g.heap
      BY <2>1
    <3> QED BY <1>1, <1>3, <2>1, <3>1
  <2>2. CASE x.g = [g EXCEPT !.abandoned = g.abandoned - 1] /\ i \notin g.heap
    <3>1. (Pages(g) \ {i}) \ (g.heap \ {i}) = (Pages(g) \ g.heap) \ {i}
      BY <2>2
    <3>2. i \in Pages(g) \ g.heap
      BY <2>2
    <3>3. Cardinality((Pages(g) \ g.heap) \ {i}) = Cardinality(Pages(g) \ g.heap) - 1
      BY <1>1, <3>2, PagesFinite, FS_RemoveElement
    <3>4. (Pages(g) \ g.heap) \ {i} = Pages(g) \ (g.heap \cup {i})
      OBVIOUS
    <3>5. g.abandoned - 1 = Cardinality(Pages(g) \ (g.heap \cup {i})) /\ g.abandoned - 1 \in Nat
      BY <1>1, <1>3, <3>3, <3>4, PagesFinite
    <3> DEFINE h == [g EXCEPT !.abandoned = g.abandoned - 1]
    <3>6. /\ h \in SegmentState /\ h.abandoned = g.abandoned - 1
          /\ h.kind = g.kind /\ h.entries = g.entries /\ h.owner = g.owner
          /\ h.total = g.total /\ h.live = g.live /\ h.heap = g.heap /\ h.commit = g.commit
          /\ h.purge = g.purge /\ h.os = g.os /\ h.expire = g.expire
          /\ h.slices = g.slices /\ h.used = g.used
      BY <1>1, <3>5 DEF SegmentState
    <3>7. x.g = h
      BY <2>2
    <3> HIDE DEF h
    <3> QED BY <3>1, <3>4, <3>5, <3>6, <3>7
  <2> QED BY <2>1, <2>2 DEF Uncounted
<1>5. f \in [0..Slices -> SliceState] /\ f[i].count = g.slices[i].count
      /\ \A j \in 0..Slices : j # i => f[j] = g.slices[j]
  <2>1. g.slices \in [0..Slices -> SliceState] /\ g.slices[i] \in SliceState
    BY <1>1 DEF SegmentState
  <2>2. [g.slices[i] EXCEPT !.block = 1] \in SliceState
        /\ [g.slices[i] EXCEPT !.block = 1].count = g.slices[i].count
    BY <2>1 DEF SliceState
  <2> QED BY <1>1, <1>4, <2>1, <2>2
<1>6. y = [x.g EXCEPT !.slices = f, !.heap = g.heap \ {i}, !.used = g.used - 1]
  BY <1>4
<1> HIDE DEF f
<1> DEFINE h == [x.g EXCEPT !.slices = f, !.heap = g.heap \ {i}, !.used = g.used - 1]
<1>7. /\ h \in SegmentState /\ h.slices = f /\ h.heap = g.heap \ {i} /\ h.used = g.used - 1
      /\ h.kind = x.g.kind /\ h.entries = x.g.entries /\ h.owner = x.g.owner
      /\ h.total = x.g.total /\ h.live = x.g.live /\ h.commit = x.g.commit
      /\ h.purge = x.g.purge /\ h.os = x.g.os /\ h.expire = x.g.expire
      /\ h.abandoned = x.g.abandoned
  <2>1. g.used - 1 \in Nat /\ g.heap \ {i} \in SUBSET Slice
    BY <1>1, <1>2, <1>3 DEF SegmentState
  <2> QED BY <1>4, <1>5, <2>1 DEF SegmentState
<1>8. y = h
  BY <1>6
<1> HIDE DEF h, y
<1>9. /\ y \in SegmentState /\ y.kind = g.kind /\ y.entries = g.entries /\ y.owner = g.owner
      /\ y.total = g.total /\ y.live = g.live /\ y.heap = g.heap \ {i} /\ y.commit = g.commit
      /\ y.purge = g.purge /\ y.os = g.os /\ y.expire = g.expire
  BY <1>4, <1>7, <1>8
<1>10. y.slices[i].count = g.slices[i].count /\ \A j \in 0..Slices : j # i => y.slices[j] = g.slices[j]
  BY <1>5, <1>7, <1>8
<1>11. y.used = Cardinality(Pages(g) \ {i})
       /\ y.abandoned = Cardinality((Pages(g) \ {i}) \ (g.heap \ {i}))
  BY <1>2, <1>3, <1>4, <1>7, <1>8
<1>12. Unlisted(x, i) = y
  BY DEF Unlisted, y
<1> QED BY <1>9, <1>10, <1>11, <1>12 DEF Marked

\* A huge page: only its head is marked.
HugeMarks(g, h, i) ==
  /\ Sound(g) /\ g.kind = "huge" /\ i \in Heads(g) \ {0}
  /\ h \in SegmentState /\ h.kind = "huge" /\ h.entries = g.entries /\ h.commit = g.commit
  /\ h.purge = g.purge /\ h.os = g.os /\ h.expire = g.expire
  /\ h.slices[i].count = g.slices[i].count /\ h.slices[i].block = 0
  /\ \A j \in 0..Slices : j # i => h.slices[j] = g.slices[j]
  /\ h.used = 0 /\ h.abandoned = 0 /\ h.heap = {} /\ h.live = {}

LEMMA HugeMarked ==
  ASSUME NEW g, NEW h, NEW i, HugeMarks(g, h, i)
  PROVE  Sound(h) /\ i = Info /\ Heads(h) = Heads(g) /\ Heads(g) = {0, Info} /\ Pages(h) = {}
         /\ i + h.slices[i].count >= h.entries
<1>1. /\ Sound(g) /\ g.kind = "huge" /\ i \in Heads(g) \ {0}
      /\ h \in SegmentState /\ h.kind = "huge" /\ h.entries = g.entries /\ h.commit = g.commit
      /\ h.purge = g.purge /\ h.os = g.os /\ h.expire = g.expire
      /\ h.slices[i].count = g.slices[i].count /\ h.slices[i].block = 0
      /\ \A j \in 0..Slices : j # i => h.slices[j] = g.slices[j]
      /\ h.used = 0 /\ h.abandoned = 0 /\ h.heap = {} /\ h.live = {}
  BY DEF HugeMarks
<1>2. /\ Laid(g) /\ Heads(g) = {0, Info} /\ i = Info /\ Info \in Nat /\ Info > 0 /\ Info < Slices
      /\ Slices \in Nat /\ g.entries \in Nat /\ Info < g.entries /\ Counted(g) /\ Counted(h)
  BY <1>1, Fields, SegmentAssumption DEF Sound, Laid
<1>3. h.slices[0] = g.slices[0] /\ h.slices[0].count = Info /\ ~IsFree(h, 0) /\ IsFree(h, Info)
  BY <1>1, <1>2 DEF Laid, IsFree
<1>4. \A j \in Heads(g) : h.slices[j].count = g.slices[j].count
  BY <1>1, <1>2, <1>3
<1>5. Tiles(h, Heads(g))
  BY <1>1, <1>2, <1>4 DEF Laid, Tiles
<1>6. Heads(h) = Heads(g)
  BY <1>2, <1>5, TilesHeads
<1>7. Pages(h) = {}
  BY <1>2, <1>3, <1>6 DEF Pages
<1>8. SpansFollow(h)
  <2>1. Follows(h, Info)
    <3>1. h.slices[Info].count > 0
      BY <1>2, <1>5 DEF Tiles
    <3> QED BY <1>1, <1>3, <3>1 DEF Follows
  <2>2. Follows(h, 0)
    <3>1. Follows(g, 0)
      BY <1>1, <1>2 DEF Sound, SpansFollow
    <3>2. WaysBack(h, 0) = WaysBack(g, 0) /\ ~IsFree(g, 0)
      BY <1>1, <1>3 DEF WaysBack, IsFree
    <3>3. ASSUME NEW j \in WaysBack(g, 0) PROVE First(h, j) = First(g, j)
      <4>1. j \in 0..Slices /\ j # i
        BY <1>2, <1>3, <3>2, SegmentAssumption DEF WaysBack, Span
      <4> QED BY <1>1, <4>1 DEF First
    <3> QED BY <1>1, <1>3, <3>1, <3>2, <3>3 DEF Follows
  <2> QED BY <1>2, <1>6, <2>1, <2>2 DEF SpansFollow
<1>9. PagesCounted(h)
  BY <1>1, <1>7, FS_EmptySet DEF PagesCounted
<1>10. MasksAgree(h)
  <2>1. SpanOf(h, 0) = SpanOf(g, 0)
    BY <1>3 DEF SpanOf
  <2> QED BY <1>1, <2>1 DEF MasksAgree, Sound
<1>11. Laid(h)
  BY <1>1, <1>2, <1>3, <1>5, <1>6, <1>7 DEF Laid
<1>12. SpansCoalesced(h)
  BY <1>1 DEF SpansCoalesced
<1>13. Info + g.slices[Info].count >= g.entries
  <2>1. Info \in Heads(g) /\ g.slices[Info].count \in Nat /\ g.slices[Info].count > 0
    BY <1>2 DEF Counted, Laid, Tiles
  <2>2. Info + g.slices[Info].count \notin Heads(g)
    BY <1>2, <2>1
  <2> QED BY <1>2, <2>1, <2>2 DEF Laid, Tiles
<1> QED BY <1>1, <1>2, <1>6, <1>7, <1>8, <1>9, <1>10, <1>11, <1>12, <1>13 DEF Sound

LEMMA ClearedIs ==
  ASSUME NEW s, NEW g, NEW x, NEW i, NEW late, NEW c, Clears(s, g, x, i, late, c)
  PROVE  Cleared(g, i, c) /\ Dequeues(s, x.q, g, i, c)
<1> DEFINE y == Unlisted(x, i)
           z == [g |-> y, q |-> x.q]
<1>1. /\ Sound(g) /\ i \in Pages(g) /\ i \notin g.live /\ Uncounted(g, x, i)
      /\ c = Coalesced(s, z, i, late)
  BY DEF Clears, PageClear, Unlisted
<1>2. /\ y \in SegmentState /\ y.kind = g.kind /\ y.entries = g.entries /\ y.owner = g.owner
      /\ y.total = g.total /\ y.live = g.live /\ y.heap = g.heap \ {i} /\ y.commit = g.commit
      /\ y.purge = g.purge /\ y.os = g.os /\ y.expire = g.expire
      /\ y.slices[i].count = g.slices[i].count
      /\ \A j \in 0..Slices : j # i => y.slices[j] = g.slices[j]
      /\ y.used = Cardinality(Pages(g) \ {i})
      /\ y.abandoned = Cardinality((Pages(g) \ {i}) \ (g.heap \ {i}))
  <2>1. Marked(g, i, Unlisted(x, i))
    BY <1>1, ClearMarks
  <2> QED BY <2>1 DEF Marked
<1>3. z.g = y /\ z.q = x.q
  OBVIOUS
<1> HIDE DEF y, z
<1>4. /\ i \in Heads(g) /\ i # 0 /\ ~IsFree(g, i) /\ Laid(g) /\ PagesCounted(g)
      /\ i \in Nat /\ Slices \in Nat /\ i <= Slices /\ g.slices[i].count \in Nat
      /\ g.heap \cup g.live \subseteq Pages(g) /\ g \in SegmentState
  <2>1. i \in Heads(g) /\ i # 0 /\ ~IsFree(g, i) /\ Laid(g) /\ PagesCounted(g)
    BY <1>1 DEF Pages, Sound
  <2>2. g \in SegmentState /\ i \in 0..(g.entries - 1)
    BY <2>1 DEF Laid, Tiles
  <2> QED BY <2>1, <2>2, Fields DEF PagesCounted
<1>5. CASE g.kind = "normal"
  <2>1. Normal(g) /\ i >= Info
    <3>1. Normal(g)
      BY <1>1, <1>5 DEF Normal, Sound
    <3> QED BY <1>4, <3>1, NormalHeads
  <2>2. Like(g, z.g, i)
    <3>1. \A j \in 0..Slices : j < i \/ j >= i + g.slices[i].count => y.slices[j] = g.slices[j]
      <4>1. g.slices[i].count > 0
        BY <1>4, <2>1, NormalHeads
      <4> QED BY <1>2, <1>4, <4>1
    <3> QED BY <1>2, <1>3, <3>1 DEF Like
  <2>3. MasksBut(g, z.g, i)
    BY <1>1, <1>2, <1>3, <1>5 DEF MasksBut, MasksFit, MasksAgree, Sound
  <2>4. Joins(s, z, g, i, late, c)
    BY <1>1, <1>4, <2>1, <2>2, <2>3 DEF Joins
  <2>5. Joined(s, z, g, i, c)
    BY <2>4, JoinedIs
  <2>6. SameRest(y, c.g) /\ Pages(c.g) = Pages(g) \ {i} /\ Normal(c.g) /\ MasksAgree(c.g)
    BY <1>3, <2>5 DEF Joined
  <2>7. /\ c.g.kind = g.kind /\ c.g.entries = g.entries /\ c.g.owner = g.owner
        /\ c.g.live = g.live /\ c.g.heap = g.heap \ {i}
        /\ c.g.used = y.used /\ c.g.abandoned = y.abandoned
    BY <1>2, <2>6 DEF SameRest
  <2>8. PagesCounted(c.g)
    BY <1>1, <1>2, <1>4, <2>6, <2>7 DEF PagesCounted
  <2>9. Sound(c.g)
    BY <2>6, <2>8 DEF Sound, Normal
  <2>10. Cleared(g, i, c)
    BY <2>5, <2>6, <2>7, <2>9 DEF Cleared, Joined
  <2>11. Dequeues(s, x.q, g, i, c)
    BY <1>2, <1>3, <1>5, <2>5 DEF Dequeues, Joined
  <2> QED BY <2>10, <2>11
<1>6. CASE g.kind = "huge"
  <2> DEFINE f == [y.slices EXCEPT ![i] = [y.slices[i] EXCEPT !.block = 0]]
             h == [y EXCEPT !.slices = f]
  <2>1. c.g = h /\ c.q = x.q /\ c.first = i
    BY <1>1, <1>2, <1>3, <1>6 DEF Coalesced
  <2>2. /\ f \in [0..Slices -> SliceState] /\ f[i].count = g.slices[i].count /\ f[i].block = 0
        /\ \A j \in 0..Slices : j # i => f[j] = g.slices[j]
    <3>1. y.slices \in [0..Slices -> SliceState] /\ y.slices[i] \in SliceState /\ i \in 0..Slices
      BY <1>2, <1>4 DEF SegmentState
    <3>2. [y.slices[i] EXCEPT !.block = 0] \in SliceState
          /\ [y.slices[i] EXCEPT !.block = 0].count = y.slices[i].count
          /\ [y.slices[i] EXCEPT !.block = 0].block = 0
      BY <3>1 DEF SliceState
    <3> QED BY <1>2, <3>1, <3>2
  <2> HIDE DEF f
  <2>3. OnlySlices(y, h) /\ h.slices = f
    BY <1>2, <2>2, SlicesFields
  <2> HIDE DEF h
  <2>4. Heads(g) = {0, Info} /\ i = Info /\ Pages(g) = {i}
    <3>1. Heads(g) = {0, Info}
      BY <1>4, <1>6 DEF Laid
    <3> QED BY <1>1, <1>4, <3>1 DEF Pages
  <2>5. g.heap \ {i} = {} /\ g.live = {} /\ Pages(g) \ {i} = {}
    BY <1>1, <1>4, <2>4
  <2>6. y.used = 0 /\ y.abandoned = 0
    BY <1>2, <2>5, FS_EmptySet
  <2>7. HugeMarks(g, h, i)
    BY <1>1, <1>2, <1>4, <1>6, <2>2, <2>3, <2>5, <2>6 DEF HugeMarks, OnlySlices, SameRest
  <2>8. Sound(h) /\ Heads(h) = Heads(g) /\ Pages(h) = {}
    BY <2>7, HugeMarked
  <2>9. Cleared(g, i, c)
    <3>1. h.slices[i].count = g.slices[i].count /\ Info \in Nat
      BY <2>2, <2>3, SegmentAssumption
    <3>2. /\ h.kind = g.kind /\ h.entries = g.entries /\ h.owner = g.owner
          /\ h.live = g.live /\ h.heap = g.heap \ {i}
      BY <1>2, <2>3 DEF OnlySlices, SameRest
    <3> QED BY <1>4, <2>1, <2>4, <2>5, <2>8, <3>1, <3>2 DEF Cleared
  <2> QED BY <1>6, <2>1, <2>9 DEF Dequeues
<1>7. g.kind = "normal" \/ g.kind = "huge"
  BY <1>4 DEF Laid, SegmentState
<1> QED BY <1>5, <1>6, <1>7

-----------------------------------------------------------------------------
(* A span that becomes a page.                                             *)

\* h is w after alloc_hook_segment_span_allocate of n slices from i.
Allocating(w, i, n, h) ==
  /\ h = SpanAllocated(w, i, n)
  /\ w \in SegmentState /\ i \in Nat /\ i < w.entries /\ n \in Nat /\ n > 0

\* All but the slices and the number of pages.
OneMore(w, h) ==
  /\ h \in SegmentState /\ h.kind = w.kind /\ h.entries = w.entries /\ h.total = w.total
  /\ h.owner = w.owner /\ h.used = w.used + 1 /\ h.abandoned = w.abandoned
  /\ h.live = w.live /\ h.heap = w.heap /\ h.commit = w.commit /\ h.purge = w.purge
  /\ h.expire = w.expire /\ h.os = w.os

\* The slices that lead back from inside the span lead to i; those outside are as before.
Allocated(w, i, n, h) ==
  /\ OneMore(w, h)
  /\ h.slices[i].count = n /\ ~IsFree(h, i) /\ \A j \in WaysBack(h, i) : First(h, j) = i
  /\ \A j \in 0..Slices : j < i \/ j >= i + n => h.slices[j] = w.slices[j]

LEMMA AllocatedIs ==
  ASSUME NEW w, NEW i, NEW n, NEW h, Allocating(w, i, n, h)
  PROVE  Allocated(w, i, n, h)
<1> DEFINE P(k) == k <= n - 1 /\ i + k < w.entries
                     /\ (k = n - 1 \/ k = MaxOffset \/ i + k + 1 = w.entries)
           extra == CHOOSE k \in 0..MaxOffset : P(k)
           last == IF i + n - 1 > w.entries THEN w.entries ELSE i + n - 1
           f == [j \in 0..Slices |->
                      IF j = i THEN [count |-> n, offset |-> 0, block |-> 2]
                      ELSE IF j \in Span(i + 1, extra) \cup {last}
                        THEN [count |-> 0, offset |-> j - i, block |-> 1]
                      ELSE w.slices[j]]
           r == [w EXCEPT !.used = w.used + 1, !.slices = f]
<1>1. /\ h = SpanAllocated(w, i, n)
      /\ w \in SegmentState /\ i \in Nat /\ i < w.entries /\ n \in Nat /\ n > 0
  BY DEF Allocating
<1>2. /\ w.entries \in Nat /\ w.entries <= Slices /\ Slices \in Nat /\ MaxOffset \in Nat
      /\ w.used \in Nat /\ \A j \in 0..Slices : w.slices[j] \in SliceState
  BY <1>1, Fields, SegmentAssumption
<1>3. h = r
  BY <1>1 DEF SpanAllocated
<1>4. extra \in 0..MaxOffset /\ P(extra)
  <2>1. \E k \in 0..MaxOffset : P(k)
    <3>1. CASE n - 1 <= MaxOffset /\ i + n <= w.entries
      <4>1. n - 1 \in 0..MaxOffset /\ P(n - 1)
        BY <1>1, <1>2, <3>1
      <4> QED BY <4>1
    <3>2. CASE MaxOffset <= n - 1 /\ i + MaxOffset < w.entries
      <4>1. MaxOffset \in 0..MaxOffset /\ P(MaxOffset)
        BY <1>1, <1>2, <3>2
      <4> QED BY <4>1
    <3>3. CASE w.entries - i - 1 <= n - 1 /\ w.entries - i - 1 <= MaxOffset
      <4>1. w.entries - i - 1 \in 0..MaxOffset /\ P(w.entries - i - 1)
        BY <1>1, <1>2, <3>3
      <4> QED BY <4>1
    <3> QED BY <1>1, <1>2, <3>1, <3>2, <3>3
  <2> HIDE DEF P
  <2> QED BY <2>1
<1> HIDE DEF extra
<1>5. extra \in Nat /\ last \in Nat /\ i <= last /\ last <= Slices /\ last < i + n /\ i + extra < i + n
      /\ i + extra < Slices
  BY <1>1, <1>2, <1>4
<1>6. f \in [0..Slices -> SliceState]
  <2>1. ASSUME NEW j \in 0..Slices PROVE f[j] \in SliceState
    <3>1. CASE j = i
      BY <1>1, <1>2, <3>1 DEF SliceState
    <3>2. CASE j # i /\ j \in Span(i + 1, extra) \cup {last}
      <4>1. j - i \in 0..Slices
        BY <1>1, <1>2, <1>5, <3>2 DEF Span
      <4>2. [count |-> 0, offset |-> j - i, block |-> 1] \in SliceState
        BY <4>1 DEF SliceState
      <4>3. f[j] = [count |-> 0, offset |-> j - i, block |-> 1]
        BY <3>2
      <4> HIDE DEF f
      <4> QED BY <4>2, <4>3
    <3>3. CASE j # i /\ j \notin Span(i + 1, extra) \cup {last}
      BY <1>2, <3>3
    <3> QED BY <3>1, <3>2, <3>3
  <2> QED BY <2>1
<1>7. f[i].count = n /\ f[i].block = 2 /\ f[i].offset = 0
  BY <1>1, <1>2
<1>8. \A j \in 0..Slices : j # i /\ j \in Span(i + 1, extra) \cup {last} => f[j].offset = j - i
  OBVIOUS
<1>9. \A j \in 0..Slices : j < i \/ j >= i + n => f[j] = w.slices[j]
  <2> TAKE j \in 0..Slices
  <2> HAVE j < i \/ j >= i + n
  <2>1. j # i /\ j \notin Span(i + 1, extra) \cup {last}
    BY <1>1, <1>2, <1>5 DEF Span
  <2> QED BY <2>1
<1> HIDE DEF f
<1>10. OneMore(w, r) /\ r.slices = f
  <2> DEFINE v == [w EXCEPT !.used = w.used + 1]
  <2>1. /\ v \in SegmentState /\ v.kind = w.kind /\ v.entries = w.entries /\ v.total = w.total
        /\ v.owner = w.owner /\ v.used = w.used + 1 /\ v.abandoned = w.abandoned
        /\ v.live = w.live /\ v.heap = w.heap /\ v.commit = w.commit /\ v.purge = w.purge
        /\ v.expire = w.expire /\ v.os = w.os
    <3>1. w \in SegmentState /\ w.used + 1 \in Nat
      BY <1>1, <1>2
    <3> QED BY <3>1 DEF SegmentState
  <2>2. r = [v EXCEPT !.slices = f]
    OBVIOUS
  <2> HIDE DEF v, r
  <2>3. OnlySlices(v, r) /\ r.slices = f
    BY <1>6, <2>1, <2>2, SlicesFields
  <2> QED BY <2>1, <2>3 DEF OneMore, OnlySlices, SameRest
<1> HIDE DEF r
<1>11. ASSUME NEW j \in WaysBack(h, i) PROVE First(h, j) = i
  <2>1. /\ ~IsFree(h, i) /\ h.slices[i].count = n /\ h.entries = w.entries
    BY <1>3, <1>7, <1>10 DEF IsFree, OneMore
  <2>2. /\ j \in Span(i, MaxOffset + 1) \cup {i + n - 1} /\ j <= i + n - 1 /\ j < w.entries
    BY <2>1 DEF WaysBack
  <2>3. j \in 0..Slices /\ i <= j
    BY <1>1, <1>2, <2>2 DEF Span
  <2>4. CASE j = i
    BY <1>1, <1>3, <1>7, <1>10, <2>4 DEF First
  <2>5. CASE j # i
    <3>1. j \in Span(i + 1, extra) \cup {last}
      BY <1>1, <1>2, <1>4, <2>2, <2>3, <2>5 DEF Span
    <3>2. h.slices[j].offset = j - i
      BY <1>3, <1>8, <1>10, <2>3, <2>5, <3>1
    <3> QED BY <1>1, <2>3, <3>2 DEF First
  <2> QED BY <2>4, <2>5
<1>12. ~IsFree(h, i)
  BY <1>3, <1>7, <1>10 DEF IsFree
<1> QED BY <1>3, <1>7, <1>9, <1>10, <1>11, <1>12 DEF Allocated

\* A free span is taken from its queue and cut.
Splits(s, x, i, n, y) ==
  /\ y = Split(s, Dequeued(s, x, i), i, n)
  /\ x.g \in SegmentState /\ x.g.owner # NoThread /\ i \in Nat /\ n \in Nat /\ n > 0
  /\ x.g.slices[i].count \in Nat /\ n <= x.g.slices[i].count /\ i + x.g.slices[i].count <= Slices

\* n slices from i, and a free span of the rest, in the queue if there is any.
IsSplit(s, x, i, n, y) ==
  LET m == x.g.slices[i].count
  IN  /\ OnlySlices(x.g, y.g) /\ y.g.slices[i].count = n
      /\ n < m => /\ y.g.slices[i + n].count = m - n /\ IsFree(y.g, i + n)
                  /\ First(y.g, i + m - 1) = i + n
      /\ \A j \in 0..Slices : j < i \/ j >= i + m => y.g.slices[j] = x.g.slices[j]
      /\ y.q = (x.q \ {Entry(s, x.g, i)}) \cup {e \in {<<Bin(m - n), s, i + n>>} : n < m}

LEMMA SplitIs ==
  ASSUME NEW s, NEW x, NEW i, NEW n, NEW y, Splits(s, x, i, n, y)
  PROVE  IsSplit(s, x, i, n, y)
<1> DEFINE m == x.g.slices[i].count
           d == Dequeued(s, x, i)
           f == [x.g.slices EXCEPT ![i] = [x.g.slices[i] EXCEPT !.block = 1]]
           h == [x.g EXCEPT !.slices = f]
<1>1. /\ y = Split(s, d, i, n)
      /\ x.g \in SegmentState /\ x.g.owner # NoThread /\ i \in Nat /\ n \in Nat /\ n > 0
      /\ m \in Nat /\ n <= m /\ i + m <= Slices /\ Slices \in Nat
      /\ i \in 0..Slices /\ x.g.slices \in [0..Slices -> SliceState]
  BY SegmentAssumption DEF Splits, SegmentState
<1>2. f \in [0..Slices -> SliceState] /\ f[i].count = m
      /\ \A j \in 0..Slices : j # i => f[j] = x.g.slices[j]
  <2>1. x.g.slices[i] \in SliceState
    BY <1>1
  <2>2. [x.g.slices[i] EXCEPT !.block = 1] \in SliceState
        /\ [x.g.slices[i] EXCEPT !.block = 1].count = m
    BY <2>1 DEF SliceState
  <2> QED BY <1>1, <2>2
<1>3. d.g = h /\ d.q = x.q \ {Entry(s, x.g, i)}
  BY DEF Dequeued
<1> HIDE DEF d, f
<1>4. OnlySlices(x.g, h) /\ h.slices = f
  BY <1>1, <1>2, SlicesFields
<1> HIDE DEF h
<1>5. /\ OnlySlices(x.g, d.g) /\ d.g \in SegmentState /\ d.g.slices[i].count = m
      /\ \A j \in 0..Slices : j # i => d.g.slices[j] = x.g.slices[j]
      /\ d.g.owner # NoThread
  BY <1>1, <1>2, <1>3, <1>4 DEF OnlySlices, SameRest
<1>6. CASE n = m
  <2>1. y = d
    BY <1>1, <1>5, <1>6 DEF Split
  <2>2. \A j \in 0..Slices : j < i \/ j >= i + m => y.g.slices[j] = x.g.slices[j]
    BY <1>1, <1>5, <1>6, <2>1
  <2>3. {e \in {<<Bin(m - n), s, i + n>>} : n < m} = {} /\ ~(n < m)
    BY <1>1, <1>6
  <2> QED BY <1>3, <1>5, <1>6, <2>1, <2>2, <2>3 DEF IsSplit
<1>7. CASE n < m
  <2> DEFINE z == SpanFree(s, d, i + n, m - n)
             f2 == [z.g.slices EXCEPT ![i] = [z.g.slices[i] EXCEPT !.count = n]]
             h2 == [z.g EXCEPT !.slices = f2]
  <2>1. i + n \in Nat /\ m - n \in Nat /\ m - n > 0 /\ i + n + (m - n) - 1 <= Slices
        /\ i + n + (m - n) - 1 = i + m - 1 /\ m # n
    <3> HIDE DEF m
    <3> QED BY <1>1, <1>7
  <2>2. Freed(s, d, i + n, m - n, z)
    <3>1. Frees(s, d, i + n, m - n, z)
      BY <1>5, <2>1 DEF Frees
    <3> HIDE DEF z
    <3> QED BY <3>1, SpanFreeIs
  <2>3. y.g = h2 /\ y.q = z.q
    BY <1>1, <1>5, <2>1 DEF Split
  <2> HIDE DEF z, m
  <2>4. /\ OnlySlices(d.g, z.g) /\ z.g.slices[i + n] = [count |-> m - n, offset |-> 0, block |-> 0]
        /\ m - n > 1 => z.g.slices[i + m - 1].offset = m - n - 1
        /\ \A j \in 0..Slices : j # i + n /\ j # i + m - 1 => z.g.slices[j] = d.g.slices[j]
        /\ z.q = d.q \cup {<<Bin(m - n), s, i + n>>}
    BY <1>5, <2>1, <2>2 DEF Freed
  <2>5. /\ f2 \in [0..Slices -> SliceState] /\ f2[i].count = n
        /\ \A j \in 0..Slices : j # i => f2[j] = z.g.slices[j]
    <3>1. z.g.slices \in [0..Slices -> SliceState] /\ z.g.slices[i] \in SliceState
      BY <1>1, <2>4 DEF OnlySlices, SameRest, SegmentState
    <3>2. [z.g.slices[i] EXCEPT !.count = n] \in SliceState
          /\ [z.g.slices[i] EXCEPT !.count = n].count = n
      BY <1>1, <3>1 DEF SliceState
    <3> QED BY <1>1, <3>1, <3>2
  <2> HIDE DEF f2
  <2>6. OnlySlices(z.g, h2) /\ h2.slices = f2
    BY <2>4, <2>5, SlicesFields DEF OnlySlices, SameRest
  <2> HIDE DEF h2
  <2>7. OnlySlices(x.g, y.g)
    BY <1>5, <2>3, <2>4, <2>6 DEF OnlySlices, SameRest
  <2>8. y.g.slices[i].count = n
    BY <2>3, <2>5, <2>6
  <2>9. y.g.slices[i + n] = z.g.slices[i + n] /\ y.g.slices[i + m - 1] = z.g.slices[i + m - 1]
    <3>1. i + n \in 0..Slices /\ i + n # i /\ i + m - 1 \in 0..Slices /\ i + m - 1 # i
      BY <1>1, <1>7
    <3> QED BY <2>3, <2>5, <2>6, <3>1
  <2>10. y.g.slices[i + n].count = m - n /\ IsFree(y.g, i + n)
    BY <2>4, <2>9 DEF IsFree
  <2>11. First(y.g, i + m - 1) = i + n
    <3>1. CASE m - n > 1
      <4>1. y.g.slices[i + m - 1].offset = m - n - 1
        BY <2>4, <2>9, <3>1
      <4> QED BY <1>1, <1>7, <4>1 DEF First
    <3>2. CASE m - n = 1
      <4>1. i + m - 1 = i + n /\ y.g.slices[i + n].offset = 0
        BY <1>1, <2>4, <2>9, <3>2
      <4> QED BY <1>1, <4>1 DEF First
    <3> QED BY <1>1, <2>1, <3>1, <3>2
  <2>12. \A j \in 0..Slices : j < i \/ j >= i + m => y.g.slices[j] = x.g.slices[j]
    <3> TAKE j \in 0..Slices
    <3> HAVE j < i \/ j >= i + m
    <3>1. j # i /\ j # i + n /\ j # i + m - 1
      BY <1>1, <1>7
    <3> QED BY <1>5, <2>3, <2>4, <2>5, <2>6, <3>1
  <2>13. y.q = (x.q \ {Entry(s, x.g, i)}) \cup {e \in {<<Bin(m - n), s, i + n>>} : n < m}
    BY <1>3, <1>7, <2>3, <2>4
  <2> QED BY <2>7, <2>8, <2>10, <2>11, <2>12, <2>13 DEF IsSplit, m
<1> QED BY <1>1, <1>6, <1>7

\* w is what Split leaves, maybe with other masks.
Takes(s, g, x, i, n, y, w, h) ==
  /\ x.g = g /\ Normal(g) /\ g.owner # NoThread /\ i \in Heads(g) /\ IsFree(g, i)
  /\ n \in Counts /\ n <= g.slices[i].count
  /\ y = Split(s, Dequeued(s, x, i), i, n) /\ h = SpanAllocated(w, i, n)
  /\ y.g \in SegmentState => OnlyMasks(y.g, w)

\* One page more, at i; the entry of the span it was cut from gives way to that of the
\* rest, both in the queue and in the segment.
Taken(s, g, x, i, n, y, w, h) ==
  /\ Normal(h) /\ Pages(h) = Pages(g) \cup {i} /\ i \notin Pages(g) /\ i \in Heads(h) /\ i >= Info
  /\ \A j \in Heads(g) \ {i} : h.slices[j] = g.slices[j]
  /\ OneMore(w, h) /\ OnlySlices(g, y.g) /\ Like(h, y.g, i)
  /\ h.slices[i].count = n /\ ~IsFree(h, i) /\ Span(i, n) \subseteq Slice
  /\ \E R \in SUBSET Entries(s, h) :
       /\ y.q = (x.q \ {Entry(s, g, i)}) \cup R
       /\ Entries(s, h) = (Entries(s, g) \ {Entry(s, g, i)}) \cup R

LEMMA TakenIs ==
  ASSUME NEW s, NEW g, NEW x, NEW i, NEW n, NEW y, NEW w, NEW h, Takes(s, g, x, i, n, y, w, h)
  PROVE  Taken(s, g, x, i, n, y, w, h)
<1> DEFINE m == g.slices[i].count
<1>1. /\ x.g = g /\ Normal(g) /\ g.owner # NoThread /\ i \in Heads(g) /\ IsFree(g, i)
      /\ n \in Counts /\ n <= m
      /\ y = Split(s, Dequeued(s, x, i), i, n) /\ h = SpanAllocated(w, i, n)
      /\ y.g \in SegmentState => OnlyMasks(y.g, w)
  BY DEF Takes
<1>2. /\ i \in Nat /\ i < Slices /\ m \in Nat /\ m > 0 /\ i + m <= Slices /\ Slices \in Nat
      /\ g.entries = Slices /\ g \in SegmentState /\ n \in Nat /\ n > 0 /\ g.kind = "normal"
      /\ \A j \in Heads(g) : j \in Nat /\ j < Slices /\ (j <= i \/ j >= i + m)
  BY <1>1, NormalHeads, SegmentAssumption DEF Normal
<1>3. IsSplit(s, x, i, n, y)
  <2>1. Splits(s, x, i, n, y)
    BY <1>1, <1>2 DEF Splits
  <2> QED BY <2>1, SplitIs
<1>4. /\ OnlySlices(g, y.g) /\ y.g.slices[i].count = n
      /\ n < m => /\ y.g.slices[i + n].count = m - n /\ IsFree(y.g, i + n)
                  /\ First(y.g, i + m - 1) = i + n
      /\ \A j \in 0..Slices : j < i \/ j >= i + m => y.g.slices[j] = g.slices[j]
      /\ y.q = (x.q \ {Entry(s, g, i)}) \cup {e \in {<<Bin(m - n), s, i + n>>} : n < m}
  BY <1>1, <1>3 DEF IsSplit
<1> HIDE DEF m
<1>5. w \in SegmentState /\ w.slices = y.g.slices /\ w.entries = Slices /\ w.kind = "normal"
  BY <1>1, <1>2, <1>4 DEF OnlyMasks, OnlySlices, SameRest
<1>6. Allocated(w, i, n, h)
  <2>1. Allocating(w, i, n, h)
    BY <1>1, <1>2, <1>5 DEF Allocating
  <2> QED BY <2>1, AllocatedIs
<1>7. /\ OneMore(w, h) /\ h.slices[i].count = n /\ ~IsFree(h, i)
      /\ \A j \in WaysBack(h, i) : First(h, j) = i
      /\ \A j \in 0..Slices : j < i \/ j >= i + n => h.slices[j] = y.g.slices[j]
  BY <1>5, <1>6 DEF Allocated
<1>8. h \in SegmentState /\ h.kind = "normal" /\ h.entries = Slices
  BY <1>5, <1>7 DEF OneMore
<1>9. n < m => h.slices[i + n] = y.g.slices[i + n] /\ h.slices[i + m - 1] = y.g.slices[i + m - 1]
  <2>1. n < m => /\ i + n \in 0..Slices /\ i + n >= i + n
                 /\ i + m - 1 \in 0..Slices /\ i + m - 1 >= i + n
    BY <1>2
  <2> QED BY <1>7, <2>1
<1>10. n < m => /\ h.slices[i + n].count = m - n /\ h.slices[i + n].block = 0
                /\ First(h, i + m - 1) = i + n
  BY <1>4, <1>9 DEF IsFree, First
<1>11. \A j \in 0..Slices : j < i \/ j >= i + m => h.slices[j] = g.slices[j]
  <2> TAKE j \in 0..Slices
  <2> HAVE j < i \/ j >= i + m
  <2>1. j < i \/ j >= i + n
    BY <1>1, <1>2
  <2> QED BY <1>4, <1>7, <2>1
<1>12. Cuts(g, i, n, h)
  BY <1>1, <1>2, <1>7, <1>8, <1>10, <1>11 DEF Cuts, m
<1>13. /\ Normal(h) /\ Heads(h) = Heads(g) \cup {j \in {i + n} : n < m}
       /\ \A j \in Heads(g) \ {i} : h.slices[j] = g.slices[j]
       /\ Pages(h) = Pages(g) \cup {i} /\ i \notin Pages(g) /\ i >= Info
  BY <1>12, Cut DEF m
<1>14. Like(h, y.g, i)
  <2>1. y.g \in SegmentState /\ y.g.kind = "normal" /\ y.g.entries = Slices
    BY <1>2, <1>4 DEF OnlySlices, SameRest
  <2> QED BY <1>4, <1>7, <1>8, <2>1 DEF Like
<1>15. Span(i, n) \subseteq Slice
  BY <1>1, <1>2 DEF Span, Slice
<1> DEFINE R == {e \in {<<Bin(m - n), s, i + n>>} : n < m}
<1>16. Entries(s, h) = (Entries(s, g) \ {Entry(s, g, i)}) \cup R
  <2>1. \A j \in Heads(g) \ {i} : Entry(s, h, j) = Entry(s, g, j) /\ (IsFree(h, j) <=> IsFree(g, j))
    BY <1>13 DEF Entry, IsFree
  <2>2. n < m => IsFree(h, i + n) /\ Entry(s, h, i + n) = <<Bin(m - n), s, i + n>>
    BY <1>10 DEF IsFree, Entry
  <2>3. \A j, k : Entry(s, g, j) = Entry(s, g, k) => j = k
    BY DEF Entry
  <2>4. n < m => i + n \notin Heads(g)
    BY <1>2
  <2>5. ASSUME NEW e
        PROVE  e \in Entries(s, h) <=> (e \in Entries(s, g) /\ e # Entry(s, g, i)) \/ e \in R
    <3>1. e \in Entries(s, h) <=> \E j \in Heads(h) : IsFree(h, j) /\ e = Entry(s, h, j)
      BY DEF Entries
    <3>2. e \in Entries(s, g) <=> \E j \in Heads(g) : IsFree(g, j) /\ e = Entry(s, g, j)
      BY DEF Entries
    <3>3. e \in R <=> n < m /\ e = Entry(s, h, i + n)
      BY <2>2
    <3> HIDE DEF R
    <3>4. e \in Entries(s, h) <=>
            (\E j \in Heads(g) \ {i} : IsFree(g, j) /\ e = Entry(s, g, j)) \/ e \in R
      BY <1>7, <1>13, <2>1, <2>2, <3>1, <3>3
    <3> QED BY <2>3, <3>2, <3>4
  <2> HIDE DEF R
  <2> QED BY <2>5
<1>17. R \in SUBSET Entries(s, h) /\ y.q = (x.q \ {Entry(s, g, i)}) \cup R
  BY <1>4, <1>16
<1>18. i \in Heads(h)
  BY <1>1, <1>13
<1> HIDE DEF R
<1>19. \E r \in SUBSET Entries(s, h) :
         /\ y.q = (x.q \ {Entry(s, g, i)}) \cup r
         /\ Entries(s, h) = (Entries(s, g) \ {Entry(s, g, i)}) \cup r
  BY <1>16, <1>17
<1> QED BY <1>4, <1>7, <1>13, <1>14, <1>15, <1>18, <1>19 DEF Taken

-----------------------------------------------------------------------------
(* The queues.                                                             *)

\* A thread's spans in segment s; they become those of E.
Of(q, s) == {e \in q : e[2] = s}
Exchanged(s, q, r, E) == Of(r, s) = E /\ \A e : e[2] # s => (e \in r <=> e \in q)

LEMMA EntriesOf ==
  ASSUME NEW s, NEW g
  PROVE  \A e \in Entries(s, g) : e[2] = s
BY DEF Entries, Entry

\* The queues are exact after Coalesced, if they were before.
LEMMA QueuesWhole ==
  ASSUME NEW s, NEW q, NEW g, NEW i, NEW c,
         Of(q, s) = Entries(s, g) /\ ~IsFree(g, i) /\ g.owner # NoThread /\ g.kind = "normal"
           /\ Dequeues(s, q, g, i, c)
  PROVE  Exchanged(s, q, c.q, Entries(s, c.g))
<1>1. /\ c.q = (q \ Gone(s, g, i)) \cup {Entry(s, c.g, c.first)}
      /\ Entries(s, c.g) =
            (Entries(s, g) \ (Gone(s, g, i) \cup {Entry(s, g, i)})) \cup {Entry(s, c.g, c.first)}
  BY DEF Dequeues
<1>2. \A e \in Gone(s, g, i) : e[2] = s
  BY DEF Gone, Entry
<1>3. Entry(s, g, i) \notin Entries(s, g) /\ Entry(s, c.g, c.first)[2] = s
  BY DEF Entries, Entry
<1> QED BY <1>1, <1>2, <1>3 DEF Exchanged, Of

\* While a walk reclaims, at i, the segment: they are up to where it will be.
LEMMA QueuesPart ==
  ASSUME NEW s, NEW q, NEW g, NEW i, NEW c, NEW b,
         /\ Of(q, s) = {e \in Entries(s, g) : e[3] < i}
         /\ g.owner # NoThread /\ g.kind = "normal" /\ Dequeues(s, q, g, i, c)
         /\ Normal(c.g) /\ c.first \in Heads(c.g) /\ c.first <= i /\ i < b /\ i \in Nat
         /\ b = c.first + c.g.slices[c.first].count
  PROVE  Exchanged(s, q, c.q, {e \in Entries(s, c.g) : e[3] < b})
<1>1. /\ c.q = (q \ Gone(s, g, i)) \cup {Entry(s, c.g, c.first)}
      /\ Entries(s, c.g) =
            (Entries(s, g) \ (Gone(s, g, i) \cup {Entry(s, g, i)})) \cup {Entry(s, c.g, c.first)}
  BY DEF Dequeues
<1>2. \A e \in Gone(s, g, i) : e[2] = s
  BY DEF Gone, Entry
<1>3. Entry(s, g, i)[3] = i /\ Entry(s, c.g, c.first)[2] = s /\ Entry(s, c.g, c.first)[3] = c.first
  BY DEF Entry
<1>4. c.first \in Nat /\ b \in Nat
  BY NormalHeads
<1>5. ASSUME NEW e \in Entries(s, c.g) PROVE e[3] \in Nat /\ (e[3] < b <=> e[3] <= c.first)
  <2>1. e[3] \in Heads(c.g)
    BY DEF Entries, Entry
  <2> QED BY <1>4, <2>1, NormalHeads
<1>6. ASSUME NEW e \in Entries(s, c.g), e # Entry(s, c.g, c.first) PROVE e[3] # c.first
  BY <1>6 DEF Entries, Entry
<1>7. ASSUME NEW e \in Entries(s, c.g), e # Entry(s, c.g, c.first)
      PROVE  e \in Entries(s, g) /\ e \notin Gone(s, g, i) /\ (e[3] < b <=> e[3] < i)
  <2>1. e \in Entries(s, g) /\ e \notin Gone(s, g, i) /\ e # Entry(s, g, i)
    BY <1>1, <1>7
  <2>2. e[3] # i
    BY <2>1 DEF Entries, Entry
  <2>3. c.first <= i /\ i < b /\ e[3] \in Nat /\ (e[3] < b <=> e[3] < c.first)
    BY <1>4, <1>5, <1>6, <1>7
  <2> QED BY <1>4, <2>1, <2>2, <2>3
<1>8. ASSUME NEW e PROVE e \in Of(c.q, s) <=> e \in Entries(s, c.g) /\ e[3] < b
  <2>1. CASE e = Entry(s, c.g, c.first)
    <3>1. c.first < b
      BY <1>4
    <3> QED BY <1>1, <1>3, <2>1, <3>1 DEF Of
  <2>2. CASE e # Entry(s, c.g, c.first)
    <3>1. e \in Of(c.q, s) <=> e \in Entries(s, g) /\ e[3] < i /\ e \notin Gone(s, g, i)
      BY <1>1, <2>2 DEF Of
    <3>2. e \in Entries(s, g) /\ e[3] < i => e # Entry(s, g, i)
      BY <1>3
    <3>3. e \in Entries(s, c.g) <=> e \in Entries(s, g) /\ e \notin Gone(s, g, i) /\ e # Entry(s, g, i)
      BY <1>1, <2>2
    <3> QED BY <1>7, <2>2, <3>1, <3>2, <3>3
  <2> QED BY <2>1, <2>2
<1>9. \A e : e[2] # s => (e \in c.q <=> e \in q)
  BY <1>1, <1>2, <1>3
<1> QED BY <1>8, <1>9 DEF Exchanged

-----------------------------------------------------------------------------
(* The page that a search makes, or the span that it leaves.               *)

LEMMA TryPurgedSound ==
  ASSUME NEW g, Sound(g)
  PROVE  Sound(TryPurged(g)) /\ OnlyMasks(g, TryPurged(g)) /\ SameSpans(g, TryPurged(g))
<1>1. g \in SegmentState /\ Laid(g)
  BY DEF Sound, Laid
<1>2. OnlyMasks(g, TryPurged(g)) /\ MasksKept(g, TryPurged(g), {})
  BY <1>1, TryPurgedKeeps
<1> DEFINE h == TryPurged(g)
<1> HIDE DEF h
<1>3. Alike(g, h)
  BY <1>1, <1>2 DEF Alike, OnlyMasks, SameRest, h
<1>4. SameSpans(g, h)
  BY <1>3, AlikeSpans
<1>5. PagesCounted(h)
  BY <1>2, <1>4 DEF PagesCounted, Sound, SameSpans, OnlyMasks, SameRest, h
<1>6. Sound(h)
  BY <1>2, <1>3, <1>5, SoundStays DEF h
<1> QED BY <1>2, <1>4, <1>6 DEF h

\* w is g with the slices of m committed, and no purge waits for them.
Secured(g, m, w) ==
  OnlyMasks(g, w) /\ (MasksFit(g) => MasksFit(w))
    /\ (g.commit \ g.purge) \cup m \subseteq w.commit \ w.purge

LEMMA CommittedIs ==
  ASSUME NEW g \in SegmentState, NEW m \in SUBSET Slice
  PROVE  Secured(g, m, Committed(g, m))
<1> DEFINE e == g.expire \/ g.purge \cap m # {}
           h == [g EXCEPT !.commit = g.commit \cup m, !.os = g.os \cup m, !.purge = g.purge \ m,
                          !.expire = e]
<1>1. Committed(g, m) = h
  BY DEF Committed
<1>2. /\ e \in BOOLEAN /\ g.commit \cup m \in SUBSET Slice /\ g.os \cup m \in SUBSET Slice
      /\ g.purge \ m \in SUBSET Slice /\ (g.expire => e)
  BY DEF SegmentState
<1> HIDE DEF e
<1>3. /\ OnlyMasks(g, h) /\ h.commit = g.commit \cup m /\ h.os = g.os \cup m
      /\ h.purge = g.purge \ m /\ h.expire = e
  BY <1>2 DEF SegmentState, OnlyMasks, SameRest
<1> HIDE DEF h
<1> QED BY <1>1, <1>2, <1>3 DEF Secured, MasksFit

\* h is the segment after a search found the span at i, took n slices of it, committed
\* them and purged if that was due; then what is so of it.
Makes(s, g, x, i, n, due, y, w, a, h) ==
  /\ Sound(g) /\ Takes(s, g, x, i, n, y, w, a) /\ Of(x.q, s) = Entries(s, g)
  /\ w = Committed(y.g, Span(i, n))
  /\ LET b == [a EXCEPT !.live = @ \cup {i}, !.heap = @ \cup {i}]
     IN  h = IF due THEN TryPurged(b) ELSE b

Made(s, g, x, i, n, y, h) ==
  /\ Sound(h) /\ h.kind = g.kind /\ h.entries = g.entries /\ h.owner = g.owner
  /\ h.live = g.live \cup {i} /\ h.heap = g.heap \cup {i} /\ Pages(h) = Pages(g) \cup {i}
  /\ i \notin Pages(g) /\ \A j \in Pages(g) : h.slices[j] = g.slices[j]
  /\ h.slices[i].count = n /\ i >= Info /\ i \in Heads(h)
  /\ Exchanged(s, x.q, y.q, Entries(s, h))

LEMMA MadeIs ==
  ASSUME NEW s, NEW g, NEW x, NEW i, NEW n, NEW due, NEW y, NEW w, NEW a, NEW h,
         Makes(s, g, x, i, n, due, y, w, a, h)
  PROVE  Made(s, g, x, i, n, y, h)
<1> DEFINE b == [a EXCEPT !.live = a.live \cup {i}, !.heap = a.heap \cup {i}]
<1>1. /\ Sound(g) /\ Takes(s, g, x, i, n, y, w, a) /\ Of(x.q, s) = Entries(s, g)
      /\ w = Committed(y.g, Span(i, n)) /\ h = IF due THEN TryPurged(b) ELSE b
  BY DEF Makes
<1>2. Taken(s, g, x, i, n, y, w, a)
  BY <1>1, TakenIs
<1>3. /\ Normal(a) /\ Pages(a) = Pages(g) \cup {i} /\ i \notin Pages(g) /\ i \in Heads(a) /\ i >= Info
      /\ \A j \in Heads(g) \ {i} : a.slices[j] = g.slices[j]
      /\ OneMore(w, a) /\ OnlySlices(g, y.g)
      /\ a.slices[i].count = n /\ ~IsFree(a, i) /\ Span(i, n) \subseteq Slice
  BY <1>2 DEF Taken
<1>4. Secured(y.g, Span(i, n), w)
  BY <1>1, <1>3, CommittedIs DEF OnlySlices, SameRest
<1>5. /\ a.kind = g.kind /\ a.entries = g.entries /\ a.owner = g.owner /\ a.used = g.used + 1
      /\ a.abandoned = g.abandoned /\ a.live = g.live /\ a.heap = g.heap /\ a \in SegmentState
      /\ a.commit = w.commit /\ a.purge = w.purge /\ a.os = w.os /\ a.expire = w.expire
  BY <1>3, <1>4 DEF OneMore, OnlySlices, SameRest, Secured, OnlyMasks
<1>6. i \in Slice /\ a.live \cup {i} \in SUBSET Slice /\ a.heap \cup {i} \in SUBSET Slice
  <2>1. i \in Slice
    BY <1>3, NormalHeads DEF Slice
  <2> QED BY <1>5, <2>1 DEF SegmentState
<1>7. /\ b \in SegmentState /\ b.kind = a.kind /\ b.entries = a.entries /\ b.owner = a.owner
      /\ b.used = a.used /\ b.abandoned = a.abandoned /\ b.slices = a.slices
      /\ b.live = a.live \cup {i} /\ b.heap = a.heap \cup {i}
      /\ b.commit = a.commit /\ b.purge = a.purge /\ b.os = a.os /\ b.expire = a.expire
  BY <1>5, <1>6 DEF SegmentState
<1> HIDE DEF b
<1>8. SameSpans(a, b)
  <2>1. Alike(a, b)
    BY <1>3, <1>7 DEF Alike, Normal
  <2> QED BY <2>1, AlikeSpans
<1>9. PagesCounted(b)
  <2>1. PagesCounted(g) /\ Laid(g)
    BY <1>1 DEF Sound
  <2>2. Cardinality(Pages(g) \cup {i}) = Cardinality(Pages(g)) + 1
    BY <1>3, <2>1, PagesFinite, FS_AddElement
  <2>3. (Pages(g) \cup {i}) \ (g.heap \cup {i}) = Pages(g) \ g.heap
    BY <1>3
  <2> QED BY <1>3, <1>5, <1>7, <1>8, <2>1, <2>2, <2>3 DEF PagesCounted, SameSpans
<1>10. MasksAgree(b)
  <2>1. MasksFit(b) /\ (g.commit \ g.purge) \cup Span(i, n) \subseteq b.commit \ b.purge
    BY <1>1, <1>3, <1>4, <1>5, <1>7 DEF Secured, MasksFit, Sound, MasksAgree, OnlySlices
  <2>2. ASSUME NEW j \in Pages(b) \cup {0} PROVE Slice \cap SpanOf(b, j) \subseteq b.commit \ b.purge
    <3>1. SpanOf(b, j) = SpanOf(a, j)
      BY <1>8 DEF SameSpans
    <3>2. CASE j = i
      BY <1>3, <2>1, <3>1, <3>2 DEF SpanOf
    <3>3. CASE j # i
      <4>1. j \in Pages(g) \cup {0} /\ j \in Heads(g) \ {i}
        <5>1. j \in Pages(g) \cup {0}
          BY <1>3, <1>8, <3>3 DEF SameSpans
        <5>2. 0 \in Heads(g)
          BY <1>1 DEF Sound, Laid, Tiles
        <5> QED BY <3>3, <5>1, <5>2 DEF Pages
      <4>2. SpanOf(a, j) = SpanOf(g, j)
        BY <1>3, <4>1 DEF SpanOf
      <4>3. Slice \cap SpanOf(g, j) \subseteq g.commit \ g.purge
        BY <1>1, <1>3, <1>5, <4>1 DEF Sound, MasksAgree, Normal
      <4> QED BY <2>1, <3>1, <4>2, <4>3
    <3> QED BY <3>2, <3>3
  <2>3. b.kind = "normal"
    BY <1>3, <1>7 DEF Normal
  <2> QED BY <2>1, <2>2, <2>3 DEF MasksAgree, MasksFit
<1>11. Sound(b)
  BY <1>3, <1>8, <1>9, <1>10 DEF Sound, SameSpans, Normal
<1>12. Sound(h) /\ OnlyMasks(b, h) /\ SameSpans(b, h)
  <2>1. CASE due
    BY <1>1, <1>11, <2>1, TryPurgedSound
  <2>2. CASE ~due
    <3>1. h = b /\ Alike(b, b)
      BY <1>1, <1>7, <1>11, <2>2 DEF Alike, Sound
    <3>2. OnlyMasks(b, b)
      BY <1>7 DEF OnlyMasks, SameRest
    <3> QED BY <1>11, <3>1, <3>2, AlikeSpans
  <2> QED BY <2>1, <2>2
<1>13. /\ h.kind = g.kind /\ h.entries = g.entries /\ h.owner = g.owner
       /\ h.live = g.live \cup {i} /\ h.heap = g.heap \cup {i} /\ h.slices = a.slices
       /\ Heads(h) = Heads(a) /\ Pages(h) = Pages(g) \cup {i} /\ Entries(s, h) = Entries(s, a)
  BY <1>3, <1>5, <1>7, <1>8, <1>12 DEF OnlyMasks, SameRest, SameSpans
<1>14. Exchanged(s, x.q, y.q, Entries(s, a))
  <2>1. PICK R \in SUBSET Entries(s, a) :
          /\ y.q = (x.q \ {Entry(s, g, i)}) \cup R
          /\ Entries(s, a) = (Entries(s, g) \ {Entry(s, g, i)}) \cup R
    BY <1>2 DEF Taken
  <2>2. Entry(s, g, i)[2] = s /\ \A e \in R : e[2] = s
    BY EntriesOf DEF Entry
  <2> QED BY <1>1, <2>1, <2>2 DEF Exchanged, Of
<1>15. \A j \in Pages(g) : a.slices[j] = g.slices[j]
  BY <1>3 DEF Pages
<1> QED BY <1>3, <1>12, <1>13, <1>14, <1>15 DEF Made

\* c is the segment after the commit of a span that was found failed, and the span was
\* coalesced again; then: its pages are those from before.
Restores(s, g, x, i, n, due, y, h, c) ==
  /\ Sound(g) /\ Takes(s, g, x, i, n, y, y.g, h) /\ Of(x.q, s) = Entries(s, g)
  /\ c = Coalesced(s, y, i, due)

Restored(s, g, x, c) ==
  /\ Sound(c.g) /\ c.g.kind = g.kind /\ c.g.entries = g.entries /\ c.g.owner = g.owner
  /\ c.g.live = g.live /\ c.g.heap = g.heap /\ Pages(c.g) = Pages(g) /\ c.g.used = g.used
  /\ \A j \in Pages(g) : c.g.slices[j] = g.slices[j]
  /\ Exchanged(s, x.q, c.q, Entries(s, c.g))

LEMMA RestoredIs ==
  ASSUME NEW s, NEW g, NEW x, NEW i, NEW n, NEW due, NEW y, NEW h, NEW c,
         Restores(s, g, x, i, n, due, y, h, c)
  PROVE  Restored(s, g, x, c)
<1>1. /\ Sound(g) /\ Takes(s, g, x, i, n, y, y.g, h) /\ Of(x.q, s) = Entries(s, g)
      /\ c = Coalesced(s, y, i, due) /\ g.owner # NoThread /\ Normal(g)
  BY DEF Restores, Takes
<1>2. Taken(s, g, x, i, n, y, y.g, h)
  BY <1>1, TakenIs
<1>3. /\ Normal(h) /\ Pages(h) = Pages(g) \cup {i} /\ i \notin Pages(g) /\ i \in Heads(h) /\ i >= Info
      /\ \A j \in Heads(g) \ {i} : h.slices[j] = g.slices[j]
      /\ OnlySlices(g, y.g) /\ Like(h, y.g, i) /\ ~IsFree(h, i)
  BY <1>2 DEF Taken
<1>4. \A j \in Pages(g) \cup {0} : j \in Heads(g) \ {i} /\ h.slices[j] = g.slices[j]
  <2>1. 0 \in Heads(g)
    BY <1>1 DEF Sound, Laid, Tiles
  <2>2. i # 0
    BY <1>3, NormalHeads
  <2> QED BY <1>3, <2>1, <2>2 DEF Pages
<1>5. MasksBut(h, y.g, i)
  <2>1. \A j \in Pages(g) \cup {0} : Slice \cap SpanOf(g, j) \subseteq g.commit \ g.purge
    BY <1>1 DEF Sound, MasksAgree, Normal
  <2>2. \A j \in (Pages(h) \ {i}) \cup {0} : j \in Pages(g) \cup {0} /\ SpanOf(h, j) = SpanOf(g, j)
    BY <1>3, <1>4 DEF SpanOf
  <2>3. MasksFit(y.g) /\ y.g.commit = g.commit /\ y.g.purge = g.purge
    BY <1>1, <1>3 DEF Sound, MasksAgree, MasksFit, OnlySlices
  <2> QED BY <2>1, <2>2, <2>3 DEF MasksBut
<1>6. Joined(s, y, h, i, c)
  <2>1. Joins(s, y, h, i, due, c)
    BY <1>1, <1>3, <1>5 DEF Joins
  <2> QED BY <2>1, JoinedIs
<1>7. /\ Normal(c.g) /\ MasksAgree(c.g) /\ SameRest(y.g, c.g)
      /\ Pages(c.g) = Pages(g) /\ \A j \in Pages(g) : c.g.slices[j] = g.slices[j]
  <2>1. Pages(h) \ {i} = Pages(g)
    BY <1>3
  <2> QED BY <1>4, <1>6, <2>1 DEF Joined
<1>8. /\ c.g.kind = g.kind /\ c.g.entries = g.entries /\ c.g.owner = g.owner
      /\ c.g.live = g.live /\ c.g.heap = g.heap
      /\ c.g.used = g.used /\ c.g.abandoned = g.abandoned
  BY <1>3, <1>7 DEF SameRest, OnlySlices
<1>9. Sound(c.g)
  <2>1. PagesCounted(c.g)
    BY <1>1, <1>7, <1>8 DEF Sound, PagesCounted
  <2> QED BY <1>7, <2>1 DEF Sound, Normal
<1>10. Exchanged(s, x.q, c.q, Entries(s, c.g))
  <2>1. PICK R \in SUBSET Entries(s, h) :
          /\ y.q = (x.q \ {Entry(s, g, i)}) \cup R
          /\ Entries(s, h) = (Entries(s, g) \ {Entry(s, g, i)}) \cup R
    BY <1>2 DEF Taken
  <2>2. Entry(s, g, i)[2] = s /\ \A e \in R : e[2] = s
    BY EntriesOf DEF Entry
  <2>3. Exchanged(s, x.q, y.q, Entries(s, h))
    BY <1>1, <2>1, <2>2 DEF Exchanged, Of
  <2>4. Exchanged(s, y.q, c.q, Entries(s, c.g))
    <3>1. y.g.owner # NoThread /\ h.owner # NoThread /\ h.kind = "normal"
      <4>1. OneMore(y.g, h)
        BY <1>2 DEF Taken
      <4> QED BY <1>1, <1>3, <4>1 DEF OnlySlices, SameRest, OneMore, Normal
    <3>2. Dequeues(s, y.q, h, i, c)
      BY <1>6, <3>1 DEF Joined, Dequeues
    <3>3. Of(y.q, s) = Entries(s, h)
      BY <2>3 DEF Exchanged
    <3> QED BY <1>3, <3>1, <3>2, <3>3, QueuesWhole
  <2> QED BY <2>3, <2>4 DEF Exchanged
<1> QED BY <1>7, <1>8, <1>9, <1>10 DEF Restored

-----------------------------------------------------------------------------
(* New segments.                                                           *)

\* The info slices and one span behind them.
TwoSpans(h) ==
  /\ h \in SegmentState /\ h.kind # "none" /\ Info < h.entries
  /\ h.kind = "normal" => h.entries = Slices
  /\ h.slices[0].count = Info /\ ~IsFree(h, 0) /\ Follows(h, 0)
  /\ h.slices[Info].count > 0 /\ Info + h.slices[Info].count >= h.entries /\ Follows(h, Info)
  /\ IsFree(h, Info) \/ h.slices[Info].count \in Counts \cup HugeCounts

LEMMA TwoSpansLaid ==
  ASSUME NEW h, TwoSpans(h)
  PROVE  /\ Laid(h) /\ SpansFollow(h) /\ SpansCoalesced(h) /\ Heads(h) = {0, Info}
         /\ Pages(h) = {j \in {Info} : ~IsFree(h, j)} /\ Info # 0
<1>1. /\ h \in SegmentState /\ h.kind # "none" /\ Info < h.entries
      /\ h.kind = "normal" => h.entries = Slices
      /\ h.slices[0].count = Info /\ ~IsFree(h, 0) /\ Follows(h, 0)
      /\ h.slices[Info].count > 0 /\ Info + h.slices[Info].count >= h.entries /\ Follows(h, Info)
      /\ IsFree(h, Info) \/ h.slices[Info].count \in Counts \cup HugeCounts
  BY DEF TwoSpans
<1>2. /\ Counted(h) /\ h.entries \in Nat /\ Info \in Nat /\ Info > 0
      /\ h.slices[Info].count \in Nat
  BY <1>1, Fields, SegmentAssumption
<1> DEFINE H == {0, Info}
<1>3. Tiles(h, H)
  BY <1>1, <1>2 DEF Tiles
<1> HIDE DEF H
<1>4. Heads(h) = H
  BY <1>2, <1>3, TilesHeads
<1>5. Pages(h) = {j \in {Info} : ~IsFree(h, j)}
  BY <1>1, <1>2, <1>4 DEF Pages, H
<1>6. Laid(h)
  BY <1>1, <1>3, <1>4, <1>5 DEF Laid, H
<1>7. SpansFollow(h)
  BY <1>1, <1>4 DEF SpansFollow, H
<1>8. SpansCoalesced(h)
  BY <1>1, <1>2, <1>4 DEF SpansCoalesced, H
<1> QED BY <1>2, <1>4, <1>5, <1>6, <1>7, <1>8 DEF H

\* r is a new segment of t; then what is so of it: no page but its info slices.
Starts(t, kind, total, committed, r) ==
  /\ r = NewSegment(t, kind, total, committed)
  /\ t \in Thread /\ kind \in {"normal", "huge"} /\ total \in Nat /\ Info < total

Started(t, kind, total, r) ==
  /\ r \in SegmentState /\ r.kind = kind /\ r.owner = t /\ r.used = 0 /\ r.abandoned = 0
  /\ r.entries = (IF total > Slices THEN Slices ELSE total)
  /\ r.live = {} /\ r.heap = {} /\ r.purge = {} /\ r.os = r.commit /\ 0..(Info - 1) \subseteq r.commit
  /\ r.slices[0].count = Info /\ ~IsFree(r, 0) /\ \A j \in WaysBack(r, 0) : First(r, j) = 0

LEMMA StartedIs ==
  ASSUME NEW t, NEW kind, NEW total, NEW committed, NEW r, Starts(t, kind, total, committed, r)
  PROVE  Started(t, kind, total, r)
<1> DEFINE entries == IF total > Slices THEN Slices ELSE total
           commit == IF committed THEN Slice ELSE 0..(Info - 1)
           g == [NoSegment EXCEPT !.kind = kind, !.entries = entries, !.total = total,
                                  !.owner = t, !.commit = commit, !.os = commit]
           a == SpanAllocated(g, 0, Info)
           h == [a EXCEPT !.used = 0]
<1>1. /\ r = h /\ t \in Thread /\ kind \in {"normal", "huge"} /\ total \in Nat /\ Info < total
  BY DEF Starts, NewSegment
<1>2. /\ Info \in Nat /\ Info > 0 /\ Slices \in Nat /\ Info < Slices /\ entries \in 0..Slices
      /\ Info < entries /\ commit \in SUBSET Slice /\ 0..(Info - 1) \subseteq commit
  BY <1>1, SegmentAssumption DEF Slice
<1> HIDE DEF entries, commit
<1>3. /\ g \in SegmentState /\ g.kind = kind /\ g.owner = t /\ g.abandoned = 0 /\ g.entries = entries
      /\ g.live = {} /\ g.heap = {} /\ g.purge = {} /\ g.os = commit /\ g.commit = commit
  <2>1. NoSegment \in SegmentState
    BY SegmentAssumption DEF NoSegment, SegmentState, SliceState, ZeroSlice
  <2>2. NoSegment.abandoned = 0 /\ NoSegment.live = {} /\ NoSegment.heap = {} /\ NoSegment.purge = {}
    BY DEF NoSegment
  <2> QED BY <1>1, <1>2, <2>1, <2>2 DEF SegmentState
<1> HIDE DEF g, a
<1>4. Allocated(g, 0, Info, a)
  <2>1. Allocating(g, 0, Info, a)
    BY <1>2, <1>3 DEF Allocating, a
  <2> QED BY <2>1, AllocatedIs
<1>5. /\ a \in SegmentState /\ a.kind = kind /\ a.owner = t /\ a.abandoned = 0 /\ a.entries = entries
      /\ a.live = {} /\ a.heap = {} /\ a.purge = {} /\ a.os = commit /\ a.commit = commit
      /\ a.slices[0].count = Info /\ ~IsFree(a, 0) /\ \A j \in WaysBack(a, 0) : First(a, j) = 0
  BY <1>3, <1>4 DEF Allocated, OneMore
<1>6. /\ h \in SegmentState /\ h.kind = kind /\ h.owner = t /\ h.abandoned = 0 /\ h.entries = entries
      /\ h.live = {} /\ h.heap = {} /\ h.purge = {} /\ h.os = commit /\ h.commit = commit
      /\ h.used = 0 /\ h.slices = a.slices
  BY <1>5 DEF SegmentState
<1> HIDE DEF h
<1>7. WaysBack(h, 0) = WaysBack(a, 0) /\ ~IsFree(h, 0) /\ \A j : First(h, j) = First(a, j)
  BY <1>5, <1>6 DEF WaysBack, IsFree, First
<1> QED BY <1>1, <1>2, <1>5, <1>6, <1>7 DEF Started, entries

\* The info slices stay a span when what is behind them changes.
LEMMA InfoFollows ==
  ASSUME NEW r, NEW h,
         /\ r.slices[0].count = Info /\ ~IsFree(r, 0) /\ \A j \in WaysBack(r, 0) : First(r, j) = 0
         /\ h.entries = r.entries /\ h.kind = r.kind /\ Info <= r.entries
         /\ \A j \in 0..Slices : j < Info => h.slices[j] = r.slices[j]
  PROVE  h.slices[0].count = Info /\ ~IsFree(h, 0) /\ Follows(h, 0)
<1>1. Info \in Nat /\ Info > 0 /\ Slices \in Nat /\ Info < Slices /\ MaxOffset \in Nat
  BY SegmentAssumption
<1>2. h.slices[0] = r.slices[0]
  BY <1>1
<1>3. h.slices[0].count = Info /\ ~IsFree(h, 0) /\ WaysBack(h, 0) = WaysBack(r, 0)
  BY <1>2 DEF IsFree, WaysBack
<1>4. ASSUME NEW j \in WaysBack(r, 0) PROVE First(h, j) = 0
  <2>1. j \in 0..Slices /\ j < Info
    BY <1>1 DEF WaysBack, Span
  <2>2. First(h, j) = First(r, j)
    BY <2>1 DEF First
  <2> QED BY <2>2
<1> QED BY <1>1, <1>3, <1>4 DEF Follows

\* z is a new normal segment with its one free span queued; then what is so of it.
NewNormal(s, t, q, committed, r, z) ==
  /\ Starts(t, "normal", Slices, committed, r) /\ Of(q, s) = {}
  /\ z = SpanFree(s, [g |-> r, q |-> q], Info, Slices - Info)

IsNewNormal(s, t, q, z) ==
  /\ Sound(z.g) /\ z.g.kind = "normal" /\ z.g.owner = t /\ z.g.heap = {} /\ z.g.live = {}
  /\ z.g.used = 0 /\ Pages(z.g) = {} /\ Exchanged(s, q, z.q, Entries(s, z.g))

LEMMA NewNormalIs ==
  ASSUME NEW s, NEW t, NEW q, NEW committed, NEW r, NEW z, NewNormal(s, t, q, committed, r, z)
  PROVE  IsNewNormal(s, t, q, z)
<1> DEFINE x == [g |-> r, q |-> q]
           n == Slices - Info
<1>1. /\ Starts(t, "normal", Slices, committed, r) /\ Of(q, s) = {} /\ z = SpanFree(s, x, Info, n)
      /\ x.g = r /\ x.q = q /\ t \in Thread
  BY DEF NewNormal, Starts
<1> HIDE DEF x
<1>2. /\ Info \in Nat /\ Info > 0 /\ Slices \in Nat /\ n \in Nat /\ n > 0 /\ Info + n = Slices
      /\ NoThread \notin Thread /\ ~(Slices > Slices)
  BY SegmentAssumption
<1>3. Started(t, "normal", Slices, r)
  BY <1>1, StartedIs
<1>4. /\ r \in SegmentState /\ r.kind = "normal" /\ r.owner = t /\ r.used = 0 /\ r.abandoned = 0
      /\ r.entries = Slices
      /\ r.live = {} /\ r.heap = {} /\ r.purge = {} /\ r.os = r.commit /\ 0..(Info - 1) \subseteq r.commit
      /\ r.slices[0].count = Info /\ ~IsFree(r, 0) /\ \A j \in WaysBack(r, 0) : First(r, j) = 0
  BY <1>2, <1>3 DEF Started
<1> HIDE DEF n
<1>5. Freed(s, x, Info, n, z)
  <2>1. Frees(s, x, Info, n, z)
    BY <1>1, <1>2, <1>4 DEF Frees
  <2> QED BY <2>1, SpanFreeIs
<1>6. /\ OnlySlices(r, z.g) /\ z.g.slices[Info] = [count |-> n, offset |-> 0, block |-> 0]
      /\ n > 1 => z.g.slices[Slices - 1].offset = n - 1
      /\ \A j \in 0..Slices : j # Info /\ j # Slices - 1 => z.g.slices[j] = r.slices[j]
      /\ z.q = q \cup {<<Bin(n), s, Info>>}
  <2>1. Info + n - 1 = Slices - 1 /\ r.owner # NoThread
    BY <1>1, <1>2, <1>4
  <2> QED BY <1>1, <1>5, <2>1 DEF Freed
<1>7. /\ z.g \in SegmentState /\ z.g.kind = "normal" /\ z.g.owner = t /\ z.g.used = 0
      /\ z.g.abandoned = 0 /\ z.g.entries = Slices /\ z.g.live = {} /\ z.g.heap = {}
      /\ z.g.purge = {} /\ z.g.os = z.g.commit /\ 0..(Info - 1) \subseteq z.g.commit
  BY <1>4, <1>6 DEF OnlySlices, SameRest
<1>8. z.g.slices[0].count = Info /\ ~IsFree(z.g, 0) /\ Follows(z.g, 0)
  <2>1. \A j \in 0..Slices : j < Info => z.g.slices[j] = r.slices[j]
    BY <1>2, <1>6
  <2>2. Info <= r.entries /\ z.g.entries = r.entries /\ z.g.kind = r.kind
    BY <1>2, <1>4, <1>7
  <2> QED BY <1>4, <2>1, <2>2, InfoFollows
<1>9. IsFree(z.g, Info) /\ z.g.slices[Info].count = n
  BY <1>6 DEF IsFree
<1>10. Follows(z.g, Info)
  <2>1. WaysBack(z.g, Info) = {Slices - 1}
    BY <1>2, <1>9 DEF WaysBack
  <2>2. First(z.g, Slices - 1) = Info
    <3>1. CASE n > 1
      BY <1>2, <1>6, <3>1 DEF First
    <3>2. CASE n = 1
      <4>1. Slices - 1 = Info /\ z.g.slices[Info].offset = 0
        BY <1>2, <1>6, <3>2
      <4> QED BY <1>2, <4>1 DEF First
    <3> QED BY <1>2, <3>1, <3>2
  <2> QED BY <1>2, <1>7, <1>9, <2>1, <2>2 DEF Follows
<1>11. TwoSpans(z.g)
  BY <1>2, <1>7, <1>8, <1>9, <1>10 DEF TwoSpans
<1>12. /\ Laid(z.g) /\ SpansFollow(z.g) /\ SpansCoalesced(z.g) /\ Heads(z.g) = {0, Info}
       /\ Pages(z.g) = {j \in {Info} : ~IsFree(z.g, j)}
  BY <1>11, TwoSpansLaid
<1>13. Pages(z.g) = {}
  BY <1>9, <1>12
<1>14. PagesCounted(z.g)
  BY <1>7, <1>13, FS_EmptySet DEF PagesCounted
<1>15. MasksAgree(z.g)
  <2>1. SpanOf(z.g, 0) = 0..(Info - 1)
    BY <1>2, <1>8 DEF SpanOf, Span
  <2> QED BY <1>7, <1>13, <2>1 DEF MasksAgree
<1>16. Exchanged(s, q, z.q, Entries(s, z.g))
  <2>1. Entries(s, z.g) = {<<Bin(n), s, Info>>}
    BY <1>2, <1>8, <1>9, <1>12 DEF Entries, Entry
  <2> QED BY <1>1, <1>6, <2>1 DEF Exchanged, Of
<1> QED BY <1>7, <1>12, <1>13, <1>14, <1>15, <1>16 DEF IsNewNormal, Sound

\* h is a new huge segment and its one page; then what is so of it.
NewHuge(t, n, committed, r, a, h) ==
  /\ Starts(t, "huge", Info + n, committed, r) /\ n \in HugeCounts
  /\ a = SpanAllocated(r, Info, n) /\ h = [a EXCEPT !.live = {Info}, !.heap = {Info}]

IsNewHuge(t, n, h) ==
  /\ Sound(h) /\ h.kind = "huge" /\ h.owner = t /\ h.heap = {Info} /\ h.live = {Info}
  /\ Pages(h) = {Info} /\ h.slices[Info].count = n

LEMMA NewHugeIs ==
  ASSUME NEW t, NEW n, NEW committed, NEW r, NEW a, NEW h, NewHuge(t, n, committed, r, a, h)
  PROVE  IsNewHuge(t, n, h)
<1>1. /\ Starts(t, "huge", Info + n, committed, r) /\ n \in HugeCounts
      /\ a = SpanAllocated(r, Info, n) /\ h = [a EXCEPT !.live = {Info}, !.heap = {Info}]
  BY DEF NewHuge
<1>2. Info \in Nat /\ Info > 0 /\ Slices \in Nat /\ Info < Slices /\ n \in Nat /\ n > 0
  BY <1>1, SegmentAssumption
<1>3. Started(t, "huge", Info + n, r)
  BY <1>1, StartedIs
<1>4. /\ r \in SegmentState /\ r.kind = "huge" /\ r.owner = t /\ r.used = 0 /\ r.abandoned = 0
      /\ Info < r.entries /\ r.entries <= Info + n /\ r.entries \in Nat
      /\ r.live = {} /\ r.heap = {} /\ r.purge = {} /\ r.os = r.commit /\ 0..(Info - 1) \subseteq r.commit
      /\ r.slices[0].count = Info /\ ~IsFree(r, 0) /\ \A j \in WaysBack(r, 0) : First(r, j) = 0
  BY <1>2, <1>3 DEF Started
<1>5. Allocated(r, Info, n, a)
  <2>1. Allocating(r, Info, n, a)
    BY <1>1, <1>2, <1>4 DEF Allocating
  <2> QED BY <2>1, AllocatedIs
<1>6. /\ a \in SegmentState /\ a.kind = "huge" /\ a.owner = t /\ a.used = 1 /\ a.abandoned = 0
      /\ a.entries = r.entries /\ a.purge = {} /\ a.os = a.commit /\ 0..(Info - 1) \subseteq a.commit
      /\ a.slices[Info].count = n /\ ~IsFree(a, Info) /\ \A j \in WaysBack(a, Info) : First(a, j) = Info
      /\ \A j \in 0..Slices : j < Info => a.slices[j] = r.slices[j]
  BY <1>4, <1>5 DEF Allocated, OneMore
<1>7. /\ h \in SegmentState /\ h.kind = "huge" /\ h.owner = t /\ h.used = 1 /\ h.abandoned = 0
      /\ h.entries = r.entries /\ h.purge = {} /\ h.os = h.commit /\ 0..(Info - 1) \subseteq h.commit
      /\ h.slices = a.slices /\ h.live = {Info} /\ h.heap = {Info}
  <2>1. {Info} \in SUBSET Slice
    BY <1>2 DEF Slice
  <2> QED BY <1>1, <1>6, <2>1 DEF SegmentState
<1>8. h.slices[0].count = Info /\ ~IsFree(h, 0) /\ Follows(h, 0)
  <2>1. \A j \in 0..Slices : j < Info => h.slices[j] = r.slices[j]
    BY <1>6, <1>7
  <2>2. Info <= r.entries /\ h.entries = r.entries /\ h.kind = r.kind
    BY <1>2, <1>4, <1>7
  <2> QED BY <1>4, <2>1, <2>2, InfoFollows
<1>9. h.slices[Info].count = n /\ ~IsFree(h, Info) /\ Follows(h, Info)
  <2>1. h.slices[Info].count = n /\ ~IsFree(h, Info)
    BY <1>6, <1>7 DEF IsFree
  <2>2. WaysBack(h, Info) = WaysBack(a, Info) /\ \A j : First(h, j) = First(a, j)
    BY <1>6, <1>7 DEF WaysBack, IsFree, First
  <2> QED BY <1>2, <1>6, <1>7, <2>1, <2>2 DEF Follows
<1>10. TwoSpans(h)
  BY <1>1, <1>2, <1>4, <1>7, <1>8, <1>9 DEF TwoSpans
<1>11. /\ Laid(h) /\ SpansFollow(h) /\ SpansCoalesced(h) /\ Heads(h) = {0, Info}
       /\ Pages(h) = {j \in {Info} : ~IsFree(h, j)}
  BY <1>10, TwoSpansLaid
<1>12. Pages(h) = {Info}
  BY <1>9, <1>11
<1>13. PagesCounted(h)
  <2>1. Cardinality({Info}) = 1 /\ {Info} \ {Info} = {}
    BY FS_Singleton
  <2> QED BY <1>7, <1>12, <2>1, FS_EmptySet DEF PagesCounted
<1>14. MasksAgree(h)
  <2>1. SpanOf(h, 0) = 0..(Info - 1)
    BY <1>2, <1>8 DEF SpanOf, Span
  <2> QED BY <1>7, <2>1 DEF MasksAgree
<1> QED BY <1>7, <1>9, <1>11, <1>12, <1>13, <1>14 DEF IsNewHuge, Sound

-----------------------------------------------------------------------------
(* Pages that change hands.                                                *)

\* All but what is counted of the pages, and the owner.
Recounts(g, h) ==
  /\ Sound(g) /\ h \in SegmentState /\ h.kind = g.kind /\ h.entries = g.entries
  /\ h.slices = g.slices /\ h.commit = g.commit /\ h.purge = g.purge /\ h.os = g.os
  /\ h.expire = g.expire
  /\ h.used = g.used /\ h.abandoned = Cardinality(Pages(g) \ h.heap)
  /\ h.heap \cup h.live \subseteq Pages(g)

LEMMA Recounted ==
  ASSUME NEW g, NEW h, Recounts(g, h)
  PROVE  Sound(h) /\ SameSpans(g, h)
<1>1. /\ Sound(g) /\ h \in SegmentState /\ h.kind = g.kind /\ h.entries = g.entries
      /\ h.slices = g.slices /\ h.commit = g.commit /\ h.purge = g.purge /\ h.os = g.os
      /\ h.expire = g.expire
      /\ h.used = g.used /\ h.abandoned = Cardinality(Pages(g) \ h.heap)
      /\ h.heap \cup h.live \subseteq Pages(g)
  BY DEF Recounts
<1>2. Alike(g, h)
  BY <1>1 DEF Alike, Sound
<1>3. SameSpans(g, h)
  BY <1>2, AlikeSpans
<1>4. PagesCounted(h)
  BY <1>1, <1>3 DEF PagesCounted, SameSpans, Sound
<1>5. MasksKept(g, h, {})
  BY <1>1 DEF MasksKept, MasksFit
<1> QED BY <1>1, <1>2, <1>3, <1>4, <1>5, SoundStays

LEMMA GivenUp ==
  ASSUME NEW g, NEW i, NEW h, Sound(g) /\ i \in g.heap,
         h = [g EXCEPT !.heap = g.heap \ {i}, !.abandoned = g.abandoned + 1]
  PROVE  Recounts(g, h) /\ h.owner = g.owner /\ h.heap = g.heap \ {i} /\ h.live = g.live
<1>1. /\ g \in SegmentState /\ g.abandoned + 1 \in Nat /\ g.heap \ {i} \in SUBSET Slice
      /\ Laid(g) /\ PagesCounted(g)
  BY Fields DEF Sound, Laid, SegmentState
<1>2. /\ h \in SegmentState /\ h.kind = g.kind /\ h.entries = g.entries
      /\ h.slices = g.slices /\ h.commit = g.commit /\ h.purge = g.purge /\ h.os = g.os
      /\ h.expire = g.expire /\ h.used = g.used /\ h.abandoned = g.abandoned + 1
      /\ h.heap = g.heap \ {i} /\ h.live = g.live /\ h.owner = g.owner
  BY <1>1 DEF SegmentState
<1>3. i \in Pages(g) /\ Pages(g) \ (g.heap \ {i}) = (Pages(g) \ g.heap) \cup {i}
  BY <1>1 DEF PagesCounted
<1>4. Cardinality((Pages(g) \ g.heap) \cup {i}) = Cardinality(Pages(g) \ g.heap) + 1
  BY <1>1, PagesFinite, FS_AddElement
<1> QED BY <1>1, <1>2, <1>3, <1>4 DEF Recounts, PagesCounted

LEMMA TakenIn ==
  ASSUME NEW g, NEW i, NEW h, Sound(g) /\ i \in Pages(g) \ g.heap,
         h = [g EXCEPT !.abandoned = g.abandoned - 1, !.heap = g.heap \cup {i}]
  PROVE  Recounts(g, h) /\ h.owner = g.owner /\ h.heap = g.heap \cup {i} /\ h.live = g.live
<1>1. /\ g \in SegmentState /\ g.heap \cup {i} \in SUBSET Slice /\ Laid(g) /\ PagesCounted(g)
  <2>1. g \in SegmentState /\ Laid(g) /\ PagesCounted(g)
    BY DEF Sound, Laid
  <2>2. i \in Slice
    BY <2>1, Fields DEF Laid, Tiles, Pages, Slice
  <2> QED BY <2>1, <2>2 DEF SegmentState
<1>2. Pages(g) \ (g.heap \cup {i}) = (Pages(g) \ g.heap) \ {i}
  OBVIOUS
<1>3. /\ Cardinality((Pages(g) \ g.heap) \ {i}) = Cardinality(Pages(g) \ g.heap) - 1
      /\ Cardinality(Pages(g) \ (g.heap \cup {i})) \in Nat
  BY <1>1, PagesFinite, FS_RemoveElement
<1>4. g.abandoned - 1 \in Nat /\ g.abandoned - 1 = Cardinality(Pages(g) \ (g.heap \cup {i}))
  BY <1>1, <1>2, <1>3 DEF PagesCounted
<1>5. /\ h \in SegmentState /\ h.kind = g.kind /\ h.entries = g.entries
      /\ h.slices = g.slices /\ h.commit = g.commit /\ h.purge = g.purge /\ h.os = g.os
      /\ h.expire = g.expire /\ h.used = g.used /\ h.abandoned = g.abandoned - 1
      /\ h.heap = g.heap \cup {i} /\ h.live = g.live /\ h.owner = g.owner
  BY <1>1, <1>4 DEF SegmentState
<1> QED BY <1>1, <1>4, <1>5 DEF Recounts, PagesCounted

LEMMA OtherLive ==
  ASSUME NEW g, NEW L, NEW h, Sound(g) /\ L \subseteq Pages(g), h = [g EXCEPT !.live = L]
  PROVE  Recounts(g, h) /\ h.owner = g.owner /\ h.heap = g.heap /\ h.live = L
<1>1. g \in SegmentState /\ PagesCounted(g) /\ L \in SUBSET Slice
  <2>1. g \in SegmentState /\ Laid(g) /\ PagesCounted(g)
    BY DEF Sound, Laid
  <2>2. Pages(g) \subseteq Slice
    BY <2>1, Fields DEF Laid, Tiles, Pages, Slice
  <2> QED BY <2>1, <2>2
<1>2. /\ h \in SegmentState /\ h.kind = g.kind /\ h.entries = g.entries
      /\ h.slices = g.slices /\ h.commit = g.commit /\ h.purge = g.purge /\ h.os = g.os
      /\ h.expire = g.expire /\ h.used = g.used /\ h.abandoned = g.abandoned
      /\ h.heap = g.heap /\ h.live = L /\ h.owner = g.owner
  BY <1>1 DEF SegmentState
<1> QED BY <1>1, <1>2 DEF Recounts, PagesCounted

LEMMA OtherOwner ==
  ASSUME NEW g, NEW o \in Thread \cup {NoThread, Ended}, NEW h, Sound(g),
         h = [g EXCEPT !.owner = o]
  PROVE  Recounts(g, h) /\ h.owner = o /\ h.heap = g.heap /\ h.live = g.live
<1>1. g \in SegmentState /\ PagesCounted(g)
  BY DEF Sound, Laid
<1>2. /\ h \in SegmentState /\ h.kind = g.kind /\ h.entries = g.entries
      /\ h.slices = g.slices /\ h.commit = g.commit /\ h.purge = g.purge /\ h.os = g.os
      /\ h.expire = g.expire /\ h.used = g.used /\ h.abandoned = g.abandoned
      /\ h.heap = g.heap /\ h.live = g.live /\ h.owner = o
  BY <1>1 DEF SegmentState
<1> QED BY <1>1, <1>2 DEF Recounts, PagesCounted

-----------------------------------------------------------------------------
(* A step of a thread on a segment.                                        *)

\* The spans of segment s that t has, if g is its state and p where t is.
Share(g, p, t, s) ==
  IF g.kind = "normal" /\ g.owner = t
  THEN {e \in Entries(s, g) : p.at = "reclaim" /\ p.s = s => e[3] < p.i} ELSE {}

LEMMA Shares ==
  ASSUME TypeOK, QueuesExact, NEW t \in Thread, NEW s \in Segment
  PROVE  Of(spans[t], s) = Share(seg[s], pc[t], t, s)
<1> DEFINE Own == {r \in Segment : seg[r].kind = "normal" /\ seg[r].owner = t}
<1>1. spans[t] = UNION {Queued(t, r) : r \in Own}
  BY DEF QueuesExact
<1>2. \A r \in Segment : \A e \in Queued(t, r) : e[2] = r
  BY EntriesOf DEF Queued
<1>3. Share(seg[s], pc[t], t, s) = IF s \in Own THEN Queued(t, s) ELSE {}
  BY DEF Share, Queued
<1>4. \A r \in Own : r \in Segment
  OBVIOUS
<1> HIDE DEF Own
<1> QED BY <1>1, <1>2, <1>3, <1>4 DEF Of

LEMMA SharesNext ==
  ASSUME TypeOK', \A t \in Thread, s \in Segment : Of(spans'[t], s) = Share(seg'[s], pc'[t], t, s)
  PROVE  QueuesExact'
<1> SUFFICES ASSUME NEW t \in Thread
             PROVE  (spans[t] = UNION {Queued(t, s) :
                       s \in {r \in Segment : seg[r].kind = "normal" /\ seg[r].owner = t}})'
  BY DEF QueuesExact
<1> DEFINE Own == {r \in Segment : seg'[r].kind = "normal" /\ seg'[r].owner = t}
<1>1. \A e \in spans'[t] : e[2] \in Segment
  BY DEF TypeOK
<1>2. \A s \in Segment : Share(seg'[s], pc'[t], t, s) = IF s \in Own THEN Queued(t, s)' ELSE {}
  BY DEF Share, Queued
<1>3. \A s \in Segment : \A e \in Share(seg'[s], pc'[t], t, s) : e[2] = s
  BY EntriesOf DEF Share
<1>4. \A s \in Own : s \in Segment
  OBVIOUS
<1> HIDE DEF Own
<1>5. spans'[t] = UNION {Queued(t, s)' : s \in Own}
  <2>1. ASSUME NEW e \in spans'[t] PROVE \E s \in Own : e \in Queued(t, s)'
    <3>1. e \in Of(spans'[t], e[2]) /\ e[2] \in Segment
      BY <1>1 DEF Of
    <3>2. e \in Share(seg'[e[2]], pc'[t], t, e[2])
      BY <3>1
    <3> QED BY <1>2, <3>1, <3>2
  <2>2. ASSUME NEW s \in Own, NEW e, e \in Queued(t, s)' PROVE e \in spans'[t]
    BY <1>2, <1>4, <2>2 DEF Of
  <2> QED BY <2>1, <2>2
<1> QED BY <1>5 DEF Own

\* Nobody else walks over s or owns it; t's walk is over s, if over any.
Alone(t, s) ==
  /\ \A u \in Thread \ {t} : pc[u].at \in {"check", "reclaim"} => pc[u].s # s
  /\ seg[s].owner \notin Thread \ {t}
  /\ pc[t].at \in {"check", "reclaim"} => pc[t].s = s

\* After the step, the segment is t's, on the list or checked by t.
Placed(t, s, h, p, l) ==
  \/ h.owner = t /\ s \notin l /\ p.at # "check"
  \/ h.owner = NoThread /\ s \in l /\ p.at \notin {"check", "reclaim"}
  \/ h.owner = NoThread /\ s \notin l /\ p.at = "check"

\* A walk is at a head of the segment or at its end; what a reclaim has passed is in the
\* heap of the thread, what it has not is not.
Walked(t, s, h, p) == p.at \in {"check", "reclaim"} =>
  /\ p.s = s /\ p.i >= Info /\ (p.i \in Heads(h) \/ p.i >= h.entries)
  /\ p.at = "reclaim" => h.owner = t /\ Pages(h) \ h.heap = {i \in Pages(h) : i >= p.i}

\* A search knows how many slices it is for.
Asked(p) ==
  /\ p \in Control /\ p.n \in Counts \cup {0}
  /\ p.at = "find" \/ (p.at = "reclaim" /\ p.stop) => p.n \in Counts

\* What a step of t makes of segment s (h), of its queues (q), of where it is (p) and
\* of the list (l).
Ready(t, s, h, q, p, l) ==
  /\ Alone(t, s) /\ l \subseteq Segment /\ l \ {s} = list \ {s}
  /\ IF h.kind = "none" THEN h = NoSegment /\ s \notin l /\ p.at \notin {"check", "reclaim"}
     ELSE Sound(h) /\ Placed(t, s, h, p, l)
  /\ h.owner = NoThread => h.heap = {}
  /\ h.owner = t /\ h.heap = {} /\ p.at # "reclaim" => h.used = 0
  /\ Walked(t, s, h, p) /\ Asked(p)
  /\ Exchanged(s, spans[t], q, Share(h, p, t, s))

\* The step that makes h, q, p and l of them and leaves all else alone.
Effect(t, s, h, q, p, l) ==
  /\ opt' = opt /\ list' = l
  /\ seg' = [seg EXCEPT ![s] = h] /\ spans' = [spans EXCEPT ![t] = q] /\ pc' = [pc EXCEPT ![t] = p]

LEMMA EntriesTyped ==
  ASSUME NEW s \in Segment, NEW g, Sound(g), g.kind = "normal"
  PROVE  Entries(s, g) \subseteq {Bin(n) : n \in 1..Slices} \X Segment \X Slice
<1>1. Normal(g)
  BY DEF Normal, Sound
<1>2. /\ Slices \in Nat
      /\ \A i \in Heads(g) : i \in Nat /\ i < Slices /\ g.slices[i].count \in Nat
                             /\ g.slices[i].count > 0 /\ i + g.slices[i].count <= Slices
  BY <1>1, NormalHeads
<1>3. ASSUME NEW i \in Heads(g)
      PROVE  i \in Slice /\ g.slices[i].count \in 1..Slices
  BY <1>2 DEF Slice
<1>4. ASSUME NEW i \in Heads(g)
      PROVE  <<Bin(g.slices[i].count), s, i>> \in {Bin(n) : n \in 1..Slices} \X Segment \X Slice
  BY <1>3
<1> QED BY <1>4 DEF Entries, Entry

LEMMA NoneTyped == NoSegment \in SegmentState
<1>1. Slices \in Nat /\ 0 \in 0..Slices
  BY SegmentAssumption
<1>2. ZeroSlice \in SliceState
  BY <1>1 DEF ZeroSlice, SliceState
<1>3. [i \in 0..Slices |-> ZeroSlice] \in [0..Slices -> SliceState]
  BY <1>2
<1> QED BY <1>1, <1>3 DEF NoSegment, SegmentState

LEMMA LocalStep ==
  ASSUME NEW t \in Thread, NEW s \in Segment, NEW h, NEW q, NEW p, NEW l,
         IInv /\ Ready(t, s, h, q, p, l) /\ Effect(t, s, h, q, p, l)
  PROVE  IInv'
<1>1. /\ TypeOK /\ Ready(t, s, h, q, p, l) /\ Effect(t, s, h, q, p, l) /\ QueuesExact
      /\ NoThread \notin Thread
  BY SegmentAssumption DEF IInv
<1>2. /\ seg'[s] = h /\ \A r \in Segment \ {s} : seg'[r] = seg[r]
      /\ spans'[t] = q /\ \A u \in Thread \ {t} : spans'[u] = spans[u]
      /\ pc'[t] = p /\ (\A u \in Thread \ {t} : pc'[u] = pc[u])
      /\ list' = l /\ opt' = opt
  BY <1>1 DEF TypeOK, Effect
<1>3. h \in SegmentState
  BY <1>1, NoneTyped DEF Ready, Sound, Laid
<1>4. TypeOK'
  <2>1. q \subseteq {Bin(n) : n \in 1..Slices} \X Segment \X Slice
    <3>1. Share(h, p, t, s) \subseteq {Bin(n) : n \in 1..Slices} \X Segment \X Slice
      <4>1. CASE h.kind = "normal"
        <5>1. Sound(h)
          BY <1>1, <4>1 DEF Ready
        <5> QED BY <4>1, <5>1, EntriesTyped DEF Share
      <4>2. CASE h.kind # "normal"
        BY <4>2 DEF Share
      <4> QED BY <4>1, <4>2
    <3>2. spans[t] \subseteq {Bin(n) : n \in 1..Slices} \X Segment \X Slice
      BY <1>1 DEF TypeOK
    <3>3. Of(q, s) = Share(h, p, t, s) /\ \A e : e[2] # s => (e \in q <=> e \in spans[t])
      BY <1>1 DEF Ready, Exchanged
    <3> QED BY <3>1, <3>2, <3>3 DEF Of
  <2>2. p \in Control /\ l \subseteq Segment
    BY <1>1 DEF Ready, Asked
  <2>3. seg' \in [Segment -> SegmentState] /\ pc' \in [Thread -> Control]
    BY <1>1, <1>3, <2>2 DEF TypeOK, Effect
  <2>4. spans' \in [Thread -> SUBSET ({Bin(n) : n \in 1..Slices} \X Segment \X Slice)]
    BY <1>1, <2>1 DEF TypeOK, Effect
  <2> QED BY <1>1, <1>2, <2>2, <2>3, <2>4 DEF TypeOK
<1>5. Alone(t, s) /\ Walked(t, s, h, p) /\ Asked(p)
  BY <1>1 DEF Ready
<1>6. /\ Checkers(s)' = IF p.at = "check" THEN {t} ELSE {}
      /\ \A r \in Segment \ {s} : Checkers(r)' = Checkers(r)
  BY <1>2, <1>5 DEF Checkers, Alone, Walked
<1>7. \A r \in Segment : r # s => (r \in list' <=> r \in list)
  BY <1>1, <1>2 DEF Ready
<1>8. ASSUME NEW r \in Segment, r # s
      PROVE  /\ IF Exists(r)' THEN Sound(seg'[r]) /\ Place(r)' /\ Kept(r)'
                ELSE seg'[r] = NoSegment /\ r \notin list'
             /\ seg'[r].owner = NoThread => seg'[r].heap = {}
             /\ seg'[r].owner = Ended => seg'[r].used = 0
  <2>1. seg'[r] = seg[r] /\ Checkers(r)' = Checkers(r) /\ (r \in list' <=> r \in list)
    BY <1>2, <1>6, <1>7, <1>8
  <2>2. Exists(r)' <=> Exists(r)
    BY <2>1 DEF Exists
  <2>3. Place(r) => Place(r)'
    BY <2>1 DEF Place
  <2>4. Kept(r) => Kept(r)'
    BY <1>2, <1>5, <1>8, <2>1 DEF Kept, Alone, Walked
  <2> QED BY <1>8, <2>1, <2>2, <2>3, <2>4 DEF IInv
<1>9. /\ IF Exists(s)' THEN Sound(seg'[s]) /\ Place(s)' /\ Kept(s)'
         ELSE seg'[s] = NoSegment /\ s \notin list'
      /\ seg'[s].owner = NoThread => seg'[s].heap = {}
      /\ seg'[s].owner = Ended => seg'[s].used = 0
  <2>1. Exists(s)' <=> h.kind # "none"
    BY <1>2 DEF Exists
  <2>2. seg'[s].owner = NoThread => seg'[s].heap = {}
    BY <1>1, <1>2 DEF Ready
  <2>3. CASE h.kind = "none"
    <3>1. h.used = 0
      BY <1>1, <2>3 DEF Ready, NoSegment
    <3> QED BY <1>1, <1>2, <2>1, <2>2, <2>3, <3>1 DEF Ready
  <2>4. CASE h.kind # "none"
    <3>1. Sound(h) /\ Placed(t, s, h, p, l)
      BY <1>1, <2>4 DEF Ready
    <3>2. Place(s)'
      BY <1>1, <1>2, <1>6, <3>1 DEF Place, Placed
    <3>3. h.owner \in {t, NoThread}
      BY <3>1 DEF Placed
    <3>4. Kept(s)'
      BY <1>1, <1>2, <3>3, <1>5 DEF Kept, Ready, Walked
    <3>5. h.owner # Ended
      BY <3>3, SegmentAssumption
    <3> QED BY <1>2, <2>1, <2>2, <2>4, <3>1, <3>2, <3>4, <3>5
  <2> QED BY <2>3, <2>4
<1>10. ASSUME NEW u \in Thread PROVE Walks(u)' /\ Asks(u)'
  <2>1. CASE u = t
    <3>1. Asks(u)'
      BY <1>2, <1>5, <2>1 DEF Asks, Asked
    <3>2. p.at = "check" \/ p.at = "reclaim" => h.kind # "none"
      BY <1>1 DEF Ready
    <3>3. Walks(u)'
      BY <1>2, <1>5, <2>1, <3>2 DEF Walks, Walked, Exists
    <3> QED BY <3>1, <3>3
  <2>2. CASE u # t
    <3>1. pc'[u] = pc[u] /\ Walks(u) /\ Asks(u)
      BY <1>2, <2>2 DEF IInv
    <3>2. pc[u].at \in {"check", "reclaim"} => pc[u].s \in Segment /\ seg'[pc[u].s] = seg[pc[u].s]
      BY <1>2, <1>5, <2>2, <3>1 DEF Walks, Alone
    <3> QED BY <3>1, <3>2 DEF Walks, Asks, Exists
  <2> QED BY <2>1, <2>2
<1>11. ASSUME NEW u \in Thread, NEW r \in Segment
       PROVE  Of(spans'[u], r) = Share(seg'[r], pc'[u], u, r)
  <2>1. Of(spans[u], r) = Share(seg[r], pc[u], u, r)
    BY <1>1, Shares
  <2>2. Of(q, s) = Share(h, p, t, s) /\ \A e : e[2] # s => (e \in q <=> e \in spans[t])
    BY <1>1 DEF Ready, Exchanged
  <2>3. CASE u = t /\ r = s
    BY <1>2, <2>2, <2>3
  <2>4. CASE u = t /\ r # s
    <3>1. Of(q, r) = Of(spans[t], r)
      BY <2>2, <2>4 DEF Of
    <3>2. Share(seg[r], p, t, r) = Share(seg[r], pc[t], t, r)
      BY <1>5, <2>4 DEF Share, Alone, Walked
    <3> QED BY <1>2, <2>1, <2>4, <3>1, <3>2
  <2>5. CASE u # t /\ r # s
    BY <1>2, <2>1, <2>5
  <2>6. CASE u # t /\ r = s
    <3>1. h.owner # u
      <4>1. h.owner \in {t, NoThread}
        BY <1>1 DEF Ready, Placed, NoSegment
      <4> QED BY <1>1, <2>6, <4>1
    <3>2. seg[s].owner # u
      BY <1>5, <2>6 DEF Alone
    <3> QED BY <1>2, <2>1, <2>6, <3>1, <3>2 DEF Share
  <2> QED BY <2>3, <2>4, <2>5, <2>6
<1>12. QueuesExact'
  BY <1>4, <1>11, SharesNext
<1>13. \A r \in Segment :
         IF Exists(r)' THEN Sound(seg'[r]) /\ Place(r)' /\ Kept(r)'
         ELSE seg'[r] = NoSegment /\ r \notin list'
  BY <1>8, <1>9
<1>14. \A r \in Segment : /\ seg'[r].owner = NoThread => seg'[r].heap = {}
                          /\ seg'[r].owner = Ended => seg'[r].used = 0
  BY <1>8, <1>9
<1> QED BY <1>4, <1>10, <1>12, <1>13, <1>14 DEF IInv

\* The pages with live blocks stay where they are.
SameLive(g, h) == h.live = g.live /\ \A i \in g.live : h.slices[i].count = g.slices[i].count
Steady == \A s \in Segment : SameLive(seg[s], seg'[s])

LEMMA LocalSteady ==
  ASSUME NEW t \in Thread, NEW s \in Segment, NEW h, NEW q, NEW p, NEW l,
         IInv, Effect(t, s, h, q, p, l), SameLive(seg[s], h)
  PROVE  Steady
<1>1. seg'[s] = h /\ \A r \in Segment \ {s} : seg'[r] = seg[r]
  BY DEF IInv, TypeOK, Effect
<1>2. \A r \in Segment : SameLive(seg[r], seg[r])
  BY DEF SameLive
<1> QED BY <1>1, <1>2 DEF Steady

LEMMA StillSteady ==
  ASSUME UNCHANGED seg
  PROVE  Steady
BY DEF Steady, SameLive

\* A segment without pages has none with live blocks.
LEMMA NoneLive ==
  ASSUME NEW g, Sound(g), g.used = 0
  PROVE  g.live = {} /\ SameLive(g, NoSegment)
<1>1. IsFiniteSet(Pages(g)) /\ Cardinality(Pages(g)) = 0
  BY PagesFinite DEF Sound, PagesCounted
<1>2. Pages(g) = {}
  BY <1>1, FS_EmptySet
<1>3. g.live = {}
  BY <1>2 DEF Sound, PagesCounted
<1>4. NoSegment.live = {}
  BY DEF NoSegment
<1> QED BY <1>3, <1>4 DEF SameLive

-----------------------------------------------------------------------------
(* Who else may be at a segment.                                           *)

LEMMA NotNone == \A t \in Thread : t # NoThread /\ t # Ended
BY SegmentAssumption

LEMMA NoneAlone ==
  ASSUME IInv, NEW t \in Thread, NEW s \in Segment, ~Exists(s)
  PROVE  /\ seg[s] = NoSegment /\ s \notin list
         /\ \A u \in Thread : pc[u].at \in {"check", "reclaim"} => pc[u].s # s
         /\ Of(spans[t], s) = {}
         /\ pc[t].at \notin {"check", "reclaim"} => Alone(t, s)
<1>1. seg[s] = NoSegment /\ s \notin list /\ TypeOK /\ QueuesExact
  BY DEF IInv
<1>2. \A u \in Thread : pc[u].at \in {"check", "reclaim"} => pc[u].s # s
  BY DEF IInv, Walks
<1>3. seg[s].owner = NoThread /\ seg[s].kind = "none"
  BY <1>1 DEF NoSegment
<1>4. Of(spans[t], s) = {}
  BY <1>1, <1>3, Shares DEF Share
<1>5. pc[t].at \notin {"check", "reclaim"} => Alone(t, s)
  BY <1>2, <1>3, NotNone DEF Alone
<1> QED BY <1>1, <1>2, <1>4, <1>5

LEMMA OwnerAlone ==
  ASSUME IInv, NEW t \in Thread, NEW s \in Segment, seg[s].owner = t,
         pc[t].at \in {"check", "reclaim"} => pc[t].s = s
  PROVE  /\ Alone(t, s) /\ Sound(seg[s]) /\ s \notin list
         /\ Of(spans[t], s) = Share(seg[s], pc[t], t, s)
         /\ seg[s].heap = {} /\ pc[t].at # "reclaim" => seg[s].used = 0
<1>1. Exists(s)
  BY NotNone DEF IInv, NoSegment
<1>2. Sound(seg[s]) /\ Place(s) /\ Kept(s) /\ TypeOK /\ QueuesExact
  BY <1>1 DEF IInv
<1>3. s \notin list /\ Checkers(s) = {}
  BY <1>2, NotNone DEF Place
<1>4. \A u \in Thread \ {t} : pc[u].at \in {"check", "reclaim"} => pc[u].s # s
  BY <1>3 DEF IInv, Walks, Checkers
<1> QED BY <1>2, <1>3, <1>4, Shares DEF Alone, Kept

LEMMA CheckerAlone ==
  ASSUME IInv, NEW t \in Thread, NEW s, pc[t].at = "check", pc[t].s = s
  PROVE  /\ s \in Segment /\ Exists(s) /\ Alone(t, s) /\ Sound(seg[s]) /\ s \notin list
         /\ seg[s].owner = NoThread /\ seg[s].heap = {} /\ Of(spans[t], s) = {}
         /\ pc[t].i >= Info /\ (pc[t].i \in Heads(seg[s]) \/ pc[t].i >= seg[s].entries)
<1>1. s \in Segment /\ Exists(s) /\ TypeOK /\ QueuesExact
      /\ pc[t].i >= Info /\ (pc[t].i \in Heads(seg[s]) \/ pc[t].i >= seg[s].entries)
  BY DEF IInv, Walks
<1>2. Sound(seg[s]) /\ Place(s) /\ (seg[s].owner = NoThread => seg[s].heap = {})
  BY <1>1 DEF IInv
<1>3. t \in Checkers(s)
  BY DEF Checkers
<1>4. seg[s].owner = NoThread /\ s \notin list /\ Checkers(s) = {t}
  BY <1>2, <1>3 DEF Place
<1>5. \A u \in Thread \ {t} : pc[u].at \in {"check", "reclaim"} => pc[u].s # s
  <2>1. ASSUME NEW u \in Thread \ {t}, pc[u].at = "check" PROVE pc[u].s # s
    BY <1>4, <2>1 DEF Checkers
  <2>2. ASSUME NEW u \in Thread \ {t}, pc[u].at = "reclaim" PROVE pc[u].s # s
    BY <1>4, <2>2, NotNone DEF IInv, Walks
  <2> QED BY <2>1, <2>2
<1>6. Of(spans[t], s) = {}
  BY <1>1, <1>4, Shares, NotNone DEF Share
<1> QED BY <1>1, <1>2, <1>4, <1>5, <1>6, NotNone DEF Alone

-----------------------------------------------------------------------------
(* Steps that keep the invariant.                                          *)

\* A thread goes on from where it walks over no segment to where it walks over none.
LEMMA MoveStep ==
  ASSUME NEW t \in Thread, NEW p, IInv, UNCHANGED <<opt, seg, spans, list>>,
         pc' = [pc EXCEPT ![t] = p], Asked(p),
         p.at \notin {"check", "reclaim"}, pc[t].at \notin {"check", "reclaim"}
  PROVE  IInv'
<1>1. TypeOK /\ QueuesExact
  BY DEF IInv
<1>2. pc'[t] = p /\ \A u \in Thread \ {t} : pc'[u] = pc[u]
  BY <1>1 DEF TypeOK
<1>3. TypeOK'
  BY <1>1 DEF TypeOK, Asked
<1>4. \A s \in Segment : Checkers(s)' = Checkers(s)
  BY <1>2 DEF Checkers
<1>5. \A s \in Segment : (Place(s) => Place(s)') /\ (Exists(s)' <=> Exists(s))
  BY <1>4 DEF Place, Exists
<1>6. \A s \in Segment : Kept(s) => Kept(s)'
  BY <1>2 DEF Kept
<1>7. \A s \in Segment :
         IF Exists(s)' THEN Sound(seg'[s]) /\ Place(s)' /\ Kept(s)'
         ELSE seg'[s] = NoSegment /\ s \notin list'
  BY <1>5, <1>6 DEF IInv
<1>8. ASSUME NEW u \in Thread PROVE Walks(u)' /\ Asks(u)'
  <2>1. CASE u = t
    BY <1>2, <2>1 DEF Walks, Asks, Asked
  <2>2. CASE u # t
    <3>1. pc'[u] = pc[u] /\ Walks(u) /\ Asks(u)
      BY <1>2, <2>2 DEF IInv
    <3> QED BY <3>1 DEF Walks, Asks, Exists
  <2> QED BY <2>1, <2>2
<1>9. ASSUME NEW u \in Thread, NEW r \in Segment
      PROVE  Of(spans'[u], r) = Share(seg'[r], pc'[u], u, r)
  <2>1. Of(spans[u], r) = Share(seg[r], pc[u], u, r)
    BY <1>1, Shares
  <2>2. Share(seg[r], pc'[u], u, r) = Share(seg[r], pc[u], u, r)
    BY <1>2 DEF Share
  <2> QED BY <2>1, <2>2
<1>10. QueuesExact'
  BY <1>3, <1>9, SharesNext
<1>11. \A s \in Segment : /\ seg'[s].owner = NoThread => seg'[s].heap = {}
                          /\ seg'[s].owner = Ended => seg'[s].used = 0
  BY DEF IInv
<1> QED BY <1>3, <1>7, <1>8, <1>10, <1>11 DEF IInv

\* Blocks are freed or allocated in a page.
LEMMA LiveStep ==
  ASSUME NEW s \in Segment, NEW L, IInv, Exists(s), L \subseteq Pages(seg[s]),
         seg' = [seg EXCEPT ![s].live = L], UNCHANGED <<opt, spans, list, pc>>
  PROVE  IInv' /\ seg'[s].live = L /\ Pages(seg'[s]) = Pages(seg[s]) /\ seg'[s].slices = seg[s].slices
<1> DEFINE h == [seg[s] EXCEPT !.live = L]
<1>1. TypeOK /\ QueuesExact /\ Sound(seg[s]) /\ Place(s) /\ Kept(s)
  BY DEF IInv
<1>2. seg'[s] = h /\ \A r \in Segment \ {s} : seg'[r] = seg[r]
  BY <1>1 DEF TypeOK
<1>3. Recounts(seg[s], h) /\ h.owner = seg[s].owner /\ h.heap = seg[s].heap /\ h.live = L
  BY <1>1, OtherLive
<1> HIDE DEF h
<1>4. Sound(h) /\ SameSpans(seg[s], h) /\ h.kind = seg[s].kind /\ h.used = seg[s].used
      /\ h.entries = seg[s].entries /\ h \in SegmentState
  BY <1>3, Recounted DEF Recounts
<1>5. Heads(h) = Heads(seg[s]) /\ Pages(h) = Pages(seg[s]) /\ Entries(s, h) = Entries(s, seg[s])
      /\ h.slices = seg[s].slices
  BY <1>4 DEF SameSpans
<1>6. TypeOK'
  <2>1. seg' \in [Segment -> SegmentState]
    BY <1>1, <1>2, <1>4 DEF TypeOK
  <2> QED BY <1>1, <2>1 DEF TypeOK
<1>7. \A r \in Segment : Checkers(r)' = Checkers(r) /\ (Exists(r)' <=> Exists(r))
                         /\ seg'[r].owner = seg[r].owner /\ seg'[r].heap = seg[r].heap
                         /\ seg'[r].used = seg[r].used
  BY <1>2, <1>3, <1>4 DEF Checkers, Exists
<1>8. \A r \in Segment : (Place(r) => Place(r)') /\ (Kept(r) => Kept(r)')
  BY <1>7 DEF Place, Kept
<1>9. \A r \in Segment :
         IF Exists(r)' THEN Sound(seg'[r]) /\ Place(r)' /\ Kept(r)'
         ELSE seg'[r] = NoSegment /\ r \notin list'
  <2>1. ASSUME NEW r \in Segment, Exists(r) PROVE Sound(seg'[r])
    BY <1>2, <1>4, <2>1 DEF IInv
  <2>2. ASSUME NEW r \in Segment, ~Exists(r) PROVE seg'[r] = NoSegment /\ r \notin list'
    BY <1>2, <2>2 DEF IInv
  <2> QED BY <1>7, <1>8, <2>1, <2>2 DEF IInv
<1>10. ASSUME NEW u \in Thread PROVE Walks(u)' /\ Asks(u)'
  <2>1. Walks(u) /\ Asks(u)
    BY DEF IInv
  <2>2. \A r \in Segment : Heads(seg'[r]) = Heads(seg[r]) /\ Pages(seg'[r]) = Pages(seg[r])
                           /\ seg'[r].entries = seg[r].entries
    BY <1>2, <1>4, <1>5
  <2> QED BY <1>7, <2>1, <2>2 DEF Walks, Asks
<1>11. ASSUME NEW u \in Thread, NEW r \in Segment
       PROVE  Of(spans'[u], r) = Share(seg'[r], pc'[u], u, r)
  <2>1. Of(spans[u], r) = Share(seg[r], pc[u], u, r)
    BY <1>1, Shares
  <2>2. Share(seg'[r], pc[u], u, r) = Share(seg[r], pc[u], u, r)
    BY <1>2, <1>3, <1>4, <1>5 DEF Share
  <2> QED BY <2>1, <2>2
<1>12. QueuesExact'
  BY <1>6, <1>11, SharesNext
<1>13. \A r \in Segment : /\ seg'[r].owner = NoThread => seg'[r].heap = {}
                          /\ seg'[r].owner = Ended => seg'[r].used = 0
  BY <1>7 DEF IInv
<1> QED BY <1>2, <1>3, <1>5, <1>6, <1>9, <1>10, <1>12, <1>13 DEF IInv

\* What has become of t's segment, before it is freed or abandoned.
After(t, s, x) ==
  /\ Sound(x.g) /\ x.g.owner = t
  /\ Exchanged(s, spans[t], x.q, IF x.g.kind = "normal" THEN Entries(s, x.g) ELSE {})

\* An abandoned segment has no pages in a heap.
LEMMA AbandonedIs ==
  ASSUME NEW g, Sound(g), g.used = g.abandoned
  PROVE  g.heap = {}
<1>1. Laid(g) /\ PagesCounted(g)
  BY DEF Sound
<1>2. IsFiniteSet(Pages(g)) /\ Cardinality(Pages(g) \ g.heap) = Cardinality(Pages(g))
  BY <1>1, PagesFinite DEF PagesCounted
<1>3. Pages(g) \ g.heap = Pages(g)
  BY <1>2, FS_Subset
<1> QED BY <1>1, <1>3 DEF PagesCounted

LEMMA FreedReady ==
  ASSUME IInv, NEW t \in Thread, NEW s \in Segment, NEW x, NEW p,
         After(t, s, x), Alone(t, s), s \notin list, Asked(p), p.at \notin {"check", "reclaim"}
  PROVE  Ready(t, s, SegmentFreed(s, x).g, SegmentFreed(s, x).q, p, list)
<1>1. SegmentFreed(s, x).g = NoSegment
      /\ SegmentFreed(s, x).q = (IF x.g.kind = "huge" THEN x.q ELSE x.q \ Entries(s, x.g))
  BY DEF SegmentFreed
<1>2. NoSegment.kind = "none" /\ NoSegment.owner = NoThread /\ NoSegment.heap = {}
  BY DEF NoSegment
<1>3. x.g.kind \in {"normal", "huge"}
  BY DEF After, Sound, Laid, SegmentState
<1>4. \A e \in Entries(s, x.g) : e[2] = s
  BY EntriesOf
<1>5. /\ Of(x.q, s) = (IF x.g.kind = "normal" THEN Entries(s, x.g) ELSE {})
      /\ \A e : e[2] # s => (e \in x.q <=> e \in spans[t])
  BY DEF After, Exchanged
<1>6. Exchanged(s, spans[t], SegmentFreed(s, x).q, {})
  BY <1>1, <1>3, <1>4, <1>5 DEF Exchanged, Of
<1>7. Share(NoSegment, p, t, s) = {}
  BY <1>2 DEF Share
<1>8. list \subseteq Segment
  BY DEF IInv, TypeOK
<1> QED BY <1>1, <1>2, <1>6, <1>7, <1>8, NotNone DEF Ready, Walked

LEMMA AbandonedReady ==
  ASSUME IInv, NEW t \in Thread, NEW s \in Segment, NEW x, NEW p, NEW purge,
         After(t, s, x), Alone(t, s), Asked(p), p.at \notin {"check", "reclaim"},
         x.g.used = x.g.abandoned
  PROVE  Ready(t, s, SegmentAbandoned(s, x, purge).g, SegmentAbandoned(s, x, purge).q, p,
               list \cup {s})
<1> DEFINE a == [x.g EXCEPT !.owner = NoThread]
           h == IF purge THEN TryPurged(a) ELSE a
           q == x.q \ Entries(s, x.g)
<1>1. SegmentAbandoned(s, x, purge).g = h /\ SegmentAbandoned(s, x, purge).q = q
  BY DEF SegmentAbandoned
<1>2. Sound(x.g) /\ x.g.heap = {}
  BY AbandonedIs DEF After
<1>3. Recounts(x.g, a) /\ a.owner = NoThread /\ a.heap = {}
  BY <1>2, OtherOwner
<1> HIDE DEF a
<1>4. Sound(a)
  BY <1>3, Recounted
<1>5. Sound(TryPurged(a)) /\ TryPurged(a).owner = NoThread /\ TryPurged(a).heap = {}
  BY <1>3, <1>4, TryPurgedSound DEF OnlyMasks, SameRest
<1>6. Sound(h) /\ h.owner = NoThread /\ h.heap = {}
  BY <1>3, <1>4, <1>5
<1> HIDE DEF h
<1>7. h.kind # "none"
  BY <1>6 DEF Sound, Laid
<1>8. Exchanged(s, spans[t], q, {})
  <2>1. /\ Of(x.q, s) = (IF x.g.kind = "normal" THEN Entries(s, x.g) ELSE {})
        /\ \A e : e[2] # s => (e \in x.q <=> e \in spans[t])
    BY DEF After, Exchanged
  <2>2. \A e \in Entries(s, x.g) : e[2] = s
    BY EntriesOf
  <2> QED BY <2>1, <2>2 DEF Exchanged, Of
<1>9. Share(h, p, t, s) = {}
  BY <1>6, NotNone DEF Share
<1>10. Placed(t, s, h, p, list \cup {s})
  BY <1>6 DEF Placed
<1>11. list \cup {s} \subseteq Segment
  BY DEF IInv, TypeOK
<1> QED BY <1>1, <1>6, <1>7, <1>8, <1>9, <1>10, <1>11, NotNone DEF Ready, Walked

LEMMA KeptReady ==
  ASSUME IInv, NEW t \in Thread, NEW s \in Segment, NEW x, NEW p,
         After(t, s, x), Alone(t, s), s \notin list, Asked(p), p.at \notin {"check", "reclaim"},
         x.g.heap = {} => x.g.used = 0
  PROVE  Ready(t, s, x.g, x.q, p, list)
<1>1. Sound(x.g) /\ x.g.owner = t /\ x.g.kind # "none"
  BY DEF After, Sound, Laid
<1>2. Share(x.g, p, t, s) = (IF x.g.kind = "normal" THEN Entries(s, x.g) ELSE {})
  BY <1>1 DEF Share
<1>3. Placed(t, s, x.g, p, list)
  BY <1>1 DEF Placed
<1>4. list \subseteq Segment
  BY DEF IInv, TypeOK
<1> QED BY <1>1, <1>2, <1>3, <1>4, NotNone DEF Ready, Walked, After

LEMMA AbandonedLive ==
  ASSUME NEW s, NEW x, NEW purge, Sound(x.g), x.g.heap = {}
  PROVE  SameLive(x.g, SegmentAbandoned(s, x, purge).g)
<1> DEFINE a == [x.g EXCEPT !.owner = NoThread]
<1>1. SegmentAbandoned(s, x, purge).g = IF purge THEN TryPurged(a) ELSE a
  BY DEF SegmentAbandoned
<1>2. Recounts(x.g, a) /\ a.live = x.g.live /\ a.slices = x.g.slices
  <2>1. Recounts(x.g, a) /\ a.live = x.g.live
    BY OtherOwner
  <2> HIDE DEF a
  <2> QED BY <2>1 DEF Recounts
<1> HIDE DEF a
<1>3. TryPurged(a).live = a.live /\ TryPurged(a).slices = a.slices
  BY <1>2, Recounted, TryPurgedSound DEF OnlyMasks, SameRest
<1> QED BY <1>1, <1>2, <1>3 DEF SameLive

LEMMA KeepsUsed ==
  ASSUME NEW g, Sound(g), g.used # g.abandoned
  PROVE  g.heap # {}
BY DEF Sound, PagesCounted

LEMMA SettledStep ==
  ASSUME IInv, NEW t \in Thread, NEW s \in Segment, NEW x, NEW purge,
         seg[s].owner = t, pc[t].at \notin {"check", "reclaim"},
         After(t, s, x), Settled(t, s, x, purge), UNCHANGED <<opt, pc>>,
         SameLive(seg[s], x.g)
  PROVE  IInv' /\ Steady
<1>1. Alone(t, s) /\ s \notin list
  BY OwnerAlone
<1>2. pc' = [pc EXCEPT ![t] = pc[t]] /\ opt' = opt
  BY DEF IInv, TypeOK
<1>3. Asked(pc[t])
  BY DEF IInv, TypeOK, Asks, Asked
<1>4. CASE x.g.used = 0
  <2>1. Effect(t, s, SegmentFreed(s, x).g, SegmentFreed(s, x).q, pc[t], list)
    BY <1>2, <1>4 DEF Settled, Becomes, Effect
  <2>2. IInv'
    BY <1>1, <1>3, <2>1, FreedReady, LocalStep
  <2>3. SameLive(seg[s], SegmentFreed(s, x).g)
    BY <1>4, NoneLive DEF After, SegmentFreed, SameLive
  <2> QED BY <2>1, <2>2, <2>3, LocalSteady
<1>5. CASE x.g.used # 0 /\ x.g.used = x.g.abandoned
  <2>1. Effect(t, s, SegmentAbandoned(s, x, purge).g, SegmentAbandoned(s, x, purge).q, pc[t],
               list \cup {s})
    BY <1>2, <1>5 DEF Settled, Becomes, Effect
  <2>2. IInv'
    BY <1>1, <1>3, <1>5, <2>1, AbandonedReady, LocalStep
  <2>3. SameLive(x.g, SegmentAbandoned(s, x, purge).g)
    BY <1>5, AbandonedIs, AbandonedLive DEF After
  <2>4. SameLive(seg[s], SegmentAbandoned(s, x, purge).g)
    BY <2>3 DEF SameLive
  <2> QED BY <2>1, <2>2, <2>4, LocalSteady
<1>6. CASE x.g.used # 0 /\ x.g.used # x.g.abandoned
  <2>1. Effect(t, s, x.g, x.q, pc[t], list)
    BY <1>2, <1>6 DEF Settled, Becomes, Effect
  <2>2. x.g.heap # {}
    BY <1>6, KeepsUsed DEF After
  <2>3. IInv'
    BY <1>1, <1>3, <2>1, <2>2, KeptReady, LocalStep
  <2> QED BY <2>1, <2>3, LocalSteady
<1> QED BY <1>4, <1>5, <1>6

-----------------------------------------------------------------------------
(* The steps of an owner.                                                  *)

\* Where a thread may go to.
LEMMA AskedIs ==
  ASSUME IInv, NEW t \in Thread
  PROVE  /\ pc[t] \in Control /\ pc[t].n \in Counts \cup {0} /\ Asked(pc[t]) /\ Asked(Idle)
         /\ \A a \in {"try", "exit", "segment"} : pc[t].at # a => Asked([pc[t] EXCEPT !.at = a])
         /\ pc[t].n > 0 => pc[t].n \in Counts
         /\ pc[t].n \in Counts => Asked([pc[t] EXCEPT !.at = "find"])
<1>1. pc[t] \in Control /\ Asks(t)
  BY DEF IInv, TypeOK
<1>2. Idle \in Control /\ Idle.at = "idle" /\ Idle.n = 0
  BY DEF Idle, Control, Label
<1>3. Asked(pc[t]) /\ Asked(Idle) /\ pc[t].n \in Counts \cup {0}
  BY <1>1, <1>2 DEF Asked, Asks
<1>4. \A a \in Label : [pc[t] EXCEPT !.at = a] \in Control /\ [pc[t] EXCEPT !.at = a].at = a
                       /\ [pc[t] EXCEPT !.at = a].n = pc[t].n
  BY <1>1 DEF Control
<1>5. \A a \in {"try", "exit", "segment"} : a \in Label /\ a # "find" /\ a # "reclaim"
  BY DEF Label
<1>6. "find" \in Label /\ "find" # "reclaim"
  BY DEF Label
<1>7. \A a \in {"try", "exit", "segment"} : Asked([pc[t] EXCEPT !.at = a])
  BY <1>3, <1>4, <1>5 DEF Asked
<1>8. pc[t].n \in Counts => Asked([pc[t] EXCEPT !.at = "find"])
  BY <1>3, <1>4, <1>6 DEF Asked
<1>9. pc[t].n > 0 => pc[t].n \in Counts
  BY <1>3
<1> QED BY <1>1, <1>3, <1>7, <1>8, <1>9

LEMMA IdleAt == Idle.at = "idle" /\ Idle.n = 0
BY DEF Idle

\* pc' for GoTo.
LEMMA GoesTo ==
  ASSUME IInv, NEW t \in Thread, NEW a, GoTo(t, a)
  PROVE  pc' = [pc EXCEPT ![t] = [pc[t] EXCEPT !.at = a]] /\ [pc[t] EXCEPT !.at = a].at = a
<1>1. pc \in [Thread -> Control]
  BY DEF IInv, TypeOK
<1>2. pc[t] \in Control
  BY <1>1
<1> QED BY <1>1, <1>2 DEF GoTo, Control

LEMMA PageAllocKeeps ==
  ASSUME IInv, NEW t \in Thread, NEW n \in Counts, PageAlloc(t, n)
  PROVE  IInv'
<1> DEFINE p == [pc[t] EXCEPT !.at = "find", !.n = n]
<1>1. pc[t] \in Control /\ n \in Nat /\ pc[t].at = "idle" /\ pc \in [Thread -> Control]
  <2>1. pc \in [Thread -> Control] /\ n \in Nat
    BY SegmentAssumption DEF IInv, TypeOK
  <2> QED BY <2>1, IdleAt DEF PageAlloc
<1>2. p \in Control /\ p.at = "find" /\ p.n = n
  BY <1>1 DEF Control, Label
<1>3. Asked(p)
  BY <1>2 DEF Asked
<1>4. pc' = [pc EXCEPT ![t] = p]
  BY <1>1 DEF PageAlloc
<1> HIDE DEF p
<1>5. p.at \notin {"check", "reclaim"} /\ pc[t].at \notin {"check", "reclaim"}
  BY <1>1, <1>2
<1> QED BY <1>3, <1>4, <1>5, MoveStep DEF PageAlloc

LEMMA FindFailsKeeps ==
  ASSUME IInv, NEW t \in Thread, FindFails(t)
  PROVE  IInv'
<1>1. pc' = [pc EXCEPT ![t] = [pc[t] EXCEPT !.at = "try"]] /\ [pc[t] EXCEPT !.at = "try"].at = "try"
  BY GoesTo DEF FindFails
<1>2. Asked([pc[t] EXCEPT !.at = "try"])
  BY AskedIs DEF FindFails
<1> QED BY <1>1, <1>2, MoveStep DEF FindFails

LEMMA ExitKeeps ==
  ASSUME IInv, NEW t \in Thread, Exit(t)
  PROVE  IInv'
<1>1. pc' = [pc EXCEPT ![t] = [pc[t] EXCEPT !.at = "exit"]] /\ [pc[t] EXCEPT !.at = "exit"].at = "exit"
  BY GoesTo DEF Exit
<1>2. pc[t].at = "idle"
  BY IdleAt DEF Exit
<1>3. Asked([pc[t] EXCEPT !.at = "exit"])
  BY <1>2, AskedIs
<1> QED BY <1>1, <1>2, <1>3, MoveStep DEF Exit

LEMMA CollectKeeps ==
  ASSUME IInv, NEW t \in Thread, Collect(t)
  PROVE  IInv'
<1>1. pc' = [pc EXCEPT ![t] = [pc[t] EXCEPT !.at = "try"]] /\ [pc[t] EXCEPT !.at = "try"].at = "try"
  BY GoesTo DEF Collect
<1>2. pc[t].at = "idle"
  BY IdleAt DEF Collect
<1>3. Asked([pc[t] EXCEPT !.at = "try"])
  BY <1>2, AskedIs
<1> QED BY <1>1, <1>2, <1>3, MoveStep DEF Collect

LEMMA CollectDoneKeeps ==
  ASSUME IInv, NEW t \in Thread, CollectDone(t)
  PROVE  IInv'
<1>1. Asked(Idle) /\ Idle.at = "idle"
  BY AskedIs DEF Idle
<1> QED BY <1>1, MoveStep DEF CollectDone

LEMMA SegmentAllocKeeps ==
  ASSUME IInv, NEW t \in Thread, SegmentAlloc(t)
  PROVE  IInv' /\ Steady
<1>1. pc[t].at \notin {"check", "reclaim"} /\ pc[t].n \in Counts /\ opt' = opt /\ list' = list
  BY AskedIs DEF SegmentAlloc
<1>2. CASE pc' = [pc EXCEPT ![t] = Idle] /\ UNCHANGED <<seg, spans>>
  <2>1. Asked(Idle) /\ Idle.at = "idle"
    BY AskedIs DEF Idle
  <2> QED BY <1>1, <1>2, <2>1, MoveStep, StillSteady
<1>3. ASSUME NEW s \in Segment, NEW committed \in BOOLEAN, seg[s].kind = "none", GoTo(t, "find"),
             Becomes(t, s, SpanFree(s, [g |-> NewSegment(t, "normal", Slices, committed),
                                        q |-> spans[t]], Info, Slices - Info))
      PROVE  IInv' /\ Steady
  <2> DEFINE r == NewSegment(t, "normal", Slices, committed)
             z == SpanFree(s, [g |-> r, q |-> spans[t]], Info, Slices - Info)
             p == [pc[t] EXCEPT !.at = "find"]
  <2>1. Starts(t, "normal", Slices, committed, r)
    BY SegmentAssumption DEF Starts
  <2>2. ~Exists(s)
    BY <1>3 DEF Exists
  <2>3. s \notin list /\ Of(spans[t], s) = {} /\ Alone(t, s)
    BY <1>1, <2>2, NoneAlone
  <2>4. NewNormal(s, t, spans[t], committed, r, z)
    BY <2>1, <2>3 DEF NewNormal
  <2>5. pc' = [pc EXCEPT ![t] = p] /\ Asked(p) /\ p.at = "find"
    BY <1>1, <1>3, GoesTo, AskedIs
  <2>6. Effect(t, s, z.g, z.q, p, list)
    BY <1>1, <1>3, <2>5 DEF Effect, Becomes
  <2> HIDE DEF z, p, r
  <2>7. IsNewNormal(s, t, spans[t], z)
    BY <2>4, NewNormalIs
  <2>8. After(t, s, z) /\ z.g.used = 0
    BY <2>7 DEF IsNewNormal, After
  <2>9. Ready(t, s, z.g, z.q, p, list)
    BY <2>3, <2>5, <2>8, KeptReady
  <2>10. SameLive(seg[s], z.g)
    <3>1. seg[s].live = {}
      BY <2>2, NoneAlone DEF NoSegment
    <3> QED BY <2>7, <3>1 DEF IsNewNormal, SameLive
  <2> QED BY <2>6, <2>9, <2>10, LocalStep, LocalSteady
<1> QED BY <1>2, <1>3 DEF SegmentAlloc

LEMMA HugeAllocKeeps ==
  ASSUME IInv, NEW t \in Thread, NEW s \in Segment, NEW n \in HugeCounts, HugeAlloc(t, s, n)
  PROVE  IInv' /\ IsNewHuge(t, n, seg'[s])
<1> PICK committed \in BOOLEAN :
      seg' = [seg EXCEPT ![s] =
        [SpanAllocated(NewSegment(t, "huge", Info + n, committed), Info, n)
           EXCEPT !.live = {Info}, !.heap = {Info}]]
  BY DEF HugeAlloc
<1> DEFINE r == NewSegment(t, "huge", Info + n, committed)
           a == SpanAllocated(r, Info, n)
           h == [a EXCEPT !.live = {Info}, !.heap = {Info}]
<1>1. Starts(t, "huge", Info + n, committed, r)
  BY SegmentAssumption DEF Starts
<1>2. NewHuge(t, n, committed, r, a, h)
  BY <1>1 DEF NewHuge
<1>3. pc[t] = Idle /\ pc[t].at = "idle" /\ Asked(pc[t])
  BY AskedIs, IdleAt DEF HugeAlloc
<1>4. ~Exists(s)
  BY DEF HugeAlloc, Exists
<1>5. s \notin list /\ Of(spans[t], s) = {} /\ Alone(t, s)
  BY <1>3, <1>4, NoneAlone
<1>6. Effect(t, s, h, spans[t], pc[t], list)
  BY DEF HugeAlloc, Effect, IInv, TypeOK
<1> HIDE DEF h, a, r
<1>7. IsNewHuge(t, n, h)
  BY <1>2, NewHugeIs
<1> DEFINE x == [g |-> h, q |-> spans[t]]
<1>8. x.g = h /\ x.q = spans[t]
  OBVIOUS
<1> HIDE DEF x
<1>9. After(t, s, x) /\ x.g.heap # {}
  BY <1>5, <1>7, <1>8 DEF IsNewHuge, After, Exchanged
<1>10. Ready(t, s, x.g, x.q, pc[t], list)
  BY <1>3, <1>5, <1>9, KeptReady
<1>11. IInv'
  BY <1>6, <1>8, <1>10, LocalStep
<1>12. seg'[s] = h
  BY <1>6 DEF Effect, IInv, TypeOK
<1> QED BY <1>7, <1>11, <1>12

LEMMA ReuseKeeps ==
  ASSUME IInv, NEW t \in Thread, NEW s \in Segment, NEW i \in Slice, Reuse(t, s, i)
  PROVE  IInv' /\ i \in Pages(seg[s]) /\ Pages(seg'[s]) = Pages(seg[s])
         /\ seg'[s].live = seg[s].live \cup {i} /\ seg'[s].slices = seg[s].slices
<1>1. Exists(s)
  BY NotNone DEF IInv, NoSegment, Reuse
<1>2. seg[s].heap \cup seg[s].live \subseteq Pages(seg[s])
  BY <1>1 DEF IInv, Sound, PagesCounted
<1> DEFINE L == seg[s].live \cup {i}
<1>3. seg' = [seg EXCEPT ![s].live = L] /\ UNCHANGED <<opt, spans, list, pc>>
  BY DEF Reuse, IInv, TypeOK
<1>4. L \subseteq Pages(seg[s]) /\ i \in Pages(seg[s])
  BY <1>2 DEF Reuse
<1> HIDE DEF L
<1>5. IInv' /\ seg'[s].live = L /\ Pages(seg'[s]) = Pages(seg[s]) /\ seg'[s].slices = seg[s].slices
  BY <1>1, <1>3, <1>4, LiveStep
<1> QED BY <1>4, <1>5 DEF L

LEMMA FreeBlocksKeeps ==
  ASSUME IInv, NEW s \in Segment, NEW i \in Slice, FreeBlocks(s, i)
  PROVE  IInv' /\ i \in Pages(seg[s]) /\ Pages(seg'[s]) = Pages(seg[s])
         /\ seg'[s].live = seg[s].live \ {i} /\ seg'[s].slices = seg[s].slices
<1>1. Exists(s)
  BY DEF IInv, NoSegment, FreeBlocks
<1>2. seg[s].heap \cup seg[s].live \subseteq Pages(seg[s])
  BY <1>1 DEF IInv, Sound, PagesCounted
<1> DEFINE L == seg[s].live \ {i}
<1>3. seg' = [seg EXCEPT ![s].live = L] /\ UNCHANGED <<opt, spans, list, pc>>
  BY DEF FreeBlocks, IInv, TypeOK
<1>4. L \subseteq Pages(seg[s]) /\ i \in Pages(seg[s])
  BY <1>2 DEF FreeBlocks
<1> HIDE DEF L
<1>5. IInv' /\ seg'[s].live = L /\ Pages(seg'[s]) = Pages(seg[s]) /\ seg'[s].slices = seg[s].slices
  BY <1>1, <1>3, <1>4, LiveStep
<1> QED BY <1>4, <1>5 DEF L

LEMMA CountsNat == Counts \subseteq Nat
BY SegmentAssumption

\* What a search finds is a free span of a segment of the thread.
LEMMA CandidateIs ==
  ASSUME IInv, NEW t \in Thread, pc[t].at = "find", NEW e \in Candidates(t, pc[t].n),
         NEW s, NEW i, s = e[2], i = e[3]
  PROVE  /\ s \in Segment /\ seg[s].owner = t /\ seg[s].kind = "normal" /\ Sound(seg[s])
         /\ Alone(t, s) /\ s \notin list /\ Of(spans[t], s) = Entries(s, seg[s])
         /\ i \in Heads(seg[s]) /\ IsFree(seg[s], i) /\ pc[t].n \in Counts
         /\ pc[t].n <= seg[s].slices[i].count
<1>1. e \in spans[t] /\ seg[s].slices[i].count >= pc[t].n
  BY DEF Candidates, Fits
<1>2. TypeOK /\ QueuesExact
  BY DEF IInv
<1>3. s \in Segment
  BY <1>1, <1>2 DEF TypeOK
<1>4. e \in Share(seg[s], pc[t], t, s)
  <2>1. e \in Of(spans[t], s)
    BY <1>1 DEF Of
  <2> QED BY <1>2, <1>3, <2>1, Shares
<1>5. seg[s].kind = "normal" /\ seg[s].owner = t /\ e \in Entries(s, seg[s])
      /\ Share(seg[s], pc[t], t, s) = Entries(s, seg[s])
  BY <1>4 DEF Share
<1>6. i \in Heads(seg[s]) /\ IsFree(seg[s], i)
  BY <1>5 DEF Entries, Entry
<1>7. Alone(t, s) /\ Sound(seg[s]) /\ s \notin list /\ Of(spans[t], s) = Entries(s, seg[s])
  BY <1>3, <1>5, OwnerAlone
<1>8. pc[t].n \in Counts
  BY DEF IInv, Asks
<1>9. pc[t].n <= seg[s].slices[i].count
  <2>1. pc[t].n \in Nat /\ seg[s].slices[i].count \in Nat
    <3>1. Laid(seg[s])
      BY <1>7 DEF Sound
    <3>2. Counted(seg[s]) /\ i \in 0..(seg[s].entries - 1)
      BY <1>6, <3>1, Fields DEF Laid, Tiles
    <3>3. pc[t].n \in Nat
      BY <1>8, CountsNat
    <3>4. seg[s].slices[i].count \in Nat
      BY <3>2 DEF Counted
    <3> QED BY <3>3, <3>4
  <2> QED BY <1>1, <2>1
<1> QED BY <1>3, <1>5, <1>6, <1>7, <1>8, <1>9

\* Find as steps of a segment.
Found(t, s, i, n, due, y, w, a, h) ==
  /\ y = Split(s, Dequeued(s, At(t, s), i), i, n)
  /\ w = Committed(y.g, Span(i, n)) /\ a = SpanAllocated(w, i, n)
  /\ LET b == [a EXCEPT !.live = @ \cup {i}, !.heap = @ \cup {i}]
     IN  h = IF due THEN TryPurged(b) ELSE b
  /\ Becomes(t, s, [g |-> h, q |-> y.q]) /\ pc' = [pc EXCEPT ![t] = Idle]
  /\ UNCHANGED <<opt, list>>

\* The branch of Find whose commit fails.
NotFound(t, s, i, n, due, y, c) ==
  /\ y = Split(s, Dequeued(s, At(t, s), i), i, n)
  /\ c = Coalesced(s, y, i, due) /\ Becomes(t, s, c) /\ GoTo(t, "try")
  /\ UNCHANGED <<opt, list>>

LEMMA FindIs ==
  ASSUME NEW t, Find(t)
  PROVE  \E e \in Candidates(t, pc[t].n), due \in BOOLEAN :
           \/ \E y, w, a, h : Found(t, e[2], e[3], pc[t].n, due, y, w, a, h)
           \/ \E y, c : NotFound(t, e[2], e[3], pc[t].n, due, y, c)
<1> PICK e \in Candidates(t, pc[t].n), due \in BOOLEAN :
      LET s == e[2]
          i == e[3]
          n == pc[t].n
          x == Split(s, Dequeued(s, At(t, s), i), i, n)
      IN  \/ LET g == SpanAllocated(Committed(x.g, Span(i, n)), i, n)
                 h == [g EXCEPT !.live = @ \cup {i}, !.heap = @ \cup {i}]
             IN  /\ Becomes(t, s, [g |-> IF due THEN TryPurged(h) ELSE h, q |-> x.q])
                 /\ pc' = [pc EXCEPT ![t] = Idle]
          \/ /\ ~(Span(i, n) \subseteq seg[s].commit)
             /\ Becomes(t, s, Coalesced(s, x, i, due))
             /\ GoTo(t, "try")
  BY DEF Find
<1> DEFINE s == e[2]
           i == e[3]
           n == pc[t].n
           y == Split(s, Dequeued(s, At(t, s), i), i, n)
           w == Committed(y.g, Span(i, n))
           a == SpanAllocated(w, i, n)
           b == [a EXCEPT !.live = @ \cup {i}, !.heap = @ \cup {i}]
           h == IF due THEN TryPurged(b) ELSE b
           c == Coalesced(s, y, i, due)
<1>1. UNCHANGED <<opt, list>>
  BY DEF Find
<1>2. CASE Becomes(t, s, [g |-> h, q |-> y.q]) /\ pc' = [pc EXCEPT ![t] = Idle]
  <2>1. Found(t, s, i, n, due, y, w, a, h)
    BY <1>1, <1>2 DEF Found
  <2> QED BY <2>1
<1>3. CASE Becomes(t, s, c) /\ GoTo(t, "try")
  <2>1. NotFound(t, s, i, n, due, y, c)
    BY <1>1, <1>3 DEF NotFound
  <2> QED BY <2>1
<1> QED BY <1>2, <1>3

LEMMA FoundKeeps ==
  ASSUME IInv, NEW t \in Thread, pc[t].at = "find", NEW e \in Candidates(t, pc[t].n),
         NEW due \in BOOLEAN, NEW y, NEW w, NEW a, NEW h,
         Found(t, e[2], e[3], pc[t].n, due, y, w, a, h)
  PROVE  IInv' /\ Made(e[2], seg[e[2]], At(t, e[2]), e[3], pc[t].n, y, seg'[e[2]])
<1> DEFINE s == e[2]
           i == e[3]
           n == pc[t].n
           g == seg[s]
           x == At(t, s)
<1>1. /\ s \in Segment /\ g.owner = t /\ g.kind = "normal" /\ Sound(g)
      /\ Alone(t, s) /\ s \notin list /\ Of(spans[t], s) = Entries(s, g)
      /\ i \in Heads(g) /\ IsFree(g, i) /\ n \in Counts /\ n <= g.slices[i].count
  BY CandidateIs
<1>2. x.g = g /\ x.q = spans[t]
  BY DEF At
<1>3. /\ y = Split(s, Dequeued(s, x, i), i, n)
      /\ w = Committed(y.g, Span(i, n)) /\ a = SpanAllocated(w, i, n)
      /\ LET b == [a EXCEPT !.live = @ \cup {i}, !.heap = @ \cup {i}]
         IN  h = IF due THEN TryPurged(b) ELSE b
  BY DEF Found
<1>4. Effect(t, s, h, y.q, Idle, list)
  BY DEF Found, Effect, Becomes
<1> HIDE DEF s, i, n, g, x
<1>5. Span(i, n) \in SUBSET Slice
  <2>1. Normal(g) /\ n \in Nat
    BY <1>1, SegmentAssumption DEF Normal, Sound
  <2>2. i \in Nat /\ g.slices[i].count \in Nat /\ i + g.slices[i].count <= Slices /\ Slices \in Nat
    BY <1>1, <2>1, NormalHeads
  <2> QED BY <1>1, <2>1, <2>2 DEF Span, Slice
<1>6. y.g \in SegmentState => OnlyMasks(y.g, w)
  BY <1>3, <1>5, CommittedIs DEF Secured
<1>7. Takes(s, g, x, i, n, y, w, a)
  <2>1. Normal(g) /\ g.owner # NoThread
    BY <1>1, NotNone DEF Normal, Sound
  <2> QED BY <1>1, <1>2, <1>3, <1>6, <2>1 DEF Takes
<1>8. Makes(s, g, x, i, n, due, y, w, a, h)
  BY <1>1, <1>2, <1>3, <1>7 DEF Makes
<1>9. Made(s, g, x, i, n, y, h)
  BY <1>8, MadeIs
<1> DEFINE z == [g |-> h, q |-> y.q]
<1>10. z.g = h /\ z.q = y.q
  OBVIOUS
<1> HIDE DEF z
<1>11. After(t, s, z) /\ z.g.heap # {}
  BY <1>1, <1>2, <1>9, <1>10 DEF Made, After
<1>12. Asked(Idle) /\ Idle.at \notin {"check", "reclaim"}
  BY AskedIs, IdleAt
<1>13. Ready(t, s, z.g, z.q, Idle, list)
  BY <1>1, <1>11, <1>12, KeptReady
<1>14. IInv'
  BY <1>1, <1>4, <1>10, <1>13, LocalStep
<1>15. seg'[s] = h
  BY <1>1, <1>4 DEF Effect, IInv, TypeOK
<1> QED BY <1>9, <1>14, <1>15 DEF s, i, n, g, x

LEMMA NotFoundKeeps ==
  ASSUME IInv, NEW t \in Thread, pc[t].at = "find", NEW e \in Candidates(t, pc[t].n),
         NEW due \in BOOLEAN, NEW y, NEW c, NotFound(t, e[2], e[3], pc[t].n, due, y, c)
  PROVE  IInv' /\ Steady
<1> DEFINE s == e[2]
           i == e[3]
           n == pc[t].n
           g == seg[s]
           x == At(t, s)
           h == SpanAllocated(y.g, i, n)
           p == [pc[t] EXCEPT !.at = "try"]
<1>1. /\ s \in Segment /\ g.owner = t /\ g.kind = "normal" /\ Sound(g)
      /\ Alone(t, s) /\ s \notin list /\ Of(spans[t], s) = Entries(s, g)
      /\ i \in Heads(g) /\ IsFree(g, i) /\ n \in Counts /\ n <= g.slices[i].count
  BY CandidateIs
<1>2. x.g = g /\ x.q = spans[t]
  BY DEF At
<1>3. y = Split(s, Dequeued(s, x, i), i, n) /\ c = Coalesced(s, y, i, due)
  BY DEF NotFound
<1>4. pc' = [pc EXCEPT ![t] = p] /\ p.at = "try" /\ Asked(p)
  BY GoesTo, AskedIs DEF NotFound
<1>5. Effect(t, s, c.g, c.q, p, list)
  BY <1>4 DEF NotFound, Effect, Becomes
<1>6. g.heap = {} => g.used = 0
  BY <1>1, OwnerAlone
<1>7. h = SpanAllocated(y.g, i, n)
  OBVIOUS
<1> HIDE DEF s, i, n, g, x, h, p
<1>8. Takes(s, g, x, i, n, y, y.g, h)
  <2>1. Normal(g) /\ g.owner # NoThread
    BY <1>1, NotNone DEF Normal, Sound
  <2>2. y.g \in SegmentState => OnlyMasks(y.g, y.g)
    BY DEF OnlyMasks, SameRest
  <2> QED BY <1>1, <1>2, <1>3, <1>7, <2>1, <2>2 DEF Takes
<1>9. Restores(s, g, x, i, n, due, y, h, c)
  BY <1>1, <1>2, <1>3, <1>8 DEF Restores
<1>10. Restored(s, g, x, c)
  BY <1>9, RestoredIs
<1>11. After(t, s, c) /\ (c.g.heap = {} => c.g.used = 0)
  BY <1>1, <1>2, <1>6, <1>10 DEF Restored, After
<1>12. p.at \notin {"check", "reclaim"}
  BY <1>4
<1>13. Ready(t, s, c.g, c.q, p, list)
  BY <1>1, <1>4, <1>11, <1>12, KeptReady
<1>14. IInv'
  BY <1>1, <1>5, <1>13, LocalStep
<1>15. SameLive(seg[s], c.g)
  <2>1. g.live \subseteq Pages(g)
    BY <1>1 DEF Sound, PagesCounted
  <2>2. SameLive(g, c.g)
    BY <1>10, <2>1 DEF Restored, SameLive
  <2> QED BY <2>2 DEF g
<1> QED BY <1>1, <1>5, <1>14, <1>15, LocalSteady


\* A page that is cleared in a segment of t, its queues with it.
LEMMA ClearedAfter ==
  ASSUME IInv, NEW t \in Thread, NEW s \in Segment, NEW i, NEW late, NEW c,
         seg[s].owner = t, pc[t].at \notin {"check", "reclaim"},
         i \in seg[s].heap \ seg[s].live, c = PageClear(s, At(t, s), i, late)
  PROVE  After(t, s, c) /\ Cleared(seg[s], i, c)
<1> DEFINE g == seg[s]
           x == At(t, s)
<1>1. x.g = g /\ x.q = spans[t]
  BY DEF At
<1>2. Alone(t, s) /\ Sound(g) /\ s \notin list /\ Of(spans[t], s) = Share(g, pc[t], t, s)
  BY OwnerAlone
<1>3. i \in Pages(g) /\ i \in g.heap /\ i \notin g.live
  BY <1>2 DEF Sound, PagesCounted
<1>4. c = PageClear(s, x, i, late)
  OBVIOUS
<1> HIDE DEF g, x
<1>5. Clears(s, g, x, i, late, c)
  BY <1>1, <1>2, <1>3, <1>4 DEF Clears, Uncounted
<1>6. Cleared(g, i, c) /\ Dequeues(s, x.q, g, i, c)
  BY <1>5, ClearedIs
<1>7. c.g.kind = g.kind /\ c.g.owner = t /\ Sound(c.g) /\ ~IsFree(g, i)
  BY <1>3, <1>6 DEF Cleared, g, Pages
<1>8. CASE g.kind = "normal"
  <2>1. Of(spans[t], s) = Entries(s, g)
    BY <1>2, <1>8 DEF Share, g
  <2>2. g.owner # NoThread
    BY NotNone DEF g
  <2>3. Exchanged(s, spans[t], c.q, Entries(s, c.g))
    BY <1>1, <1>6, <1>7, <1>8, <2>1, <2>2, QueuesWhole
  <2> QED BY <1>6, <1>7, <1>8, <2>3 DEF After, g
<1>9. CASE g.kind # "normal"
  <2>1. Of(spans[t], s) = {} /\ c.q = spans[t]
    BY <1>1, <1>2, <1>6, <1>9 DEF Share, Dequeues
  <2> QED BY <1>6, <1>7, <1>9, <2>1 DEF After, Exchanged, g
<1> QED BY <1>8, <1>9

\* No page but the one that is cleared has changed, and that one has no live blocks.
LEMMA ClearedLive ==
  ASSUME NEW g, NEW i, NEW c, Cleared(g, i, c)
  PROVE  SameLive(g, c.g)
<1>1. c.g.live = g.live /\ c.g.live \subseteq Pages(c.g)
      /\ \A j \in Pages(c.g) : c.g.slices[j] = g.slices[j]
  BY DEF Cleared, Sound, PagesCounted
<1> QED BY <1>1 DEF SameLive

LEMMA PageFreeKeeps ==
  ASSUME IInv, NEW t \in Thread, NEW s \in Segment, NEW i \in Slice, PageFree(t, s, i)
  PROVE  IInv' /\ Steady
<1> PICK late \in BOOLEAN, purge \in BOOLEAN :
      Settled(t, s, PageClear(s, At(t, s), i, late), purge)
  BY DEF PageFree
<1> DEFINE c == PageClear(s, At(t, s), i, late)
<1>1. seg[s].owner = t /\ pc[t].at \notin {"check", "reclaim"} /\ i \in seg[s].heap \ seg[s].live
      /\ UNCHANGED <<opt, pc>>
  BY DEF PageFree
<1>2. c = PageClear(s, At(t, s), i, late) /\ Settled(t, s, c, purge)
  OBVIOUS
<1> HIDE DEF c
<1>3. After(t, s, c) /\ Cleared(seg[s], i, c)
  BY <1>1, <1>2, ClearedAfter
<1>4. SameLive(seg[s], c.g)
  BY <1>3, ClearedLive
<1> QED BY <1>1, <1>2, <1>3, <1>4, SettledStep

LEMMA PageAbandonKeeps ==
  ASSUME IInv, NEW t \in Thread, NEW s \in Segment, NEW i \in Slice, PageAbandon(t, s, i)
  PROVE  IInv' /\ Steady
<1> DEFINE g == seg[s]
           h == [g EXCEPT !.heap = g.heap \ {i}, !.abandoned = g.abandoned + 1]
           x == [g |-> h, q |-> spans[t]]
<1> PICK purge \in BOOLEAN : Settled(t, s, x, purge)
  BY DEF PageAbandon
<1>1. g.owner = t /\ pc[t].at \notin {"check", "reclaim"} /\ i \in g.heap /\ UNCHANGED <<opt, pc>>
  BY DEF PageAbandon
<1>2. Sound(g) /\ Of(spans[t], s) = Share(g, pc[t], t, s)
  BY <1>1, OwnerAlone
<1>3. Recounts(g, h) /\ h.owner = g.owner /\ h.live = g.live
  BY <1>1, <1>2, GivenUp
<1>4. x.g = h /\ x.q = spans[t] /\ Settled(t, s, x, purge)
  OBVIOUS
<1> HIDE DEF h, x
<1>5. Sound(h) /\ Entries(s, h) = Entries(s, g) /\ h.kind = g.kind
  BY <1>3, Recounted DEF SameSpans, Recounts
<1>6. After(t, s, x)
  BY <1>1, <1>2, <1>3, <1>4, <1>5 DEF After, Exchanged, Share
<1>7. SameLive(g, x.g)
  BY <1>3, <1>4 DEF SameLive, Recounts
<1> QED BY <1>1, <1>4, <1>6, <1>7, SettledStep

\* A thread that ends leaves segments without pages.
LEMMA ExitedKeeps ==
  ASSUME IInv, NEW t \in Thread, Exited(t)
  PROVE  IInv' /\ Steady
<1> DEFINE o(s) == IF seg[s].owner = t THEN Ended ELSE seg[s].owner
<1>1. TypeOK /\ QueuesExact /\ pc[t].at = "exit"
      /\ (\A s \in Segment : seg[s].owner = t => seg[s].heap = {}) /\ UNCHANGED <<opt, list>>
  BY DEF IInv, Exited
<1>2. /\ pc' = [pc EXCEPT ![t] = Idle] /\ spans' = [spans EXCEPT ![t] = {}]
      /\ seg' = [s \in Segment |-> [seg[s] EXCEPT !.owner = o(s)]]
  BY DEF Exited
<1>3. /\ pc'[t] = Idle /\ \A u \in Thread \ {t} : pc'[u] = pc[u]
      /\ spans'[t] = {} /\ \A u \in Thread \ {t} : spans'[u] = spans[u]
  BY <1>1, <1>2 DEF TypeOK
<1>4. ASSUME NEW s \in Segment
      PROVE  /\ seg'[s] = [seg[s] EXCEPT !.owner = o(s)] /\ seg'[s] \in SegmentState
             /\ seg'[s].owner = o(s) /\ seg'[s].kind = seg[s].kind
             /\ seg'[s].entries = seg[s].entries /\ seg'[s].heap = seg[s].heap
             /\ seg'[s].used = seg[s].used /\ seg'[s].live = seg[s].live
             /\ seg'[s].slices = seg[s].slices
  <2>1. seg[s] \in SegmentState /\ o(s) \in Thread \cup {NoThread, Ended}
    <3>1. seg[s] \in SegmentState
      BY <1>1 DEF TypeOK
    <3> QED BY <3>1 DEF SegmentState
  <2>2. seg'[s] = [seg[s] EXCEPT !.owner = o(s)]
    BY <1>2
  <2> HIDE DEF o
  <2> QED BY <2>1, <2>2 DEF SegmentState
<1>5. ASSUME NEW s \in Segment, Exists(s)
      PROVE  /\ Sound(seg'[s]) /\ Heads(seg'[s]) = Heads(seg[s]) /\ Pages(seg'[s]) = Pages(seg[s])
             /\ Entries(s, seg'[s]) = Entries(s, seg[s])
  <2>1. Sound(seg[s]) /\ seg[s] \in SegmentState
    BY <1>1, <1>5 DEF IInv, TypeOK
  <2>2. o(s) \in Thread \cup {NoThread, Ended}
    BY <2>1 DEF SegmentState
  <2> HIDE DEF o
  <2>3. Recounts(seg[s], seg'[s])
    BY <1>4, <2>1, <2>2, OtherOwner
  <2> QED BY <2>3, Recounted DEF SameSpans
<1>6. \A s \in Segment : seg[s].owner = t => seg[s].used = 0
  BY <1>1, OwnerAlone
<1>7. TypeOK'
  <2>1. seg' \in [Segment -> SegmentState]
    BY <1>2, <1>4
  <2>2. spans' \in [Thread -> SUBSET ({Bin(n) : n \in 1..Slices} \X Segment \X Slice)]
    BY <1>1, <1>2 DEF TypeOK
  <2>3. pc' \in [Thread -> Control]
    BY <1>1, <1>2, AskedIs DEF TypeOK, Asked
  <2> QED BY <1>1, <2>1, <2>2, <2>3 DEF TypeOK
<1>8. ASSUME NEW s \in Segment PROVE Checkers(s)' = Checkers(s) /\ (Exists(s)' <=> Exists(s))
  <2>1. pc'[t].at # "check" /\ pc[t].at # "check"
    BY <1>1, <1>3, IdleAt
  <2>2. ASSUME NEW u \in Thread PROVE (pc'[u].at = "check" /\ pc'[u].s = s) <=> (pc[u].at = "check" /\ pc[u].s = s)
    BY <1>3, <2>1
  <2> QED BY <1>4, <2>2 DEF Checkers, Exists
<1>9. ASSUME NEW s \in Segment
      PROVE  /\ Place(s) => Place(s)'
             /\ Kept(s) => Kept(s)'
             /\ seg'[s].owner = NoThread => seg[s].owner = NoThread
             /\ seg'[s].owner = Ended => seg[s].owner \in {t, Ended}
             /\ seg'[s].owner # t
  <2>1. seg'[s].owner = o(s) /\ Checkers(s)' = Checkers(s) /\ list' = list
    BY <1>1, <1>4, <1>8
  <2>2. Place(s) => Place(s)'
    BY <2>1, SegmentAssumption DEF Place
  <2>3. Kept(s) => Kept(s)'
    <3>1. seg'[s].owner \in Thread => seg'[s].owner = seg[s].owner /\ seg[s].owner # t
      BY <2>1, SegmentAssumption
    <3> QED BY <1>3, <1>4, <3>1 DEF Kept
  <2> QED BY <2>1, <2>2, <2>3, SegmentAssumption
<1>10. \A s \in Segment :
         IF Exists(s)' THEN Sound(seg'[s]) /\ Place(s)' /\ Kept(s)'
         ELSE seg'[s] = NoSegment /\ s \notin list'
  <2>1. ASSUME NEW s \in Segment, ~Exists(s) PROVE seg'[s] = NoSegment /\ s \notin list'
    <3>1. seg[s] = NoSegment /\ s \notin list
      BY <2>1, NoneAlone
    <3>2. seg[s] \in SegmentState
      BY <1>1 DEF TypeOK
    <3>3. [seg[s] EXCEPT !.owner = seg[s].owner] = seg[s]
      BY <3>2 DEF SegmentState
    <3>4. seg[s].owner = NoThread
      BY <3>1 DEF NoSegment
    <3>5. o(s) = seg[s].owner
      BY <3>4, NotNone
    <3>6. seg'[s] = [seg[s] EXCEPT !.owner = o(s)]
      BY <1>4
    <3> QED BY <1>1, <3>1, <3>3, <3>5, <3>6
  <2> QED BY <1>5, <1>8, <1>9, <2>1 DEF IInv
<1>11. \A s \in Segment : /\ seg'[s].owner = NoThread => seg'[s].heap = {}
                          /\ seg'[s].owner = Ended => seg'[s].used = 0
  BY <1>4, <1>6, <1>9 DEF IInv
<1>12. ASSUME NEW u \in Thread PROVE Walks(u)' /\ Asks(u)'
  <2>1. CASE u = t
    BY <1>3, <2>1, IdleAt DEF Walks, Asks
  <2>2. CASE u # t
    <3>1. pc'[u] = pc[u] /\ Walks(u) /\ Asks(u)
      BY <1>3, <2>2 DEF IInv
    <3>2. \A s \in Segment : seg[s].owner = u => seg'[s].owner = u
      BY <1>4, <2>2
    <3>3. Walks(u)'
      <4> SUFFICES ASSUME pc[u].at \in {"check", "reclaim"} PROVE Walks(u)'
        BY <3>1 DEF Walks
      <4>1. pc[u].s \in Segment /\ Exists(pc[u].s)
        BY <3>1 DEF Walks
      <4> DEFINE r == pc[u].s
      <4>2. /\ Heads(seg'[r]) = Heads(seg[r]) /\ Pages(seg'[r]) = Pages(seg[r])
            /\ seg'[r].entries = seg[r].entries /\ seg'[r].heap = seg[r].heap
            /\ seg'[r].kind # "none" /\ (seg[r].owner = u => seg'[r].owner = u)
        BY <1>4, <1>5, <3>2, <4>1 DEF Exists
      <4> QED BY <3>1, <4>1, <4>2 DEF Walks, Exists
    <3> QED BY <3>1, <3>3 DEF Asks
  <2> QED BY <2>1, <2>2
<1>13. ASSUME NEW u \in Thread, NEW r \in Segment
       PROVE  Of(spans'[u], r) = Share(seg'[r], pc'[u], u, r)
  <2>1. Of(spans[u], r) = Share(seg[r], pc[u], u, r)
    BY <1>1, Shares
  <2>2. CASE u = t
    BY <1>3, <1>9, <2>2 DEF Share, Of
  <2>3. CASE u # t
    <3>1. seg'[r].owner = u <=> seg[r].owner = u
      BY <1>4, <2>3, NotNone
    <3>2. seg[r].kind = "normal" => Entries(r, seg'[r]) = Entries(r, seg[r])
      BY <1>5 DEF Exists
    <3>3. seg'[r].kind = seg[r].kind /\ pc'[u] = pc[u] /\ spans'[u] = spans[u]
      BY <1>3, <1>4, <2>3
    <3>4. Share(seg'[r], pc[u], u, r) = Share(seg[r], pc[u], u, r)
      BY <3>1, <3>2, <3>3 DEF Share
    <3> QED BY <2>1, <3>3, <3>4
  <2> QED BY <2>2, <2>3
<1>14. QueuesExact'
  BY <1>7, <1>13, SharesNext
<1>15. Steady
  BY <1>4 DEF Steady, SameLive
<1> QED BY <1>7, <1>10, <1>11, <1>12, <1>14, <1>15 DEF IInv

-----------------------------------------------------------------------------
(* The steps of a walk.                                                    *)

\* From a head to the next.
LEMMA NextHead ==
  ASSUME NEW g, Sound(g), NEW i \in Heads(g)
  PROVE  LET b == i + g.slices[i].count
         IN  /\ i \in Nat /\ i < g.entries /\ g.slices[i].count \in Nat /\ b \in Nat /\ i < b
             /\ b \in Heads(g) \/ b >= g.entries
             /\ \A j \in Heads(g) : j \in Nat /\ (j <= i \/ j >= b)
<1>1. Laid(g) /\ Tiles(g, Heads(g)) /\ Counted(g)
  BY Fields DEF Sound, Laid
<1>2. i \in 0..(g.entries - 1) /\ Heads(g) \subseteq 0..(g.entries - 1) /\ g.entries \in Nat
  BY <1>1 DEF Tiles, Counted
<1>3. g.slices[i].count \in Nat
  BY <1>1, <1>2 DEF Counted
<1>4. /\ g.slices[i].count > 0
      /\ i + g.slices[i].count \in Heads(g) \/ i + g.slices[i].count >= g.entries
      /\ \A j \in Heads(g) : j <= i \/ j >= i + g.slices[i].count
  BY <1>1 DEF Tiles
<1> QED BY <1>2, <1>3, <1>4

\* The first head behind the info slices.
LEMMA StartIs ==
  ASSUME NEW g, Sound(g)
  PROVE  /\ g.slices[0].count = Info /\ Info \in Heads(g) /\ Info \in Nat /\ Info > 0
         /\ ~IsFree(g, 0) /\ \A j \in Heads(g) : j \in Nat /\ (j = 0 \/ j >= Info)
<1>1. Laid(g) /\ Tiles(g, Heads(g)) /\ 0 \in Heads(g) /\ Info \in Nat /\ Info > 0
  BY SegmentAssumption DEF Sound, Laid, Tiles
<1>2. g.slices[0].count = Info /\ ~IsFree(g, 0) /\ Info < g.entries /\ g.entries \in Nat
  BY <1>1, Fields DEF Laid
<1>3. /\ 0 + Info \in Heads(g) \/ 0 + Info >= g.entries
      /\ \A j \in Heads(g) : j \in Nat /\ (j <= 0 \/ j >= 0 + Info)
  BY <1>1, <1>2, NextHead
<1>4. 0 + Info = Info
  BY <1>1
<1> QED BY <1>1, <1>2, <1>3, <1>4

\* t is at b now.
WalksTo(t, b) == \E p : /\ pc' = [pc EXCEPT ![t] = p] /\ p.at = pc[t].at /\ p.s = pc[t].s
                        /\ p.i = b /\ p.stop = pc[t].stop /\ Asked(p)
LEMMA OnwardIs ==
  ASSUME IInv, NEW t \in Thread, NEW g, NEW first, NEW has, NEW b,
         Onward(t, g, first, has), b = first + g.slices[first].count, b \in Nat
  PROVE  WalksTo(t, b)
<1> DEFINE p == [pc[t] EXCEPT !.i = b, !.has = pc[t].has \/ has]
<1>1. pc[t] \in Control /\ pc \in [Thread -> Control] /\ Asked(pc[t])
  BY AskedIs DEF IInv, TypeOK
<1>2. (pc[t].has \/ has) \in BOOLEAN
  OBVIOUS
<1>3. p \in Control /\ p.at = pc[t].at /\ p.s = pc[t].s /\ p.i = b /\ p.stop = pc[t].stop
      /\ p.n = pc[t].n
  BY <1>1, <1>2 DEF Control
<1>4. pc' = [pc EXCEPT ![t] = p]
  BY <1>1 DEF Onward
<1> HIDE DEF p
<1>5. Asked(p)
  BY <1>1, <1>3 DEF Asked
<1> QED BY <1>3, <1>4, <1>5 DEF WalksTo

\* Where a thread goes to after a walk.
LEMMA BackIs ==
  ASSUME IInv, NEW t \in Thread
  PROVE  LET back(a) == [[Idle EXCEPT !.n = pc[t].n] EXCEPT !.at = a]
         IN  /\ \A a \in {"try", "segment"} : Asked(back(a)) /\ back(a).at = a
             /\ pc[t].n \in Counts => Asked(back("find")) /\ back("find").at = "find"
             /\ back("try") = [Idle EXCEPT !.at = "try", !.n = pc[t].n]
<1> DEFINE back(a) == [[Idle EXCEPT !.n = pc[t].n] EXCEPT !.at = a]
<1>1. pc[t].n \in Nat /\ pc[t].n \in Counts \cup {0} /\ Idle \in Control
  <2>1. pc[t].n \in Counts \cup {0}
    BY AskedIs
  <2>2. pc[t].n \in Nat
    BY AskedIs DEF Control
  <2> QED BY <2>1, <2>2, AskedIs DEF Asked
<1>2. ASSUME NEW a \in {"try", "segment", "find"}
      PROVE  back(a) \in Control /\ back(a).at = a /\ back(a).n = pc[t].n
  <2>1. a \in Label
    BY DEF Label
  <2> QED BY <1>1, <2>1 DEF Control
<1>3. back("try") = [Idle EXCEPT !.at = "try", !.n = pc[t].n]
  BY DEF Idle
<1> HIDE DEF back
<1>4. \A a \in {"try", "segment"} : Asked(back(a)) /\ back(a).at = a
  BY <1>1, <1>2 DEF Asked
<1>5. pc[t].n \in Counts => Asked(back("find")) /\ back("find").at = "find"
  BY <1>1, <1>2 DEF Asked
<1> QED BY <1>3, <1>4, <1>5 DEF back

LEMMA ListAlone ==
  ASSUME IInv, NEW t \in Thread, NEW s \in list, pc[t].at \notin {"check", "reclaim"}
  PROVE  /\ s \in Segment /\ Exists(s) /\ Sound(seg[s]) /\ Alone(t, s) /\ Of(spans[t], s) = {}
         /\ seg[s].owner = NoThread /\ seg[s].heap = {}
<1>1. s \in Segment /\ TypeOK /\ QueuesExact
  BY DEF IInv, TypeOK
<1>2. Exists(s) /\ Sound(seg[s]) /\ Place(s)
  BY <1>1 DEF IInv
<1>3. seg[s].owner = NoThread /\ Checkers(s) = {}
  BY <1>2 DEF Place
<1>4. seg[s].heap = {}
  BY <1>1, <1>3 DEF IInv
<1>5. \A u \in Thread : pc[u].at \in {"check", "reclaim"} => pc[u].s # s
  BY <1>3, NotNone DEF Checkers, IInv, Walks
<1>6. Of(spans[t], s) = {}
  BY <1>1, <1>3, Shares, NotNone DEF Share
<1> QED BY <1>1, <1>2, <1>3, <1>4, <1>5, <1>6, NotNone DEF Alone

\* An abandoned segment that t checks, or takes or puts back on the list.
LEMMA LooseReady ==
  ASSUME IInv, NEW t \in Thread, NEW s \in Segment, NEW h, NEW p, NEW l,
         Alone(t, s), Of(spans[t], s) = {}, Sound(h), h.owner = NoThread, h.heap = {}, Asked(p),
         l \subseteq Segment, l \ {s} = list \ {s}, Walked(t, s, h, p), p.at # "reclaim",
         s \in l <=> p.at # "check"
  PROVE  Ready(t, s, h, spans[t], p, l)
<1>1. h.kind # "none"
  BY DEF Sound, Laid
<1>2. Share(h, p, t, s) = {}
  BY NotNone DEF Share
<1>3. Exchanged(s, spans[t], spans[t], Share(h, p, t, s))
  BY <1>2 DEF Exchanged
<1>4. Placed(t, s, h, p, l)
  BY DEF Placed
<1> QED BY <1>1, <1>3, <1>4, NotNone DEF Ready

LEMMA PopKeeps ==
  ASSUME IInv, NEW t \in Thread, Pop(t)
  PROVE  IInv'
<1> PICK s \in list :
      /\ list' = list \ {s}
      /\ pc' = [pc EXCEPT ![t].at = "check", ![t].s = s, ![t].i = Start(s),
                          ![t].has = FALSE, ![t].stop = FALSE]
  BY DEF Pop
<1> DEFINE p == [pc[t] EXCEPT !.at = "check", !.s = s, !.i = Info, !.has = FALSE, !.stop = FALSE]
<1>1. pc[t].at \notin {"check", "reclaim"} /\ UNCHANGED <<opt, seg, spans>>
  BY DEF Pop
<1>2. /\ s \in Segment /\ Exists(s) /\ Sound(seg[s]) /\ Alone(t, s) /\ Of(spans[t], s) = {}
      /\ seg[s].owner = NoThread /\ seg[s].heap = {}
  BY <1>1, ListAlone
<1>3. Start(s) = Info /\ Info \in Heads(seg[s]) /\ Info \in Nat
  BY <1>2, StartIs DEF Start
<1>4. TypeOK /\ pc[t] \in Control /\ pc \in [Thread -> Control]
  BY DEF IInv, TypeOK
<1>5. p \in Control /\ p.at = "check" /\ p.s = s /\ p.i = Info /\ p.n = pc[t].n
  BY <1>2, <1>3, <1>4 DEF Control, Label
<1>6. pc' = [pc EXCEPT ![t] = p]
  BY <1>3, <1>4
<1> HIDE DEF p
<1>7. Asked(p)
  BY <1>5, AskedIs DEF Asked
<1>8. Effect(t, s, seg[s], spans[t], p, list \ {s})
  BY <1>1, <1>4, <1>6 DEF Effect, TypeOK
<1>9. Walked(t, s, seg[s], p)
  BY <1>3, <1>5 DEF Walked
<1>10. list \ {s} \subseteq Segment
  BY <1>4 DEF TypeOK
<1>11. Ready(t, s, seg[s], spans[t], p, list \ {s})
  BY <1>2, <1>5, <1>7, <1>9, <1>10, LooseReady
<1> QED BY <1>2, <1>8, <1>11, LocalStep

\* A page that is cleared while its segment is checked or reclaimed.
LEMMA WalkClears ==
  ASSUME NEW t, NEW s, NEW g, NEW i, NEW late, NEW x, NEW c, Sound(g), i \in Heads(g), i >= Info,
         ~IsFree(g, i), i \notin g.live, i \notin g.heap,
         x = [g |-> [g EXCEPT !.abandoned = @ - 1], q |-> spans[t]],
         c = PageClear(s, x, i, late)
  PROVE  Cleared(g, i, c) /\ Dequeues(s, spans[t], g, i, c)
<1>1. i # 0
  BY StartIs
<1>2. i \in Pages(g)
  BY <1>1 DEF Pages
<1>3. x.g = [g EXCEPT !.abandoned = g.abandoned - 1] /\ x.q = spans[t]
  OBVIOUS
<1>4. Uncounted(g, x, i)
  BY <1>3 DEF Uncounted
<1>5. Clears(s, g, x, i, late, c)
  BY <1>2, <1>4 DEF Clears
<1> QED BY <1>3, <1>5, ClearedIs

LEMMA CheckSliceKeeps ==
  ASSUME IInv, NEW t \in Thread, CheckSlice(t)
  PROVE  IInv' /\ Steady
<1> DEFINE s == pc[t].s
           i == pc[t].i
           g == seg[s]
<1>1. pc[t].at = "check" /\ pc[t].i < seg[pc[t].s].entries /\ opt' = opt /\ list' = list
  BY DEF CheckSlice
<1>2. /\ s \in Segment /\ Exists(s) /\ Alone(t, s) /\ Sound(g) /\ s \notin list
      /\ g.owner = NoThread /\ g.heap = {} /\ Of(spans[t], s) = {}
      /\ i >= Info /\ (i \in Heads(g) \/ i >= g.entries)
  BY <1>1, CheckerAlone
<1>3. i \in Heads(g) /\ TypeOK /\ list \subseteq Segment
  <2>1. i \in Nat /\ g.entries \in Nat
    BY <1>2, Fields DEF IInv, TypeOK, Control, Sound, Laid
  <2> QED BY <1>1, <1>2, <2>1 DEF IInv, TypeOK
<1>4. ASSUME NEW h, NEW p, Sound(h), h.owner = NoThread, h.heap = {}, p.at = "check", p.s = s,
             p.i >= Info, p.i \in Heads(h) \/ p.i >= h.entries, Asked(p),
             Effect(t, s, h, spans[t], p, list), SameLive(g, h)
      PROVE  IInv' /\ Steady
  <2>1. Walked(t, s, h, p)
    BY <1>4 DEF Walked
  <2>2. Ready(t, s, h, spans[t], p, list)
    BY <1>2, <1>3, <1>4, <2>1, LooseReady
  <2> QED BY <1>2, <1>4, <2>2, LocalStep, LocalSteady
<1>5. ASSUME NEW has, Onward(t, g, i, has), UNCHANGED <<seg, spans>>
      PROVE  IInv' /\ Steady
  <2> DEFINE b == i + g.slices[i].count
  <2>1. i \in Nat /\ b \in Nat /\ i < b /\ (b \in Heads(g) \/ b >= g.entries) /\ Info \in Nat
    BY <1>2, <1>3, NextHead, StartIs
  <2>2. PICK p : /\ pc' = [pc EXCEPT ![t] = p] /\ p.at = "check" /\ p.s = s /\ p.i = b
                 /\ Asked(p)
    <3>1. WalksTo(t, b)
      BY <1>5, <2>1, OnwardIs
    <3> QED BY <1>1, <3>1 DEF WalksTo
  <2>3. b >= Info
    BY <1>2, <2>1
  <2>4. Effect(t, s, g, spans[t], p, list)
    BY <1>1, <1>3, <1>5, <2>2 DEF Effect, TypeOK
  <2>5. SameLive(g, g)
    BY DEF SameLive
  <2> HIDE DEF b, s, g, i
  <2> QED BY <1>2, <1>4, <2>1, <2>2, <2>3, <2>4, <2>5
<1>6. ASSUME NEW late \in BOOLEAN, NEW x, NEW c, NEW has, ~IsFree(g, i), i \notin g.live,
             x = [g |-> [g EXCEPT !.abandoned = @ - 1], q |-> spans[t]],
             c = PageClear(s, x, i, late), Becomes(t, s, c), Onward(t, c.g, c.first, has)
      PROVE  IInv' /\ Steady
  <2> DEFINE b == c.first + c.g.slices[c.first].count
  <2>1. Cleared(g, i, c) /\ Dequeues(s, spans[t], g, i, c)
    BY <1>2, <1>3, <1>6, WalkClears
  <2>2. /\ Sound(c.g) /\ c.g.owner = NoThread /\ c.g.heap = {} /\ c.first \in Heads(c.g)
        /\ Info <= c.first /\ c.q = spans[t]
    BY <1>2, <2>1 DEF Cleared, Dequeues
  <2>3. c.first \in Nat /\ b \in Nat /\ c.first < b /\ (b \in Heads(c.g) \/ b >= c.g.entries)
        /\ Info \in Nat
    BY <2>2, NextHead, StartIs
  <2>4. PICK p : /\ pc' = [pc EXCEPT ![t] = p] /\ p.at = "check" /\ p.s = s /\ p.i = b
                 /\ Asked(p)
    <3>1. WalksTo(t, b)
      BY <1>6, <2>3, OnwardIs
    <3> QED BY <1>1, <3>1 DEF WalksTo
  <2>5. b >= Info
    BY <2>2, <2>3
  <2>6. Effect(t, s, c.g, spans[t], p, list)
    BY <1>1, <1>6, <2>2, <2>4 DEF Effect, Becomes
  <2>7. SameLive(g, c.g)
    BY <2>1, ClearedLive
  <2> HIDE DEF b, s, g, i
  <2> QED BY <1>4, <2>2, <2>3, <2>4, <2>5, <2>6, <2>7
<1>7. CASE /\ ~IsFree(g, i) /\ i \notin g.live
           /\ \E late \in BOOLEAN :
                LET x == PageClear(s, [g |-> [g EXCEPT !.abandoned = @ - 1], q |-> spans[t]], i, late)
                IN  /\ Becomes(t, s, x)
                    /\ Onward(t, x.g, x.first, x.g.slices[x.first].count >= pc[t].n)
  <2> PICK late \in BOOLEAN :
        LET x == PageClear(s, [g |-> [g EXCEPT !.abandoned = @ - 1], q |-> spans[t]], i, late)
        IN  /\ Becomes(t, s, x)
            /\ Onward(t, x.g, x.first, x.g.slices[x.first].count >= pc[t].n)
    BY <1>7
  <2> QED BY <1>6, <1>7
<1>8. CASE (\E room \in BOOLEAN : Onward(t, g, i, room /\ pc[t].n > 0)) /\ UNCHANGED <<seg, spans>>
  BY <1>5, <1>8
<1>9. CASE Onward(t, g, i, g.slices[i].count >= pc[t].n) /\ UNCHANGED <<seg, spans>>
  BY <1>5, <1>9
<1> QED BY <1>7, <1>8, <1>9 DEF CheckSlice

LEMMA CheckedKeeps ==
  ASSUME IInv, NEW t \in Thread, Checked(t)
  PROVE  IInv' /\ Steady
<1> DEFINE s == pc[t].s
           g == seg[s]
<1>1. pc[t].at = "check" /\ opt' = opt
  BY DEF Checked, Reclaim
<1>2. /\ s \in Segment /\ Exists(s) /\ Alone(t, s) /\ Sound(g) /\ s \notin list
      /\ g.owner = NoThread /\ g.heap = {} /\ Of(spans[t], s) = {}
  BY <1>1, CheckerAlone
<1>3. TypeOK /\ list \subseteq Segment /\ pc[t] \in Control /\ pc \in [Thread -> Control]
  BY DEF IInv, TypeOK
<1>4. ASSUME NEW stop \in BOOLEAN, Reclaim(t, stop), stop => pc[t].n \in Counts
      PROVE  IInv' /\ Steady
  <2> DEFINE h == [g EXCEPT !.owner = t]
             p == [pc[t] EXCEPT !.at = "reclaim", !.i = Info, !.has = FALSE, !.stop = stop]
  <2>1. Start(s) = Info /\ Info \in Heads(g) /\ Info \in Nat /\ Info > 0 /\ ~IsFree(g, 0)
        /\ \A j \in Heads(g) : j \in Nat /\ (j = 0 \/ j >= Info)
    BY <1>2, StartIs DEF Start
  <2>2. p \in Control /\ p.at = "reclaim" /\ p.s = s /\ p.i = Info /\ p.n = pc[t].n /\ p.stop = stop
    BY <1>3, <2>1 DEF Control, Label
  <2>3. pc' = [pc EXCEPT ![t] = p]
    BY <1>3, <1>4, <2>1 DEF Reclaim
  <2>4. Recounts(g, h) /\ h.owner = t /\ h.heap = {} /\ h.live = g.live
    BY <1>2, OtherOwner
  <2>5. Effect(t, s, h, spans[t], p, list)
    BY <1>1, <1>3, <1>4, <2>3 DEF Effect, Reclaim, TypeOK
  <2> HIDE DEF h, p
  <2>6. Sound(h) /\ Heads(h) = Heads(g) /\ Pages(h) = Pages(g) /\ Entries(s, h) = Entries(s, g)
        /\ h.kind # "none"
    BY <2>4, Recounted DEF SameSpans, Sound, Laid
  <2>7. Asked(p)
    BY <1>4, <2>2, AskedIs DEF Asked
  <2>8. Pages(h) \ h.heap = {j \in Pages(h) : j >= p.i}
    BY <2>1, <2>2, <2>4, <2>6 DEF Pages
  <2>9. Walked(t, s, h, p)
    BY <2>1, <2>2, <2>4, <2>6, <2>8 DEF Walked
  <2>10. Share(h, p, t, s) = {}
    <3>1. \A e \in Entries(s, g) : ~(e[3] < Info)
      <4>1. \A j \in Heads(g) : IsFree(g, j) => ~(j < Info)
        BY <2>1
      <4> QED BY <4>1 DEF Entries, Entry
    <3> QED BY <2>2, <2>6, <3>1 DEF Share
  <2>11. Exchanged(s, spans[t], spans[t], Share(h, p, t, s))
    BY <1>2, <2>10 DEF Exchanged
  <2>12. Placed(t, s, h, p, list)
    BY <1>2, <2>2, <2>4 DEF Placed
  <2>13. Ready(t, s, h, spans[t], p, list)
    BY <1>2, <1>3, <2>2, <2>4, <2>6, <2>7, <2>9, <2>11, <2>12, NotNone DEF Ready
  <2>14. SameLive(g, h)
    BY <2>4 DEF SameLive, Recounts
  <2> QED BY <1>2, <2>5, <2>13, <2>14, LocalStep, LocalSteady
<1>5. ASSUME NEW purge \in BOOLEAN, seg' = [seg EXCEPT ![s] = IF purge THEN TryPurged(@) ELSE @],
             list' = list \cup {s}, spans' = spans,
             pc' = [pc EXCEPT ![t] = [Idle EXCEPT !.at = "try", !.n = pc[t].n]]
      PROVE  IInv' /\ Steady
  <2> DEFINE h == IF purge THEN TryPurged(g) ELSE g
             p == [Idle EXCEPT !.at = "try", !.n = pc[t].n]
  <2>1. Sound(h) /\ h.owner = NoThread /\ h.heap = {} /\ SameLive(g, h)
    <3>1. /\ Sound(TryPurged(g)) /\ TryPurged(g).owner = NoThread /\ TryPurged(g).heap = {}
          /\ TryPurged(g).live = g.live /\ TryPurged(g).slices = g.slices
      BY <1>2, TryPurgedSound DEF OnlyMasks, SameRest
    <3> QED BY <1>2, <3>1 DEF SameLive
  <2>2. Asked(p) /\ p.at = "try"
    BY BackIs
  <2>3. Effect(t, s, h, spans[t], p, list \cup {s})
    BY <1>1, <1>2, <1>3, <1>5 DEF Effect, TypeOK
  <2> HIDE DEF h, p
  <2>4. Walked(t, s, h, p)
    BY <2>2 DEF Walked
  <2>5. list \cup {s} \subseteq Segment
    BY <1>2, <1>3
  <2>6. Ready(t, s, h, spans[t], p, list \cup {s})
    BY <1>2, <2>1, <2>2, <2>4, <2>5, LooseReady
  <2> QED BY <1>2, <2>1, <2>3, <2>6, LocalStep, LocalSteady
<1>6. pc[t].has \in BOOLEAN /\ (pc[t].n > 0 => pc[t].n \in Counts)
  BY <1>3, AskedIs DEF Control
<1> QED BY <1>4, <1>5, <1>6 DEF Checked

\* A segment that t goes on to reclaim, now from slice b on.
LEMMA ReclaimReady ==
  ASSUME IInv, NEW t \in Thread, NEW s \in Segment, NEW h, NEW q, NEW p,
         Alone(t, s), s \notin list, Sound(h), h.owner = t, Asked(p),
         p.at = "reclaim", p.s = s, p.i >= Info, p.i \in Heads(h) \/ p.i >= h.entries,
         Pages(h) \ h.heap = {j \in Pages(h) : j >= p.i},
         Exchanged(s, spans[t], q,
                   IF h.kind = "normal" THEN {e \in Entries(s, h) : e[3] < p.i} ELSE {})
  PROVE  Ready(t, s, h, q, p, list)
<1>1. h.kind # "none"
  BY DEF Sound, Laid
<1>2. Share(h, p, t, s) = IF h.kind = "normal" THEN {e \in Entries(s, h) : e[3] < p.i} ELSE {}
  BY DEF Share
<1>3. Placed(t, s, h, p, list)
  BY DEF Placed
<1>4. Walked(t, s, h, p)
  BY DEF Walked
<1>5. list \subseteq Segment
  BY DEF IInv, TypeOK
<1> QED BY <1>1, <1>2, <1>3, <1>4, <1>5, NotNone DEF Ready

\* What t knows of a segment g that it reclaims.
Known(t, s, i, g) ==
  /\ s \in Segment /\ g.kind # "none" /\ g.owner = t /\ Sound(g) /\ Alone(t, s)
  /\ s \notin list /\ i >= Info /\ i \in Nat /\ g.entries \in Nat
  /\ i \in Heads(g) \/ i >= g.entries
  /\ Pages(g) \ g.heap = {j \in Pages(g) : j >= i}
  /\ Of(spans[t], s) = IF g.kind = "normal" THEN {e \in Entries(s, g) : e[3] < i} ELSE {}

LEMMA Reclaiming ==
  ASSUME IInv, NEW t \in Thread, NEW s, NEW i, NEW g,
         pc[t].at = "reclaim", s = pc[t].s, i = pc[t].i, g = seg[s]
  PROVE  Known(t, s, i, g)
<1>1. /\ s \in Segment /\ g.kind # "none" /\ i >= Info /\ seg[s].owner = t
      /\ (i \in Heads(seg[s]) \/ i >= seg[s].entries)
      /\ Pages(seg[s]) \ seg[s].heap = {j \in Pages(seg[s]) : j >= i}
  BY DEF IInv, Walks, Exists
<1>2. Alone(t, s) /\ Sound(seg[s]) /\ s \notin list /\ Of(spans[t], s) = Share(seg[s], pc[t], t, s)
  BY <1>1, OwnerAlone
<1>3. i \in Nat
  BY DEF IInv, TypeOK, Control
<1>4. seg[s].entries \in Nat
  BY <1>2, Fields DEF Sound, Laid
<1>5. Share(seg[s], pc[t], t, s) =
        IF seg[s].kind = "normal" THEN {e \in Entries(s, seg[s]) : e[3] < i} ELSE {}
  BY <1>1 DEF Share
<1> QED BY <1>1, <1>2, <1>3, <1>4, <1>5 DEF Known

LEMMA ReclaimedKeeps ==
  ASSUME IInv, NEW t \in Thread, Reclaimed(t)
  PROVE  IInv' /\ Steady
<1> DEFINE s == pc[t].s
           i == pc[t].i
           g == seg[s]
           x == At(t, s)
           back == [Idle EXCEPT !.n = pc[t].n]
<1>1. pc[t].at = "reclaim" /\ i >= g.entries /\ UNCHANGED <<opt, list>>
  BY DEF Reclaimed
<1>2. /\ s \in Segment /\ g.owner = t /\ Sound(g) /\ Alone(t, s)
      /\ s \notin list /\ i \in Nat /\ g.entries \in Nat
      /\ Pages(g) \ g.heap = {j \in Pages(g) : j >= i}
      /\ Of(spans[t], s) = IF g.kind = "normal" THEN {e \in Entries(s, g) : e[3] < i} ELSE {}
  <2>1. Known(t, s, i, g)
    BY <1>1, Reclaiming
  <2> QED BY <2>1 DEF Known
<1>3. \A j \in Heads(g) : j \in Nat /\ j < i
  BY <1>1, <1>2, NextHead
<1>4. Pages(g) \ g.heap = {}
  BY <1>2, <1>3 DEF Pages
<1>5. Of(spans[t], s) = IF g.kind = "normal" THEN Entries(s, g) ELSE {}
  <2>1. \A e \in Entries(s, g) : e[3] < i
    BY <1>3 DEF Entries, Entry
  <2> QED BY <1>2, <2>1
<1>6. x.g = g /\ x.q = spans[t]
  BY DEF At
<1>7. After(t, s, x)
  BY <1>2, <1>5, <1>6 DEF After, Exchanged
<1>8. g.heap = {} => g.used = 0
  BY <1>2, <1>4, FS_EmptySet DEF Sound, PagesCounted
<1>9. CASE g.used = 0
  <2> DEFINE p == [back EXCEPT !.at = IF pc[t].stop THEN "segment" ELSE "try"]
  <2>1. Becomes(t, s, SegmentFreed(s, x)) /\ pc' = [pc EXCEPT ![t] = p]
    BY <1>9 DEF Reclaimed
  <2>2. Asked(p) /\ p.at \in {"segment", "try"}
    BY BackIs
  <2>3. Effect(t, s, SegmentFreed(s, x).g, SegmentFreed(s, x).q, p, list)
    BY <1>1, <2>1 DEF Effect, Becomes
  <2>5. SameLive(g, SegmentFreed(s, x).g)
    BY <1>2, <1>9, NoneLive DEF SegmentFreed
  <2> HIDE DEF p, s, x
  <2>4. Ready(t, s, SegmentFreed(s, x).g, SegmentFreed(s, x).q, p, list)
    BY <1>2, <1>7, <2>2, FreedReady
  <2> QED BY <1>2, <2>3, <2>4, <2>5, LocalStep, LocalSteady
<1>10. CASE g.used # 0
  <2> DEFINE p == IF ~pc[t].stop THEN [back EXCEPT !.at = "try"]
                  ELSE IF pc[t].has THEN Idle
                  ELSE [back EXCEPT !.at = "find"]
  <2>1. UNCHANGED <<seg, spans>> /\ pc' = [pc EXCEPT ![t] = p]
    BY <1>10 DEF Reclaimed
  <2>2. Asked(p) /\ p.at \in {"try", "find", "idle"}
    <3>1. pc[t].stop => pc[t].n \in Counts
      BY <1>1 DEF IInv, Asks
    <3>2. Asked([back EXCEPT !.at = "try"]) /\ [back EXCEPT !.at = "try"].at = "try"
      BY BackIs
    <3>3. Asked(Idle) /\ Idle.at = "idle"
      BY AskedIs, IdleAt
    <3>4. pc[t].n \in Counts => Asked([back EXCEPT !.at = "find"]) /\ [back EXCEPT !.at = "find"].at = "find"
      BY BackIs
    <3> HIDE DEF back
    <3> QED BY <3>1, <3>2, <3>3, <3>4
  <2>3. Effect(t, s, x.g, x.q, p, list)
    <3>1. TypeOK
      BY DEF IInv
    <3> QED BY <1>1, <1>6, <2>1, <3>1 DEF Effect, TypeOK
  <2>5. Steady
    BY <2>1, StillSteady
  <2> HIDE DEF p, s, x
  <2>4. Ready(t, s, x.g, x.q, p, list)
    BY <1>2, <1>6, <1>7, <1>8, <2>2, KeptReady
  <2> QED BY <1>2, <2>3, <2>4, <2>5, LocalStep
<1> QED BY <1>9, <1>10

LEMMA Behind == \A a, b, c \in Nat : a <= b /\ (b < c \/ b <= c) => a <= c
OBVIOUS

LEMMA Ahead == \A a, b, c \in Nat : a < b /\ b <= c => a < c
OBVIOUS

\* A head j is behind i, or is i, if and only if it is behind the span from f to b.
LEMMA Beyond ==
  \A f, i, b, j \in Nat : f <= i /\ i < b /\ (j <= f \/ j >= b) =>
    /\ j # i => (j >= i <=> j >= b)
    /\ j # i => (j < i <=> j < b)
    /\ j >= b => j # i /\ j >= i
OBVIOUS

\* A free span that is coalesced again while its segment is reclaimed.
Rejoined(s, q, g, i, c) ==
  /\ Sound(c.g) /\ c.g.kind = g.kind /\ c.g.owner = g.owner /\ c.g.heap = g.heap
  /\ c.g.live = g.live /\ Pages(c.g) = Pages(g) /\ \A j \in Pages(g) : c.g.slices[j] = g.slices[j]
  /\ c.first \in Heads(c.g) /\ Info <= c.first /\ c.first <= i
  /\ i + g.slices[i].count <= c.first + c.g.slices[c.first].count
  /\ Dequeues(s, q, g, i, c)

LEMMA RejoinedIs ==
  ASSUME NEW s, NEW x, NEW g, NEW i, NEW late, NEW c, Sound(g), i \in Heads(g), i >= Info,
         IsFree(g, i), x.g = g, c = Coalesced(s, x, i, late)
  PROVE  Rejoined(s, x.q, g, i, c)
<1>1. g \in SegmentState /\ Laid(g) /\ g.kind \in {"normal", "huge"}
  BY DEF Sound, Laid, SegmentState
<1>2. i \notin Pages(g)
  BY DEF Pages
<1>3. CASE g.kind = "normal"
  <2>1. Normal(g)
    BY <1>3 DEF Normal, Sound
  <2>2. Like(g, x.g, i)
    BY <1>1 DEF Like
  <2>3. MasksBut(g, x.g, i)
    BY <1>3 DEF MasksBut, MasksFit, MasksAgree, Sound
  <2>4. Joins(s, x, g, i, late, c)
    BY <2>1, <2>2, <2>3 DEF Joins
  <2>5. Joined(s, x, g, i, c)
    BY <2>4, JoinedIs
  <2>6. /\ Normal(c.g) /\ MasksAgree(c.g) /\ SameRest(g, c.g) /\ Pages(c.g) = Pages(g)
        /\ \A j \in Pages(c.g) : c.g.slices[j] = g.slices[j]
    BY <1>2, <2>5 DEF Joined
  <2>7. PagesCounted(c.g)
    BY <2>6 DEF PagesCounted, SameRest, Sound
  <2>8. Sound(c.g)
    BY <2>6, <2>7 DEF Sound, Normal
  <2>9. Dequeues(s, x.q, g, i, c)
    BY <1>3, <2>5 DEF Dequeues, Joined
  <2> QED BY <2>5, <2>6, <2>8, <2>9 DEF Rejoined, Joined, SameRest
<1>4. CASE g.kind = "huge"
  <2> DEFINE f == [g.slices EXCEPT ![i] = [g.slices[i] EXCEPT !.block = 0]]
  <2>1. c.g = [g EXCEPT !.slices = f] /\ c.q = x.q /\ c.first = i
    BY <1>4 DEF Coalesced
  <2>2. i \in 0..Slices /\ g.slices \in [0..Slices -> SliceState] /\ g.slices[i].block = 0
    <3>1. i \in 0..Slices
      <4>1. i \in Nat /\ i < g.entries
        BY NextHead
      <4>2. g.entries \in Nat /\ g.entries \in 0..Slices /\ Slices \in Nat
        BY <1>1, Fields
      <4> QED BY <4>1, <4>2
    <3> QED BY <1>1, <3>1 DEF SegmentState, IsFree
  <2>3. [g.slices[i] EXCEPT !.block = 0] = g.slices[i]
    <3>1. g.slices[i] \in SliceState
      BY <2>2
    <3> QED BY <2>2, <3>1 DEF SliceState
  <2>4. f = g.slices
    BY <2>2, <2>3
  <2>5. [g EXCEPT !.slices = g.slices] = g
    BY <1>1 DEF SegmentState
  <2>6. c.g = g
    BY <2>1, <2>4, <2>5
  <2>7. i + g.slices[i].count <= c.first + c.g.slices[c.first].count /\ c.first <= i
    <3>1. i + g.slices[i].count \in Nat /\ i \in Nat
      BY NextHead
    <3> QED BY <2>1, <2>6, <3>1
  <2>8. Dequeues(s, x.q, g, i, c)
    BY <1>4, <2>1 DEF Dequeues
  <2> QED BY <2>1, <2>6, <2>7, <2>8 DEF Rejoined
<1> QED BY <1>1, <1>3, <1>4

\* The walk is behind the span that has been made of the one at i.
ReclaimOn(t, s, i, g, c, b) ==
  /\ pc[t].at = "reclaim" /\ s = pc[t].s /\ i = pc[t].i /\ g = seg[s] /\ i \in Heads(g)
  /\ Sound(c.g) /\ c.g.kind = g.kind /\ c.g.owner = t /\ c.g.heap = g.heap
  /\ Pages(c.g) = Pages(g) \ {i} /\ c.first \in Heads(c.g) /\ Info <= c.first /\ c.first <= i
  /\ i + g.slices[i].count <= b /\ b = c.first + c.g.slices[c.first].count
  /\ Dequeues(s, spans[t], g, i, c) /\ Becomes(t, s, c) /\ Onward(t, c.g, c.first, FALSE)
  /\ UNCHANGED <<opt, list>> /\ SameLive(g, c.g)

LEMMA ReclaimsOn ==
  ASSUME IInv, NEW t \in Thread, NEW s, NEW i, NEW g, NEW c, NEW b,
         ReclaimOn(t, s, i, g, c, b)
  PROVE  IInv' /\ Steady
<1> DEFINE P == Pages(c.g)
<1>0. /\ pc[t].at = "reclaim" /\ s = pc[t].s /\ i = pc[t].i /\ g = seg[s] /\ i \in Heads(g)
      /\ Sound(c.g) /\ c.g.kind = g.kind /\ c.g.owner = t /\ c.g.heap = g.heap
      /\ P = Pages(g) \ {i} /\ c.first \in Heads(c.g) /\ Info <= c.first /\ c.first <= i
      /\ i + g.slices[i].count <= b /\ b = c.first + c.g.slices[c.first].count
      /\ Dequeues(s, spans[t], g, i, c) /\ Becomes(t, s, c) /\ Onward(t, c.g, c.first, FALSE)
      /\ UNCHANGED <<opt, list>> /\ SameLive(g, c.g)
  BY DEF ReclaimOn
<1>1. /\ s \in Segment /\ g.owner = t /\ Sound(g) /\ Alone(t, s)
      /\ s \notin list /\ i \in Nat /\ g.entries \in Nat
      /\ Pages(g) \ g.heap = {j \in Pages(g) : j >= i}
      /\ Of(spans[t], s) = IF g.kind = "normal" THEN {e \in Entries(s, g) : e[3] < i} ELSE {}
  <2>1. Known(t, s, i, g)
    BY <1>0, Reclaiming
  <2> QED BY <2>1 DEF Known
<1>2. /\ c.first \in Nat /\ b \in Nat /\ c.first < b /\ (b \in Heads(c.g) \/ b >= c.g.entries)
      /\ \A j \in Heads(c.g) : j \in Nat /\ (j <= c.first \/ j >= b)
  BY <1>0, NextHead
<1>3. i < b /\ Info \in Nat /\ b >= Info
  <2>1. i + g.slices[i].count \in Nat /\ i < i + g.slices[i].count
    BY <1>0, <1>1, NextHead
  <2>2. i < b
    <3>1. i \in Nat /\ b \in Nat /\ i + g.slices[i].count <= b
      BY <1>0, <1>1, <1>2
    <3> QED BY <2>1, <3>1, Ahead
  <2>3. Info \in Nat
    BY SegmentAssumption
  <2> QED BY <1>0, <1>2, <2>2, <2>3, Behind
<1>4. PICK p : /\ pc' = [pc EXCEPT ![t] = p] /\ p.at = "reclaim" /\ p.s = s /\ p.i = b /\ Asked(p)
  <2>1. WalksTo(t, b)
    BY <1>0, <1>2, OnwardIs
  <2> QED BY <1>0, <2>1 DEF WalksTo
<1>5. P \ c.g.heap = {j \in P : j >= b}
  <2>1. \A j \in P : j \in Nat /\ j # i /\ (j <= c.first \/ j >= b) /\ j \in Pages(g)
    BY <1>0, <1>2 DEF Pages
  <2>2. \A j \in P : j \notin g.heap <=> j >= i
    BY <1>1, <2>1
  <2>3. \A j \in P : j >= i <=> j >= b
    <3> SUFFICES ASSUME NEW j \in P PROVE j >= i <=> j >= b
      OBVIOUS
    <3>1. /\ c.first \in Nat /\ i \in Nat /\ b \in Nat /\ j \in Nat /\ c.first <= i /\ i < b
          /\ j # i /\ (j <= c.first \/ j >= b)
      BY <1>0, <1>1, <1>2, <1>3, <2>1
    <3> QED BY <3>1, Beyond
  <2> QED BY <1>0, <2>2, <2>3
<1>6. Exchanged(s, spans[t], c.q,
                IF c.g.kind = "normal" THEN {e \in Entries(s, c.g) : e[3] < b} ELSE {})
  <2>1. CASE g.kind = "normal"
    <3>1. Normal(c.g) /\ g.owner # NoThread
      BY <1>0, <1>1, <2>1, NotNone DEF Normal, Sound
    <3>2. Of(spans[t], s) = {e \in Entries(s, g) : e[3] < i}
      BY <1>1, <2>1
    <3>3. /\ Of(spans[t], s) = {e \in Entries(s, g) : e[3] < i}
          /\ g.owner # NoThread /\ g.kind = "normal" /\ Dequeues(s, spans[t], g, i, c)
          /\ Normal(c.g) /\ c.first \in Heads(c.g) /\ c.first <= i /\ i < b /\ i \in Nat
          /\ b = c.first + c.g.slices[c.first].count
      BY <1>0, <1>1, <1>3, <2>1, <3>1, <3>2
    <3>4. Exchanged(s, spans[t], c.q, {e \in Entries(s, c.g) : e[3] < b})
      BY <3>3, QueuesPart
    <3> QED BY <1>0, <2>1, <3>4
  <2>2. CASE g.kind # "normal"
    <3>1. c.q = spans[t] /\ Of(spans[t], s) = {}
      BY <1>0, <1>1, <2>2 DEF Dequeues
    <3> QED BY <1>0, <2>2, <3>1 DEF Exchanged
  <2> QED BY <2>1, <2>2
<1>7. Effect(t, s, c.g, c.q, p, list)
  BY <1>0, <1>4 DEF Effect, Becomes
<1>8. Ready(t, s, c.g, c.q, p, list)
  <2>1. p.i >= Info /\ (p.i \in Heads(c.g) \/ p.i >= c.g.entries)
    BY <1>2, <1>3, <1>4
  <2>2. Pages(c.g) \ c.g.heap = {j \in Pages(c.g) : j >= p.i}
    BY <1>4, <1>5
  <2>3. Exchanged(s, spans[t], c.q,
                  IF c.g.kind = "normal" THEN {e \in Entries(s, c.g) : e[3] < p.i} ELSE {})
    BY <1>4, <1>6
  <2> QED BY <1>0, <1>1, <1>4, <2>1, <2>2, <2>3, ReclaimReady
<1>9. SameLive(seg[s], c.g)
  BY <1>0
<1> QED BY <1>1, <1>7, <1>8, <1>9, LocalStep, LocalSteady

LEMMA ReclaimSliceKeeps ==
  ASSUME IInv, NEW t \in Thread, ReclaimSlice(t)
  PROVE  IInv' /\ Steady
<1> DEFINE s == pc[t].s
           i == pc[t].i
           g == seg[s]
<1>1. pc[t].at = "reclaim" /\ i < g.entries /\ UNCHANGED <<opt, list>>
  BY DEF ReclaimSlice
<1>2. /\ s \in Segment /\ g.owner = t /\ Sound(g) /\ Alone(t, s)
      /\ s \notin list /\ i \in Nat /\ g.entries \in Nat /\ i >= Info /\ i \in Heads(g)
      /\ Pages(g) \ g.heap = {j \in Pages(g) : j >= i}
      /\ Of(spans[t], s) = IF g.kind = "normal" THEN {e \in Entries(s, g) : e[3] < i} ELSE {}
  <2>1. Known(t, s, i, g)
    BY <1>1, Reclaiming
  <2> QED BY <1>1, <2>1 DEF Known
<1>3. ~IsFree(g, i) => i \in Pages(g) \ g.heap
  BY <1>2, StartIs DEF Pages
<1>4. ASSUME NEW late \in BOOLEAN, NEW x, NEW c, ~IsFree(g, i), i \notin g.live,
             x = [g |-> [g EXCEPT !.abandoned = @ - 1], q |-> spans[t]],
             c = PageClear(s, x, i, late), Becomes(t, s, c), Onward(t, c.g, c.first, FALSE)
      PROVE  IInv' /\ Steady
  <2>1. Cleared(g, i, c) /\ Dequeues(s, spans[t], g, i, c)
    BY <1>2, <1>3, <1>4, WalkClears
  <2>2. g.heap \ {i} = g.heap
    BY <1>3, <1>4
  <2> DEFINE b == c.first + c.g.slices[c.first].count
  <2>3. /\ Sound(c.g) /\ c.g.kind = g.kind /\ c.g.owner = t /\ c.g.heap = g.heap
        /\ Pages(c.g) = Pages(g) \ {i} /\ c.first \in Heads(c.g) /\ Info <= c.first /\ c.first <= i
        /\ i + g.slices[i].count <= b
    BY <1>2, <2>1, <2>2 DEF Cleared
  <2>4. ReclaimOn(t, s, i, g, c, b)
    BY <1>1, <1>2, <1>4, <2>1, <2>3, ClearedLive DEF ReclaimOn
  <2> QED BY <2>4, ReclaimsOn
<1>5. ASSUME NEW right, i \in g.live, ~IsFree(g, i), UNCHANGED spans, Onward(t, g, i, right),
             seg' = [seg EXCEPT ![s].abandoned = @ - 1, ![s].heap = @ \cup {i}]
      PROVE  IInv' /\ Steady
  <2> DEFINE h == [g EXCEPT !.abandoned = g.abandoned - 1, !.heap = g.heap \cup {i}]
             b == i + g.slices[i].count
  <2>1. Recounts(g, h) /\ h.owner = g.owner /\ h.heap = g.heap \cup {i} /\ h.kind = g.kind
        /\ h.entries = g.entries /\ SameLive(g, h)
    <3>0. Sound(g) /\ i \in Pages(g) \ g.heap
          /\ h = [g EXCEPT !.abandoned = g.abandoned - 1, !.heap = g.heap \cup {i}]
      BY <1>2, <1>3, <1>5
    <3> HIDE DEF g, i, h
    <3>1. Recounts(g, h) /\ h.owner = g.owner /\ h.heap = g.heap \cup {i} /\ h.live = g.live
      BY <3>0, TakenIn
    <3> QED BY <3>1 DEF Recounts, SameLive
  <2>2. TypeOK /\ seg' = [seg EXCEPT ![s] = h]
    <3>1. TypeOK
      BY DEF IInv
    <3> QED BY <1>2, <1>5, <3>1 DEF TypeOK
  <2> HIDE DEF h
  <2>3. Sound(h) /\ Heads(h) = Heads(g) /\ Pages(h) = Pages(g) /\ Entries(s, h) = Entries(s, g)
    BY <2>1, Recounted DEF SameSpans
  <2>4. /\ b \in Nat /\ i < b /\ (b \in Heads(g) \/ b >= g.entries) /\ Info \in Nat
        /\ \A j \in Heads(g) : j \in Nat /\ (j <= i \/ j >= b)
    BY <1>2, NextHead, StartIs
  <2>5. PICK p : /\ pc' = [pc EXCEPT ![t] = p] /\ p.at = "reclaim" /\ p.s = s /\ p.i = b /\ Asked(p)
    <3>1. WalksTo(t, b)
      BY <1>5, <2>4, OnwardIs
    <3> QED BY <1>1, <3>1 DEF WalksTo
  <2>11. SameLive(seg[s], h)
    BY <2>1
  <2> HIDE DEF s, i, g, b
  <2>6. b >= Info
    BY <1>2, <2>4, Behind
  <2>7. Effect(t, s, h, spans[t], p, list)
    BY <1>1, <1>5, <2>2, <2>5 DEF Effect, TypeOK
  <2>8. Pages(h) \ h.heap = {j \in Pages(h) : j >= p.i}
    <3>1. \A j \in Pages(g) : j \in Nat /\ (j <= i \/ j >= b)
      BY <2>4 DEF Pages
    <3>2. \A j \in Pages(g) : j \notin g.heap <=> j >= i
      BY <1>2
    <3>3. ASSUME NEW j \in Pages(g) PROVE (j >= i /\ j # i) <=> j >= b
      <4>1. i \in Nat /\ b \in Nat /\ j \in Nat /\ i < b /\ (j <= i \/ j >= b)
        BY <1>2, <2>4, <3>1
      <4> QED BY <4>1
    <3>4. \A j \in Pages(g) : (j \notin g.heap /\ j # i) <=> j >= b
      BY <3>2, <3>3
    <3> QED BY <2>1, <2>3, <2>5, <3>4
  <2>9. Exchanged(s, spans[t], spans[t],
                  IF h.kind = "normal" THEN {e \in Entries(s, h) : e[3] < p.i} ELSE {})
    <3>1. ASSUME NEW j \in Heads(g), IsFree(g, j) PROVE j < i <=> j < b
      <4>1. j # i
        BY <1>5, <3>1
      <4>2. i \in Nat /\ b \in Nat /\ j \in Nat /\ i < b /\ (j <= i \/ j >= b)
        BY <1>2, <2>4
      <4> QED BY <4>1, <4>2
    <3>2. \A e \in Entries(s, g) : e[3] < i <=> e[3] < b
      BY <3>1 DEF Entries, Entry
    <3> QED BY <1>2, <2>1, <2>3, <2>5, <3>2 DEF Exchanged
  <2>10. Ready(t, s, h, spans[t], p, list)
    BY <1>2, <2>1, <2>3, <2>4, <2>5, <2>6, <2>8, <2>9, ReclaimReady
  <2> QED BY <1>2, <2>7, <2>10, <2>11, LocalStep, LocalSteady
<1>6. ASSUME NEW late \in BOOLEAN, NEW x, NEW c, IsFree(g, i), x = At(t, s),
             c = Coalesced(s, x, i, late), Becomes(t, s, c), Onward(t, c.g, c.first, FALSE)
      PROVE  IInv' /\ Steady
  <2>1. x.g = g /\ x.q = spans[t]
    BY <1>6 DEF At
  <2>2. Rejoined(s, spans[t], g, i, c)
    BY <1>2, <1>6, <2>1, RejoinedIs
  <2> DEFINE b == c.first + c.g.slices[c.first].count
  <2>3. i \notin Pages(g)
    BY <1>6 DEF Pages
  <2>4. /\ Sound(c.g) /\ c.g.kind = g.kind /\ c.g.owner = t /\ c.g.heap = g.heap
        /\ Pages(c.g) = Pages(g) \ {i} /\ c.first \in Heads(c.g) /\ Info <= c.first /\ c.first <= i
        /\ i + g.slices[i].count <= b /\ Dequeues(s, spans[t], g, i, c)
    BY <1>2, <2>2, <2>3 DEF Rejoined
  <2>6. SameLive(g, c.g)
    BY <1>2, <2>2 DEF Rejoined, SameLive, Sound, PagesCounted
  <2>5. ReclaimOn(t, s, i, g, c, b)
    BY <1>1, <1>2, <1>6, <2>4, <2>6 DEF ReclaimOn
  <2> QED BY <2>5, ReclaimsOn
<1>7. CASE /\ ~IsFree(g, i) /\ i \notin g.live
           /\ \E late \in BOOLEAN :
                LET x == PageClear(s, [g |-> [g EXCEPT !.abandoned = @ - 1], q |-> spans[t]], i, late)
                IN  Becomes(t, s, x) /\ Onward(t, x.g, x.first, FALSE)
  <2> PICK late \in BOOLEAN :
        LET x == PageClear(s, [g |-> [g EXCEPT !.abandoned = @ - 1], q |-> spans[t]], i, late)
        IN  Becomes(t, s, x) /\ Onward(t, x.g, x.first, FALSE)
    BY <1>7
  <2> QED BY <1>4, <1>7
<1>8. CASE /\ ~IsFree(g, i) /\ i \in g.live
           /\ seg' = [seg EXCEPT ![s].abandoned = @ - 1, ![s].heap = @ \cup {i}]
           /\ \E right \in BOOLEAN : Onward(t, g, i, right /\ pc[t].stop)
           /\ UNCHANGED spans
  BY <1>5, <1>8
<1>9. CASE /\ IsFree(g, i)
           /\ \E late \in BOOLEAN :
                LET x == Coalesced(s, At(t, s), i, late)
                IN  Becomes(t, s, x) /\ Onward(t, x.g, x.first, FALSE)
  <2> PICK late \in BOOLEAN :
        LET x == Coalesced(s, At(t, s), i, late)
        IN  Becomes(t, s, x) /\ Onward(t, x.g, x.first, FALSE)
    BY <1>9
  <2> QED BY <1>6, <1>9
<1> QED BY <1>7, <1>8, <1>9 DEF ReclaimSlice

-----------------------------------------------------------------------------
(* The invariant holds of all behaviours.                                  *)

LEMMA InitIInv ==
  ASSUME Init
  PROVE  IInv
<1>1. \A s \in Segment : seg[s] = NoSegment
  BY DEF Init
<1>2. \A t \in Thread : spans[t] = {} /\ pc[t] = Idle
  BY DEF Init
<1>3. TypeOK
  <2>1. seg \in [Segment -> SegmentState]
    BY NoneTyped DEF Init
  <2>2. Idle \in Control
    BY DEF Idle, Control, Label
  <2>3. pc \in [Thread -> Control]
    BY <2>2 DEF Init
  <2> QED BY <2>1, <2>3 DEF Init, TypeOK
<1>4. NoSegment.kind = "none" /\ NoSegment.owner = NoThread /\ NoSegment.heap = {}
  BY DEF NoSegment
<1>5. \A t \in Thread : Walks(t) /\ Asks(t)
  BY <1>2, IdleAt DEF Walks, Asks
<1>6. QueuesExact
  BY <1>1, <1>2, <1>4 DEF QueuesExact
<1>7. list = {}
  BY DEF Init
<1> QED BY <1>1, <1>3, <1>4, <1>5, <1>6, <1>7, NotNone, SegmentAssumption DEF IInv, Exists

LEMMA FindKeeps ==
  ASSUME IInv, NEW t \in Thread, Find(t)
  PROVE  IInv'
<1>1. pc[t].at = "find"
  BY DEF Find
<1> QED BY <1>1, FindIs, FoundKeeps, NotFoundKeeps

LEMMA StepKeeps ==
  ASSUME IInv, NEW t \in Thread, Step(t)
  PROVE  IInv'
<1>1. ASSUME NEW n \in Counts, PageAlloc(t, n) PROVE IInv'
  BY <1>1, PageAllocKeeps
<1>2. CASE Find(t)
  BY <1>2, FindKeeps
<1>3. CASE FindFails(t)
  BY <1>3, FindFailsKeeps
<1>4. CASE SegmentAlloc(t)
  BY <1>4, SegmentAllocKeeps
<1>5. ASSUME NEW s \in Segment, NEW n \in HugeCounts, HugeAlloc(t, s, n) PROVE IInv'
  BY <1>5, HugeAllocKeeps
<1>6. ASSUME NEW s \in Segment, NEW i \in Slice, Reuse(t, s, i) PROVE IInv'
  BY <1>6, ReuseKeeps
<1>7. ASSUME NEW s \in Segment, NEW i \in Slice, PageFree(t, s, i) PROVE IInv'
  BY <1>7, PageFreeKeeps
<1>8. ASSUME NEW s \in Segment, NEW i \in Slice, PageAbandon(t, s, i) PROVE IInv'
  BY <1>8, PageAbandonKeeps
<1>9. CASE Exit(t)
  BY <1>9, ExitKeeps
<1>10. CASE Exited(t)
  BY <1>10, ExitedKeeps
<1>11. CASE Collect(t)
  BY <1>11, CollectKeeps
<1>12. CASE CollectDone(t)
  BY <1>12, CollectDoneKeeps
<1>13. CASE Pop(t)
  BY <1>13, PopKeeps
<1>14. CASE CheckSlice(t)
  BY <1>14, CheckSliceKeeps
<1>15. CASE Checked(t)
  BY <1>15, CheckedKeeps
<1>16. CASE ReclaimSlice(t)
  BY <1>16, ReclaimSliceKeeps
<1>17. CASE Reclaimed(t)
  BY <1>17, ReclaimedKeeps
<1> QED
  BY <1>1, <1>2, <1>3, <1>4, <1>5, <1>6, <1>7, <1>8, <1>9, <1>10, <1>11, <1>12, <1>13,
     <1>14, <1>15, <1>16, <1>17 DEF Step

LEMMA StutterKeeps ==
  ASSUME IInv, UNCHANGED vars
  PROVE  IInv'
<1>1. UNCHANGED <<opt, seg, spans, list, pc>>
  BY DEF vars
<1>2. TypeOK' /\ QueuesExact'
  BY <1>1 DEF IInv, TypeOK, QueuesExact, Queued
<1>3. \A t \in Thread : Walks(t)' /\ Asks(t)'
  BY <1>1 DEF IInv, Walks, Asks, Exists
<1>4. \A s \in Segment : (Place(s) => Place(s)') /\ (Kept(s) => Kept(s)') /\ (Exists(s)' <=> Exists(s))
  BY <1>1 DEF Place, Kept, Exists, Checkers
<1> QED BY <1>1, <1>2, <1>3, <1>4 DEF IInv

LEMMA NextKeeps ==
  ASSUME IInv, [Next]_vars
  PROVE  IInv'
<1>1. ASSUME NEW t \in Thread, Step(t) PROVE IInv'
  BY <1>1, StepKeeps
<1>2. ASSUME NEW s \in Segment, NEW i \in Slice, FreeBlocks(s, i) PROVE IInv'
  BY <1>2, FreeBlocksKeeps
<1>3. CASE UNCHANGED vars
  BY <1>3, StutterKeeps
<1> QED BY <1>1, <1>2, <1>3 DEF Next

\* The inductive invariant: the spans of each segment tile it, the queues, masks and
\* counters agree with them, and each segment is in one place.
THEOREM Invariance == Spec => []IInv
<1>1. Init => IInv
  BY InitIInv
<1>2. IInv /\ [Next]_vars => IInv'
  BY NextKeeps
<1> QED BY <1>1, <1>2, PTL DEF Spec

\* What alloc_hook_segment_is_valid asserts holds of all segments at all times, and
\* the queues of each thread have exactly the free spans that a search should find
\* (segment.c:255-303).
THEOREM SpansAlwaysValid == Spec => []SpansValid
<1>1. IInv => SpansValid
  BY DEF IInv, SpansValid, Sound
<1> QED BY <1>1, Invariance, PTL

\* The pages and the info slices of each normal segment are committed and no delayed
\* purge waits for them (segment.c:260, 545).
THEOREM MasksAlwaysValid == Spec => []MasksValid
<1>1. IInv => MasksValid
  BY DEF IInv, MasksValid, Sound
<1> QED BY <1>1, Invariance, PTL

\* Each segment has one owner, is on the abandoned list, or is checked by one thread.
THEOREM OwnersAlwaysOne == Spec => []OneOwner
<1>1. ASSUME IInv PROVE OneOwner
  <2> SUFFICES ASSUME NEW s \in Segment
               PROVE  /\ Exists(s) =>
                           Cardinality(Checkers(s)) + (IF s \in list THEN 1 ELSE 0)
                             + (IF seg[s].owner # NoThread THEN 1 ELSE 0) = 1
                      /\ ~Exists(s) => s \notin list /\ Checkers(s) = {}
                      /\ seg[s].owner = NoThread => seg[s].heap = {} /\ seg[s].used = seg[s].abandoned
                      /\ seg[s].owner = Ended => seg[s].used = 0
    BY DEF OneOwner
  <2>1. ASSUME Exists(s)
        PROVE  Cardinality(Checkers(s)) + (IF s \in list THEN 1 ELSE 0)
                 + (IF seg[s].owner # NoThread THEN 1 ELSE 0) = 1
    <3>1. Cardinality({}) = 0 /\ \A t \in Thread : Cardinality({t}) = 1
      BY FS_EmptySet, FS_Singleton
    <3>2. Place(s)
      BY <1>1, <2>1 DEF IInv
    <3> QED BY <3>1, <3>2 DEF Place
  <2>2. ASSUME ~Exists(s) PROVE s \notin list /\ Checkers(s) = {}
    <3>1. s \notin list
      BY <1>1, <2>2 DEF IInv
    <3>2. \A t \in Thread : ~(pc[t].at = "check" /\ pc[t].s = s)
      BY <1>1, <2>2 DEF IInv, Walks
    <3> QED BY <3>1, <3>2 DEF Checkers
  <2>3. ASSUME seg[s].owner = NoThread
        PROVE  seg[s].heap = {} /\ seg[s].used = seg[s].abandoned
    <3>1. seg[s].heap = {}
      BY <1>1, <2>3 DEF IInv
    <3>2. CASE Exists(s)
      <4>1. PagesCounted(seg[s])
        BY <1>1, <3>2 DEF IInv, Sound
      <4>2. Pages(seg[s]) \ seg[s].heap = Pages(seg[s])
        BY <3>1
      <4> QED BY <3>1, <4>1, <4>2 DEF PagesCounted
    <3>3. CASE ~Exists(s)
      BY <1>1, <3>1, <3>3 DEF IInv, NoSegment
    <3> QED BY <3>2, <3>3
  <2>4. seg[s].owner = Ended => seg[s].used = 0
    BY <1>1 DEF IInv
  <2> QED BY <2>1, <2>2, <2>3, <2>4
<1> QED BY <1>1, Invariance, PTL

-----------------------------------------------------------------------------
(* Pages with live blocks as ranges of a pool.                             *)

\* LivePages of f, a state of all segments.
RangeOf(f, s, i) == {s} \X SpanOf(f[s], i)
RangesOf(f) == UNION {{{s} \X SpanOf(f[s], i) : i \in f[s].live} : s \in Segment}

\* In h, the page at i of segment s has live blocks as well.
MorePages(f, h, s, i) ==
  /\ s \in Segment /\ i \notin f[s].live /\ h[s].live = f[s].live \cup {i}
  /\ \A j \in f[s].live : h[s].slices[j].count = f[s].slices[j].count
  /\ \A r \in Segment : /\ r # s => SameLive(f[r], h[r])
                        /\ h[r].live \subseteq Pages(h[r]) /\ (h[r].live # {} => Laid(h[r]))

\* The pages of h are those of f and r, which is apart from them.
OneMoreRange(f, h, r) ==
  /\ RangesOf(h) = RangesOf(f) \cup {r} /\ r \in Ranges /\ r # {}
  /\ \A x \in RangesOf(f) : r \cap x = {}

LEMMA SpansApart ==
  ASSUME NEW g, Laid(g), NEW i \in Pages(g), NEW j \in Pages(g), i # j
  PROVE  SpanOf(g, i) \cap SpanOf(g, j) = {}
<1>1. i \in Heads(g) /\ j \in Heads(g) /\ Tiles(g, Heads(g)) /\ Counted(g) /\ g.entries \in Nat
  BY Fields DEF Pages, Laid
<1>2. Heads(g) \subseteq 0..(g.entries - 1)
  BY <1>1 DEF Tiles
<1>3. i \in Nat /\ j \in Nat /\ g.slices[i].count \in Nat /\ g.slices[j].count \in Nat
  BY <1>1, <1>2 DEF Counted
<1>4. (j <= i \/ j >= i + g.slices[i].count) /\ (i <= j \/ i >= j + g.slices[j].count)
  BY <1>1 DEF Tiles
<1> DEFINE m == g.slices[i].count
           n == g.slices[j].count
<1>5. SpanOf(g, i) = i..(i + m - 1) /\ SpanOf(g, j) = j..(j + n - 1)
  BY DEF SpanOf, Span
<1>6. m \in Nat /\ n \in Nat /\ (j <= i \/ j >= i + m) /\ (i <= j \/ i >= j + n)
  BY <1>3, <1>4
<1> HIDE DEF m, n
<1>7. \A k \in Int : ~(k \in i..(i + m - 1) /\ k \in j..(j + n - 1))
  BY <1>3, <1>6
<1> QED BY <1>3, <1>5, <1>6, <1>7

LEMMA RangeIs ==
  ASSUME NEW f, NEW s \in Segment, Laid(f[s]), NEW i \in Pages(f[s])
  PROVE  RangeOf(f, s, i) \in Ranges /\ RangeOf(f, s, i) # {}
<1> DEFINE g == f[s]
           n == g.slices[i].count
<1>1. i \in Heads(g) /\ i # 0 /\ Tiles(g, Heads(g)) /\ Counted(g) /\ g.entries \in 0..Slices
      /\ n \in Counts \cup HugeCounts /\ Slices \in Nat /\ g.slices[0].count = Info /\ Info \in Nat
  BY Fields, SegmentAssumption DEF Pages, Laid
<1>2. Heads(g) \subseteq 0..(g.entries - 1) /\ 0 \in Heads(g)
  BY <1>1 DEF Tiles
<1>3. i \in Slice /\ i \in Nat
  BY <1>1, <1>2 DEF Slice
<1>4. i <= 0 \/ i >= 0 + Info
  BY <1>1, <1>2 DEF Tiles
<1>5. i \in Slice \ (0..(Info - 1))
  BY <1>1, <1>3, <1>4
<1>6. RangeOf(f, s, i) = {s} \X Span(i, n)
  BY DEF RangeOf, SpanOf
<1>7. i \in Span(i, n)
  <2>1. n \in Nat /\ n > 0
    <3>1. n > 0
      BY <1>1 DEF Tiles
    <3>2. n \in Nat
      <4>1. \A k \in Counts \cup HugeCounts : k \in Nat
        BY SegmentAssumption
      <4> HIDE DEF n
      <4> QED BY <1>1, <4>1
    <3> QED BY <3>1, <3>2
  <2> HIDE DEF n
  <2> QED BY <1>3, <2>1 DEF Span
<1>8. <<s, i>> \in RangeOf(f, s, i)
  BY <1>6, <1>7
<1> HIDE DEF n, g
<1> QED BY <1>1, <1>5, <1>6, <1>8 DEF Ranges

LEMMA OneMoreRangeIs ==
  ASSUME NEW f, NEW h, NEW s, NEW i, MorePages(f, h, s, i)
  PROVE  OneMoreRange(f, h, RangeOf(h, s, i))
<1> DEFINE r == RangeOf(h, s, i)
<1>1. /\ s \in Segment /\ i \notin f[s].live /\ h[s].live = f[s].live \cup {i}
      /\ \A j \in f[s].live : h[s].slices[j].count = f[s].slices[j].count
      /\ \A q \in Segment : /\ q # s => SameLive(f[q], h[q])
                            /\ h[q].live \subseteq Pages(h[q]) /\ (h[q].live # {} => Laid(h[q]))
  BY DEF MorePages
<1>2. \A q \in Segment : \A j \in f[q].live : j \in h[q].live /\ RangeOf(f, q, j) = RangeOf(h, q, j)
  BY <1>1 DEF SameLive, RangeOf, SpanOf
<1>3. \A x : x \in RangesOf(f) <=> \E q \in Segment : \E j \in f[q].live : x = RangeOf(f, q, j)
  BY DEF RangesOf, RangeOf
<1>4. \A x : x \in RangesOf(h) <=> \E q \in Segment : \E j \in h[q].live : x = RangeOf(h, q, j)
  BY DEF RangesOf, RangeOf
<1>5. \A q \in Segment : \A j \in h[q].live : (q = s /\ j = i) \/ j \in f[q].live
  BY <1>1 DEF SameLive
<1>6. i \in h[s].live /\ i \in Pages(h[s]) /\ Laid(h[s])
  BY <1>1
<1>7. r \in Ranges /\ r # {}
  BY <1>1, <1>6, RangeIs
<1>8. RangesOf(h) = RangesOf(f) \cup {r}
  <2>1. ASSUME NEW x \in RangesOf(h) PROVE x \in RangesOf(f) \cup {r}
    BY <1>2, <1>3, <1>4, <1>5
  <2>2. ASSUME NEW x \in RangesOf(f) PROVE x \in RangesOf(h)
    BY <1>2, <1>3, <1>4
  <2>3. r \in RangesOf(h)
    BY <1>1, <1>4, <1>6
  <2> QED BY <2>1, <2>2, <2>3
<1>9. ASSUME NEW x \in RangesOf(f) PROVE r \cap x = {}
  <2>1. PICK q \in Segment : \E j \in f[q].live : x = RangeOf(f, q, j)
    BY <1>3
  <2>0. PICK j \in f[q].live : x = RangeOf(f, q, j)
    BY <2>1
  <2>2. j \in h[q].live /\ x = RangeOf(h, q, j) /\ j \in Pages(h[q])
    BY <1>1, <1>2, <2>0
  <2>3. CASE q # s
    BY <2>2, <2>3 DEF RangeOf
  <2>4. CASE q = s
    <3>1. j # i
      BY <1>1, <2>0, <2>4
    <3>2. SpanOf(h[s], i) \cap SpanOf(h[s], j) = {}
      BY <1>6, <2>2, <2>4, <3>1, SpansApart
    <3> QED BY <2>2, <2>4, <3>2 DEF RangeOf
  <2> QED BY <2>3, <2>4
<1> QED BY <1>7, <1>8, <1>9 DEF OneMoreRange

\* Live blocks are in pages of a segment that is laid out.
LiveSound ==
  \A s \in Segment : seg[s].live \subseteq Pages(seg[s]) /\ (seg[s].live # {} => Laid(seg[s]))

LEMMA LiveLaid == IInv => LiveSound
<1> SUFFICES ASSUME IInv, NEW s \in Segment
             PROVE  seg[s].live \subseteq Pages(seg[s]) /\ (seg[s].live # {} => Laid(seg[s]))
  BY DEF LiveSound
<1>1. CASE Exists(s)
  BY <1>1 DEF IInv, Sound, PagesCounted
<1>2. CASE ~Exists(s)
  <2>1. seg[s].live = {}
    BY <1>2 DEF IInv, NoSegment
  <2> QED BY <2>1
<1> QED BY <1>1, <1>2

\* Each step takes a page, gives one up or leaves the pages with live blocks alone.
Grows(s, i) == MorePages(seg, seg', s, i)
Shrinks(s, i) == MorePages(seg', seg, s, i)

LEMMA SteadyPool ==
  ASSUME Steady
  PROVE  LivePages' = LivePages
<1>1. \A s \in Segment : seg'[s].live = seg[s].live
                         /\ \A i \in seg[s].live : SpanOf(seg'[s], i) = SpanOf(seg[s], i)
  BY DEF Steady, SameLive, SpanOf
<1> DEFINE Of1(s) == {{s} \X SpanOf(seg[s], i) : i \in seg[s].live}
           Of2(s) == {{s} \X SpanOf(seg'[s], i) : i \in seg'[s].live}
<1>2. ASSUME NEW s \in Segment PROVE Of1(s) = Of2(s)
  <2>1. ASSUME NEW x \in Of1(s) PROVE x \in Of2(s)
    BY <1>1, <2>1
  <2>2. ASSUME NEW x \in Of2(s) PROVE x \in Of1(s)
    BY <1>1, <2>2
  <2> QED BY <2>1, <2>2
<1>3. {Of1(s) : s \in Segment} = {Of2(s) : s \in Segment}
  <2> HIDE DEF Of1, Of2
  <2> QED BY <1>2
<1>4. LivePages = UNION {Of1(s) : s \in Segment} /\ LivePages' = UNION {Of2(s) : s \in Segment}
  BY DEF LivePages
<1> QED BY <1>3, <1>4

LEMMA GrowsPool ==
  ASSUME NEW s, NEW i, Grows(s, i)
  PROVE  Pool!Next
<1> DEFINE r == RangeOf(seg', s, i)
           P == RangesOf(seg)
           Q == RangesOf(seg')
<1>1. Q = P \cup {r} /\ r \in Ranges /\ r # {} /\ \A x \in P : r \cap x = {}
  BY OneMoreRangeIs DEF Grows, OneMoreRange
<1>2. LivePages = P /\ LivePages' = Q
  BY DEF LivePages, RangesOf
<1> HIDE DEF P, Q, r
<1>3. r \in Q \ P
  BY <1>1
<1>4. Pool!Claimed = UNION P
  <2>1. {UNION ([t \in {"pages"} |-> LivePages][u]) : u \in {"pages"}} = {UNION LivePages}
    OBVIOUS
  <2>2. UNION {UNION LivePages} = UNION LivePages
    OBVIOUS
  <2> QED BY <1>2, <2>1, <2>2, Zenon DEF Pool!Claimed
<1>5. r \cap UNION P = {}
  BY <1>1
<1>6. [t \in {"pages"} |-> Q] = [[t \in {"pages"} |-> P] EXCEPT !["pages"] = P \cup {r}]
  BY <1>1
<1>7. Pool!Claim("pages", r)
  BY <1>1, <1>2, <1>4, <1>5, <1>6 DEF Pool!Claim
<1> QED BY <1>2, <1>3, <1>7 DEF Pool!Next

LEMMA ShrinksPool ==
  ASSUME NEW s, NEW i, Shrinks(s, i)
  PROVE  Pool!Next
<1> DEFINE r == RangeOf(seg, s, i)
           P == RangesOf(seg)
           Q == RangesOf(seg')
<1>1. P = Q \cup {r} /\ r # {} /\ \A x \in Q : r \cap x = {}
  BY OneMoreRangeIs DEF Shrinks, OneMoreRange
<1>2. LivePages = P /\ LivePages' = Q
  BY DEF LivePages, RangesOf
<1> HIDE DEF P, Q, r
<1>3. r \in P \ Q /\ Q = P \ {r}
  BY <1>1
<1>4. [t \in {"pages"} |-> Q] = [[t \in {"pages"} |-> P] EXCEPT !["pages"] = P \ {r}]
  BY <1>3
<1> QED BY <1>2, <1>3, <1>4 DEF Pool!Next, Pool!Release

\* A step that changes only segment s, and there makes the page at i one with live
\* blocks, or makes it one without.
LEMMA GrowsIs ==
  ASSUME IInv', NEW s \in Segment, NEW i, \A r \in Segment \ {s} : seg'[r] = seg[r],
         i \notin seg[s].live, seg'[s].live = seg[s].live \cup {i},
         \A j \in seg[s].live : seg'[s].slices[j].count = seg[s].slices[j].count
  PROVE  Pool!Next
<1>1. LiveSound'
  BY LiveLaid, PTL
<1>2. \A r \in Segment : r # s => SameLive(seg[r], seg'[r])
  BY DEF SameLive
<1>3. Grows(s, i)
  BY <1>1, <1>2 DEF Grows, MorePages, LiveSound
<1> QED BY <1>3, GrowsPool

LEMMA ShrinksIs ==
  ASSUME IInv, NEW s \in Segment, NEW i, \A r \in Segment \ {s} : seg'[r] = seg[r],
         i \in seg[s].live, seg'[s].live = seg[s].live \ {i}, seg'[s].slices = seg[s].slices
  PROVE  Pool!Next
<1>1. LiveSound
  BY LiveLaid
<1>2. \A r \in Segment : r # s => SameLive(seg'[r], seg[r])
  BY DEF SameLive
<1>3. i \notin seg'[s].live /\ seg[s].live = seg'[s].live \cup {i}
      /\ \A j \in seg'[s].live : seg[s].slices[j].count = seg'[s].slices[j].count
  OBVIOUS
<1>4. Shrinks(s, i)
  BY <1>1, <1>2, <1>3 DEF Shrinks, MorePages, LiveSound
<1> QED BY <1>4, ShrinksPool

\* A search that finds takes a page; one that cannot commit it changes nothing.
LEMMA FindPools ==
  ASSUME IInv, NEW t \in Thread, Find(t)
  PROVE  Pool!Next \/ Steady
<1>1. pc[t].at = "find"
  BY DEF Find
<1>2. ASSUME NEW e \in Candidates(t, pc[t].n), NEW due \in BOOLEAN, NEW y, NEW w, NEW a, NEW h,
             Found(t, e[2], e[3], pc[t].n, due, y, w, a, h)
      PROVE  Pool!Next
  <2> DEFINE s == e[2]
             i == e[3]
  <2>1. s \in Segment /\ Sound(seg[s])
    BY <1>1, CandidateIs
  <2>2. IInv' /\ Made(s, seg[s], At(t, s), i, pc[t].n, y, seg'[s])
    BY <1>1, <1>2, FoundKeeps
  <2>3. seg[s].live \subseteq Pages(seg[s])
    BY <2>1 DEF Sound, PagesCounted
  <2>4. i \notin seg[s].live /\ seg'[s].live = seg[s].live \cup {i}
        /\ \A j \in seg[s].live : seg'[s].slices[j].count = seg[s].slices[j].count
    BY <2>2, <2>3 DEF Made
  <2>5. \A r \in Segment \ {s} : seg'[r] = seg[r]
    BY <1>2 DEF Found, Becomes, IInv, TypeOK
  <2> HIDE DEF s, i
  <2> QED BY <2>1, <2>2, <2>4, <2>5, GrowsIs
<1>3. ASSUME NEW e \in Candidates(t, pc[t].n), NEW due \in BOOLEAN, NEW y, NEW c,
             NotFound(t, e[2], e[3], pc[t].n, due, y, c)
      PROVE  Steady
  BY <1>1, <1>3, NotFoundKeeps
<1> QED BY <1>2, <1>3, FindIs

LEMMA HugeAllocPools ==
  ASSUME IInv, NEW t \in Thread, NEW s \in Segment, NEW n \in HugeCounts, HugeAlloc(t, s, n)
  PROVE  Pool!Next
<1>1. IInv' /\ seg'[s].live = {Info}
  BY HugeAllocKeeps DEF IsNewHuge
<1>2. seg[s].live = {}
  BY DEF HugeAlloc, IInv, Exists, NoSegment
<1>3. \A r \in Segment \ {s} : seg'[r] = seg[r]
  BY DEF HugeAlloc, IInv, TypeOK
<1> QED BY <1>1, <1>2, <1>3, GrowsIs

LEMMA ReusePools ==
  ASSUME IInv, NEW t \in Thread, NEW s \in Segment, NEW i \in Slice, Reuse(t, s, i)
  PROVE  Pool!Next
<1>1. IInv' /\ seg'[s].live = seg[s].live \cup {i} /\ seg'[s].slices = seg[s].slices
  BY ReuseKeeps
<1>2. i \notin seg[s].live /\ \A r \in Segment \ {s} : seg'[r] = seg[r]
  BY DEF Reuse, IInv, TypeOK
<1> QED BY <1>1, <1>2, GrowsIs

LEMMA FreeBlocksPools ==
  ASSUME IInv, NEW s \in Segment, NEW i \in Slice, FreeBlocks(s, i)
  PROVE  Pool!Next
<1>1. seg'[s].live = seg[s].live \ {i} /\ seg'[s].slices = seg[s].slices
  BY FreeBlocksKeeps
<1>2. i \in seg[s].live /\ \A r \in Segment \ {s} : seg'[r] = seg[r]
  BY DEF FreeBlocks, IInv, TypeOK
<1> QED BY <1>1, <1>2, ShrinksIs

LEMMA StepPools ==
  ASSUME IInv, NEW t \in Thread, Step(t)
  PROVE  Pool!Next \/ Steady
<1>1. ASSUME NEW n \in Counts, PageAlloc(t, n) PROVE Steady
  BY <1>1, StillSteady DEF PageAlloc
<1>2. CASE Find(t)
  BY <1>2, FindPools
<1>3. CASE FindFails(t)
  BY <1>3, StillSteady DEF FindFails
<1>4. CASE SegmentAlloc(t)
  BY <1>4, SegmentAllocKeeps
<1>5. ASSUME NEW s \in Segment, NEW n \in HugeCounts, HugeAlloc(t, s, n) PROVE Pool!Next
  BY <1>5, HugeAllocPools
<1>6. ASSUME NEW s \in Segment, NEW i \in Slice, Reuse(t, s, i) PROVE Pool!Next
  BY <1>6, ReusePools
<1>7. ASSUME NEW s \in Segment, NEW i \in Slice, PageFree(t, s, i) PROVE Steady
  BY <1>7, PageFreeKeeps
<1>8. ASSUME NEW s \in Segment, NEW i \in Slice, PageAbandon(t, s, i) PROVE Steady
  BY <1>8, PageAbandonKeeps
<1>9. CASE Exit(t)
  BY <1>9, StillSteady DEF Exit
<1>10. CASE Exited(t)
  BY <1>10, ExitedKeeps
<1>11. CASE Collect(t)
  BY <1>11, StillSteady DEF Collect
<1>12. CASE CollectDone(t)
  BY <1>12, StillSteady DEF CollectDone
<1>13. CASE Pop(t)
  BY <1>13, StillSteady DEF Pop
<1>14. CASE CheckSlice(t)
  BY <1>14, CheckSliceKeeps
<1>15. CASE Checked(t)
  BY <1>15, CheckedKeeps
<1>16. CASE ReclaimSlice(t)
  BY <1>16, ReclaimSliceKeeps
<1>17. CASE Reclaimed(t)
  BY <1>17, ReclaimedKeeps
<1> QED
  BY <1>1, <1>2, <1>3, <1>4, <1>5, <1>6, <1>7, <1>8, <1>9, <1>10, <1>11, <1>12, <1>13,
     <1>14, <1>15, <1>16, <1>17 DEF Step

\* The pages with live blocks are disjoint ranges of slices at all times: a step takes
\* one page, gives one up, or moves none, whatever is split, coalesced, abandoned and
\* reclaimed around them (segment.c:562-1424).
THEOREM PoolRefinement == Spec => ImplementsPool
<1>1. Init => Pool!Init
  <2> SUFFICES ASSUME Init PROVE LivePages = {}
    BY DEF Pool!Init
  <2>1. \A s \in Segment : seg[s].live = {}
    BY DEF Init, NoSegment
  <2> QED BY <2>1 DEF LivePages
<1>2. IInv /\ [Next]_vars => [Pool!Next]_([t \in {"pages"} |-> LivePages])
  <2> SUFFICES ASSUME IInv, [Next]_vars
               PROVE  Pool!Next \/ LivePages' = LivePages
    OBVIOUS
  <2>1. ASSUME NEW t \in Thread, Step(t) PROVE Pool!Next \/ Steady
    BY <2>1, StepPools
  <2>2. ASSUME NEW s \in Segment, NEW i \in Slice, FreeBlocks(s, i) PROVE Pool!Next
    BY <2>2, FreeBlocksPools
  <2>3. CASE UNCHANGED vars
    <3>1. UNCHANGED seg
      BY <2>3 DEF vars
    <3> QED BY <3>1, StillSteady, SteadyPool
  <2> QED BY <2>1, <2>2, <2>3, SteadyPool DEF Next
<1> QED BY <1>1, <1>2, Invariance, PTL DEF Spec, ImplementsPool, Pool!Spec
=============================================================================

-------------------------- MODULE ArenaTableProofs --------------------------
(***************************************************************************)
(* Memory from the OS and from arenas is accounted for, for any number of  *)
(* threads, pages, arenas and calls.                                       *)
(***************************************************************************)
EXTENDS ArenaTableProps, FiniteSetTheorems, WellFoundedInduction, TLAPS

-----------------------------------------------------------------------------
(* Numbers.                                                                *)

LEMMA Euclid ==
  ASSUME NEW n \in Int, NEW b \in Nat, b > 0
  PROVE  /\ n \div b \in Int /\ n % b \in 0..(b - 1)
         /\ n = b * (n \div b) + (n % b)
OBVIOUS

LEMMA Steps ==
  ASSUME NEW b \in Nat, b > 0, NEW d \in Int, NEW k \in Int, d < k
  PROVE  b * d + b <= b * k
<1>1. b * (d + 1) <= b * k
  OBVIOUS
<1> QED BY <1>1

LEMMA Quotient ==
  ASSUME NEW n \in Int, NEW b \in Nat, b > 0, NEW k \in Int, b * k <= n, n < b * k + b
  PROVE  n \div b = k
<1> DEFINE d == n \div b
           r == n % b
<1>1. d \in Int /\ r \in 0..(b - 1) /\ n = b * d + r
  BY Euclid
<1> HIDE DEF d, r
<1>2. b * d <= n /\ n < b * d + b
  BY <1>1
<1>3. ~(d < k) /\ ~(k < d)
  <2>1. b * d \in Int /\ b * k \in Int
    BY <1>1
  <2> QED BY <1>1, <1>2, <2>1, Steps
<1> QED BY <1>1, <1>3 DEF d

LEMMA Multiple ==
  ASSUME NEW n \in Int, NEW b \in Nat, b > 0
  PROVE  n % b = 0 <=> \E k \in Int : n = b * k
<1>1. n % b = 0 => n = b * (n \div b) /\ n \div b \in Int
  BY Euclid
<1>2. ASSUME NEW k \in Int, n = b * k PROVE n % b = 0
  <2>1. n \div b = k
    BY <1>2, Quotient
  <2> QED BY <1>2, <2>1, Euclid
<1> QED BY <1>1, <1>2

LEMMA MultiplesAdd ==
  ASSUME NEW m \in Int, NEW n \in Int, NEW b \in Nat, b > 0, m % b = 0, n % b = 0
  PROVE  (m + n) % b = 0 /\ (m - n) % b = 0
<1>1. PICK k \in Int, l \in Int : m = b * k /\ n = b * l
  BY Multiple
<1>2. m + n = b * (k + l) /\ m - n = b * (k - l)
  BY <1>1
<1> QED BY <1>2, Multiple

LEMMA AlignUpIs ==
  ASSUME NEW n \in Int, NEW b \in Nat, b > 0
  PROVE  /\ AlignUp(n, b) \in Int /\ AlignUp(n, b) % b = 0
         /\ n <= AlignUp(n, b) /\ AlignUp(n, b) < n + b
<1> DEFINE d == (n + b - 1) \div b
           r == (n + b - 1) % b
<1>1. d \in Int /\ r \in 0..(b - 1) /\ n + b - 1 = b * d + r
  BY Euclid
<1>2. AlignUp(n, b) = d * b
  BY DEF AlignUp
<1> HIDE DEF d, r
<1>3. d * b = b * d /\ b * d \in Int
  BY <1>1
<1>4. (b * d) % b = 0
  BY <1>1, <1>3, Multiple
<1> QED BY <1>1, <1>2, <1>3, <1>4

\* A multiple is its own rounding, and of two multiples one is a whole step ahead.
LEMMA AlignedUp ==
  ASSUME NEW n \in Int, NEW b \in Nat, b > 0, n % b = 0
  PROVE  AlignUp(n, b) = n
<1>1. PICK k \in Int : n = b * k
  BY Multiple
<1>2. (n + b - 1) \div b = k
  BY <1>1, Quotient
<1> QED BY <1>1, <1>2 DEF AlignUp

LEMMA NextMultiple ==
  ASSUME NEW m \in Int, NEW n \in Int, NEW b \in Nat, b > 0, m % b = 0, n % b = 0, m < n
  PROVE  m + b <= n
<1>1. PICK k \in Int, l \in Int : m = b * k /\ n = b * l
  BY Multiple
<1>2. ~(l <= k)
  BY <1>1
<1>3. k + 1 <= l
  BY <1>1, <1>2
<1>4. b * (k + 1) <= b * l
  BY <1>1, <1>3
<1> QED BY <1>1, <1>4

\* A quotient grows with what is divided.
LEMMA QuotientGrows ==
  ASSUME NEW m \in Int, NEW n \in Int, NEW b \in Nat, b > 0, m <= n
  PROVE  m \div b <= n \div b
<1> DEFINE d == m \div b
           e == n \div b
<1>1. d \in Int /\ e \in Int /\ b * d <= m /\ n < b * e + b
  BY Euclid
<1> HIDE DEF d, e
<1>2. ~(e <= d - 1)
  <2>1. SUFFICES ASSUME e <= d - 1 PROVE FALSE
    OBVIOUS
  <2>2. b * e <= b * (d - 1)
    BY <1>1, <2>1
  <2> QED BY <1>1, <2>2
<1> QED BY <1>1, <1>2 DEF d, e

LEMMA ShiftedQuotient ==
  ASSUME NEW n \in Int, NEW k \in Int, NEW b \in Nat, b > 0
  PROVE  (n + b * k) \div b = n \div b + k
<1> DEFINE d == n \div b
           r == n % b
<1>1. d \in Int /\ r \in 0..(b - 1) /\ n = b * d + r
  BY Euclid
<1> HIDE DEF d, r
<1>2. n + b * k = b * (d + k) + r
  BY <1>1
<1>3. b * (d + k) <= n + b * k /\ n + b * k < b * (d + k) + b /\ n + b * k \in Int /\ d + k \in Int
  BY <1>1, <1>2
<1>4. (n + b * k) \div b = d + k
  BY <1>3, Quotient
<1> QED BY <1>4 DEF d

-----------------------------------------------------------------------------
(* Constants, sizes and places.                                            *)

LEMMA Fixed ==
  /\ Pages \in Nat /\ Block \in Nat /\ Block > 1 /\ HugeArea \in Nat /\ Retry \in Nat
  /\ HugeArea % Block = 0 /\ DEBUG \in BOOLEAN /\ IsFiniteSet(Thread)
  /\ MaxCalls \in Nat /\ MaxArenas \in Nat /\ Spare \in Nat /\ Cardinality(Thread) \in Nat
<1>1. {Pages, Block, HugeArea, Retry} \subseteq Nat /\ {MaxCalls, MaxArenas, Spare} \subseteq Nat
  BY OsAssumption, ArenaTableAssumption
<1>2. Cardinality(Thread) \in Nat
  BY ArenaTableAssumption, FS_CardinalityType
<1> QED BY <1>1, <1>2, OsAssumption, ArenaTableAssumption

\* What a call asks for.
LEMMA CallIs ==
  ASSUME NEW c \in Calls
  PROVE  /\ c \in Call /\ c.op \in Op /\ c.size \in Nat /\ c.size > 0 /\ c.size <= Pages
         /\ c.align \in Nat /\ c.align > 0 /\ c.offset \in Nat
         /\ Extra(c) \in Nat /\ Extra(c) < c.align
<1>1. /\ c \in Call /\ c.op \in Op /\ c.size \in Nat /\ c.size > 0 /\ c.size <= Pages
      /\ c.align \in Nat /\ c.align > 0 /\ c.offset \in Nat
  BY Fixed, ArenaTableAssumption DEF Call
<1>0. c.offset \in Int
  BY <1>1
<1>2. AlignUp(c.offset, c.align) \in Int /\ c.offset <= AlignUp(c.offset, c.align)
      /\ AlignUp(c.offset, c.align) < c.offset + c.align
  BY <1>0, <1>1, AlignUpIs
<1> QED BY <1>1, <1>2 DEF Extra

\* Where the aligned part of a call begins: at the start of a segment.
LEMMA ExtraIs ==
  ASSUME NEW c \in Calls, c.op = "alloc"
  PROVE  c.align % Block = 0 /\ Extra(c) % Block = 0
<1>1. c.align % Block = 0 /\ c.offset % Block = 0
  BY ArenaTableAssumption
<1>0. /\ c.align \in Nat /\ c.align \in Int /\ c.align > 0 /\ c.offset \in Nat /\ c.offset \in Int
      /\ Block \in Nat /\ Block > 0
  BY CallIs, Fixed
<1>2. PICK k \in Int : c.align = Block * k
  BY <1>0, <1>1, Multiple
<1>3. /\ AlignUp(c.offset, c.align) \in Int /\ AlignUp(c.offset, c.align) % c.align = 0
      /\ c.align \in Nat /\ c.align > 0 /\ c.offset \in Nat
  BY <1>0, AlignUpIs
<1>4. PICK l \in Int : AlignUp(c.offset, c.align) = c.align * l
  BY <1>3, Multiple
<1>5. c.align * l = Block * (k * l) /\ k * l \in Int
  BY <1>0, <1>2
<1>6. AlignUp(c.offset, c.align) % Block = 0
  <2>1. \E m \in Int : AlignUp(c.offset, c.align) = Block * m
    BY <1>4, <1>5
  <2> QED BY <1>0, <1>3, <2>1, Multiple
<1>7. (AlignUp(c.offset, c.align) - c.offset) % Block = 0
  BY <1>0, <1>1, <1>3, <1>6, MultiplesAdd
<1> QED BY <1>1, <1>7 DEF Extra

LEMMA GoodSizeIs ==
  ASSUME NEW n \in Nat
  PROVE  /\ GoodSize(n) \in Nat /\ n <= GoodSize(n)
         /\ n % Block = 0 => GoodSize(n) = n
<1>0. n \in Int /\ Block \in Nat /\ Block > 0
  BY Fixed
<1>1. AlignUp(n, Block) \in Int /\ n <= AlignUp(n, Block)
  BY <1>0, AlignUpIs
<1>2. n % Block = 0 => AlignUp(n, Block) = n
  BY <1>0, AlignedUp
<1> QED BY <1>1, <1>2, Fixed DEF GoodSize

\* Every set of natural numbers has a least one.
LEMMA Least ==
  ASSUME NEW S \in SUBSET Nat, S # {}
  PROVE  \E x \in S : \A y \in S : x <= y
<1> DEFINE R == OpToRel(<, Nat)
<1>1. IsWellFoundedOn(R, Nat)
  BY NatLessThanWellFounded
<1>2. \A x, y \in Nat : y < x => <<y, x>> \in R
  BY DEF OpToRel
<1> HIDE DEF R
<1>3. PICK x \in S : \A y \in S : <<y, x>> \notin R
  BY <1>1, WFMin
<1>4. ASSUME NEW y \in S PROVE x <= y
  <2>1. x \in Nat /\ y \in Nat /\ ~(y < x)
    BY <1>2, <1>3
  <2> QED BY <2>1
<1> QED BY <1>3, <1>4

LEMMA MaxIs ==
  ASSUME NEW S \in SUBSET Nat, S # {}, NEW b \in Nat, \A x \in S : x <= b
  PROVE  Max(S) \in S /\ \A x \in S : x <= Max(S)
<1> DEFINE rest == {b - x : x \in S}
<1>1. rest \in SUBSET Nat /\ rest # {}
  OBVIOUS
<1>2. PICK y \in rest : \A z \in rest : y <= z
  BY <1>1, Least
<1>3. PICK x \in S : y = b - x
  BY <1>2
<1>4. \A z \in S : x >= z
  <2> SUFFICES ASSUME NEW z \in S PROVE x >= z
    OBVIOUS
  <2>1. b - x <= b - z /\ x \in Nat /\ z \in Nat
    BY <1>2, <1>3
  <2> QED BY <2>1
<1>5. \E m \in S : \A z \in S : m >= z
  BY <1>4
<1>6. Max(S) \in S /\ \A z \in S : Max(S) >= z
  BY <1>5, Zenon DEF Max
<1>7. \A z \in S : z \in Nat
  OBVIOUS
<1> HIDE DEF rest
<1> QED BY <1>6, <1>7

\* The OS maps free pages.
LEMMA PlacesFit ==
  ASSUME NEW n, NEW p \in Places(n)
  PROVE  p \in Fits(n)
<1>1. PICK S \in {{q \in Fits(n) : q % (2 * Block) = r} : r \in {0, 1, Block}} \ {{}} : p = Min(S)
  BY DEF Places
<1>2. S \subseteq Fits(n) /\ S # {}
  BY <1>1
<1>3. S \in SUBSET Nat
  BY <1>2, Fixed DEF Fits, Page
<1>4. \E x \in S : \A y \in S : x =< y
  BY <1>2, <1>3, Least
<1>5. Min(S) \in S
  BY <1>4, Zenon DEF Min
<1> QED BY <1>1, <1>2, <1>5

LEMMA FitsIs ==
  ASSUME NEW n \in Nat, NEW p \in Fits(n)
  PROVE  /\ p \in Page /\ p \in Nat /\ p + n <= Pages /\ Span(p, n) \subseteq Page
         /\ \A q \in Span(p, n) : mem[q] = "free"
BY Fixed DEF Fits, Page, Span

-----------------------------------------------------------------------------
(* Counting.                                                               *)

\* Two sets that differ in one element at most.
LEMMA Recount ==
  ASSUME NEW A, NEW B, NEW x, IsFiniteSet(A), A \ {x} = B \ {x}
  PROVE  /\ IsFiniteSet(B) /\ Cardinality(A) \in Nat /\ Cardinality(B) \in Nat
         /\ Cardinality(B) = Cardinality(A) - One(x \in A) + One(x \in B)
<1> DEFINE C == A \ {x}
<1>1. IsFiniteSet(C) /\ Cardinality(C) = IF x \in A THEN Cardinality(A) - 1 ELSE Cardinality(A)
  BY FS_RemoveElement
<1>2. Cardinality(A) \in Nat /\ Cardinality(C) \in Nat
  BY <1>1, FS_CardinalityType
<1>3. IsFiniteSet(C \cup {x}) /\ Cardinality(C \cup {x}) = Cardinality(C) + 1
  BY <1>1, FS_AddElement
<1>4. B = IF x \in B THEN C \cup {x} ELSE C
  OBVIOUS
<1>5. IsFiniteSet(B) /\ Cardinality(B) = Cardinality(C) + One(x \in B)
  <2>1. CASE x \in B
    <3>1. B = C \cup {x}
      BY <1>4, <2>1
    <3> QED BY <1>3, <2>1, <3>1 DEF One
  <2>2. CASE x \notin B
    <3>1. B = C
      BY <1>4, <2>2
    <3> QED BY <1>1, <1>2, <2>2, <3>1 DEF One
  <2> QED BY <2>1, <2>2
<1>6. Cardinality(C) = Cardinality(A) - One(x \in A)
  BY <1>1, <1>2 DEF One
<1>7. Cardinality(B) \in Nat
  BY <1>5, FS_CardinalityType
<1> HIDE DEF C
<1> QED BY <1>2, <1>5, <1>6, <1>7 DEF One

\* A count is at least that of two of its elements.
LEMMA CountTwo ==
  ASSUME NEW A, NEW x, NEW y, IsFiniteSet(A), x # y
  PROVE  Cardinality(A) \in Nat /\ One(x \in A) + One(y \in A) <= Cardinality(A)
<1>1. IsFiniteSet(A \ {x}) /\ Cardinality(A) = Cardinality(A \ {x}) + One(x \in A)
  <2>1. IsFiniteSet(A \ {x})
        /\ Cardinality(A \ {x}) = IF x \in A THEN Cardinality(A) - 1 ELSE Cardinality(A)
    BY FS_RemoveElement
  <2>2. Cardinality(A) \in Nat
    BY FS_CardinalityType
  <2> QED BY <2>1, <2>2 DEF One
<1> DEFINE C == A \ {x}
<1>2. Cardinality(C) \in Nat /\ (y \in C <=> y \in A)
  BY <1>1, FS_CardinalityType
<1>3. y \in C => Cardinality(C) # 0
  BY <1>1, FS_EmptySet
<1>4. Cardinality(A) \in Nat /\ Cardinality(A) = Cardinality(C) + One(x \in A)
  BY <1>1, FS_CardinalityType
<1> HIDE DEF C
<1> QED BY <1>2, <1>3, <1>4 DEF One

\* A count is 0 if nothing is there.
LEMMA CountNone ==
  ASSUME NEW A, IsFiniteSet(A)
  PROVE  Cardinality(A) \in Nat /\ (Cardinality(A) = 0 <=> A = {})
BY FS_EmptySet, FS_CardinalityType

LEMMA CountOne ==
  ASSUME NEW A, NEW x, IsFiniteSet(A)
  PROVE  Cardinality(A) \in Nat /\ One(x \in A) <= Cardinality(A)
<1>1. Cardinality(A) \in Nat
  BY FS_CardinalityType
<1>2. x \in A => Cardinality(A) # 0
  BY FS_EmptySet
<1> QED BY <1>1, <1>2 DEF One

\* Two parts of a range.
Splits(p, k, n) ==
  /\ Span(p, k) \subseteq Span(p, n) /\ Span(p + k, n - k) \subseteq Span(p, n)
  /\ \A q \in Int : /\ q \in Span(p, n) <=> q \in Span(p, k) \/ q \in Span(p + k, n - k)
                    /\ ~(q \in Span(p, k) /\ q \in Span(p + k, n - k))

LEMMA SplitSpan ==
  ASSUME NEW p \in Int, NEW n \in Int, NEW k \in Int, 0 <= k, k <= n
  PROVE  Splits(p, k, n)
BY DEF Span, Splits

-----------------------------------------------------------------------------
(* Who holds a page.                                                       *)

\* How often a thread's record counts for page q, how often all threads do, and how
\* often the rest of the state does.
Load(c, q) == One(q \in Hand(c)) + One(q \in InHand(c)) + One(q \in Aside(c))
Threads(q) ==
      Cardinality({t \in Thread : q \in Hand(pc[t])})
    + Cardinality({t \in Thread : q \in InHand(pc[t])})
    + Cardinality({t \in Thread : q \in Aside(pc[t])})
World(q) ==
      Cardinality({e \in live : q \in Extents(e)})
    + Cardinality({i \in Used : q \in Area0(i)})
    + Cardinality({i \in Used : q = arenas[i].meta /\ ~ended})
    + One(q \in external) + One(q \in lost)

LEMMA OneIs ==
  ASSUME NEW b
  PROVE  One(b) \in Nat /\ One(b) <= 1 /\ (b => One(b) = 1) /\ (~b => One(b) = 0)
BY DEF One

LEMMA SetsFinite ==
  ASSUME IsFiniteSet(live)
  PROVE  /\ IsFiniteSet(Used)
         /\ \A q : /\ IsFiniteSet({e \in live : q \in Extents(e)})
                   /\ IsFiniteSet({i \in Used : q \in Area0(i)})
                   /\ IsFiniteSet({i \in Used : q = arenas[i].meta /\ ~ended})
                   /\ IsFiniteSet({t \in Thread : q \in Hand(pc[t])})
                   /\ IsFiniteSet({t \in Thread : q \in InHand(pc[t])})
                   /\ IsFiniteSet({t \in Thread : q \in Aside(pc[t])})
<1>1. IsFiniteSet(Index)
  <2>1. 0 \in Int /\ MaxArenas - 1 \in Int
    BY Fixed
  <2> QED BY <2>1, FS_Interval DEF Index
<1>2. IsFiniteSet(Used)
  <2>1. Used \subseteq Index
    BY DEF Used
  <2> QED BY <1>1, <2>1, FS_Subset
<1> SUFFICES ASSUME NEW q
             PROVE  /\ IsFiniteSet({e \in live : q \in Extents(e)})
                    /\ IsFiniteSet({i \in Used : q \in Area0(i)})
                    /\ IsFiniteSet({i \in Used : q = arenas[i].meta /\ ~ended})
                    /\ IsFiniteSet({t \in Thread : q \in Hand(pc[t])})
                    /\ IsFiniteSet({t \in Thread : q \in InHand(pc[t])})
                    /\ IsFiniteSet({t \in Thread : q \in Aside(pc[t])})
  BY <1>2
<1>3. IsFiniteSet(Thread)
  BY Fixed
<1>4. {e \in live : q \in Extents(e)} \subseteq live
  OBVIOUS
<1>5. /\ {i \in Used : q \in Area0(i)} \subseteq Used
      /\ {i \in Used : q = arenas[i].meta /\ ~ended} \subseteq Used
  OBVIOUS
<1>6. /\ {t \in Thread : q \in Hand(pc[t])} \subseteq Thread
      /\ {t \in Thread : q \in InHand(pc[t])} \subseteq Thread
      /\ {t \in Thread : q \in Aside(pc[t])} \subseteq Thread
  OBVIOUS
<1>7. IsFiniteSet({e \in live : q \in Extents(e)})
  BY <1>4, FS_Subset
<1>8. /\ IsFiniteSet({i \in Used : q \in Area0(i)})
      /\ IsFiniteSet({i \in Used : q = arenas[i].meta /\ ~ended})
  BY <1>2, <1>5, FS_Subset
<1>9. /\ IsFiniteSet({t \in Thread : q \in Hand(pc[t])})
      /\ IsFiniteSet({t \in Thread : q \in InHand(pc[t])})
      /\ IsFiniteSet({t \in Thread : q \in Aside(pc[t])})
  BY <1>3, <1>6, FS_Subset
<1> QED BY <1>7, <1>8, <1>9

LEMMA HoldsIs ==
  ASSUME IsFiniteSet(live), NEW q
  PROVE  World(q) \in Nat /\ Threads(q) \in Nat /\ Holds(q) = World(q) + Threads(q)
<1> DEFINE a == Cardinality({e \in live : q \in Extents(e)})
           b == Cardinality({i \in Used : q \in Area0(i)})
           c == Cardinality({i \in Used : q = arenas[i].meta /\ ~ended})
           d == Cardinality({t \in Thread : q \in Hand(pc[t])})
           e == Cardinality({t \in Thread : q \in InHand(pc[t])})
           f == Cardinality({t \in Thread : q \in Aside(pc[t])})
           g == One(q \in external)
           h == One(q \in lost)
<1>1. a \in Nat /\ b \in Nat /\ c \in Nat
  BY SetsFinite, FS_CardinalityType
<1>2. d \in Nat /\ e \in Nat /\ f \in Nat
  BY SetsFinite, FS_CardinalityType
<1>3. g \in Nat /\ h \in Nat
  BY OneIs
<1>4. World(q) = a + b + c + g + h
  BY DEF World
<1>5. Threads(q) = d + e + f
  BY DEF Threads
<1>6. Holds(q) = a + d + e + f + b + c + g + h
  BY DEF Holds
<1> HIDE DEF a, b, c, d, e, f, g, h
<1> QED BY <1>1, <1>2, <1>3, <1>4, <1>5, <1>6

LEMMA HoldsAre == IsFiniteSet(live) => \A q : World(q) \in Nat /\ Holds(q) = World(q) + Threads(q)
BY HoldsIs

\* A step of thread t changes what the threads hold by what t holds.
LEMMA LoadChange ==
  ASSUME NEW D, pc \in [Thread -> D], NEW t \in Thread, NEW c, pc' = [pc EXCEPT ![t] = c], NEW q
  PROVE  /\ Threads(q) \in Nat /\ Threads(q)' \in Nat
         /\ Load(pc[t], q) \in Nat /\ Load(c, q) \in Nat
         /\ Threads(q)' = Threads(q) - Load(pc[t], q) + Load(c, q)
<1> DEFINE H == {u \in Thread : q \in Hand(pc[u])}
           I == {u \in Thread : q \in InHand(pc[u])}
           A == {u \in Thread : q \in Aside(pc[u])}
           H1 == {u \in Thread : q \in Hand(pc'[u])}
           I1 == {u \in Thread : q \in InHand(pc'[u])}
           A1 == {u \in Thread : q \in Aside(pc'[u])}
<1>1. pc'[t] = c /\ \A u \in Thread \ {t} : pc'[u] = pc[u]
  OBVIOUS
<1>2. IsFiniteSet(Thread)
  BY Fixed
<1>3. IsFiniteSet(H) /\ IsFiniteSet(I) /\ IsFiniteSet(A)
  <2>1. H \subseteq Thread /\ I \subseteq Thread /\ A \subseteq Thread
    OBVIOUS
  <2> QED BY <1>2, <2>1, FS_Subset
<1>4. H \ {t} = H1 \ {t} /\ I \ {t} = I1 \ {t} /\ A \ {t} = A1 \ {t}
  BY <1>1
<1>5. /\ Cardinality(H) \in Nat /\ Cardinality(H1) \in Nat
      /\ Cardinality(H1) = Cardinality(H) - One(t \in H) + One(t \in H1)
  BY <1>3, <1>4, Recount
<1>6. /\ Cardinality(I) \in Nat /\ Cardinality(I1) \in Nat
      /\ Cardinality(I1) = Cardinality(I) - One(t \in I) + One(t \in I1)
  BY <1>3, <1>4, Recount
<1>7. /\ Cardinality(A) \in Nat /\ Cardinality(A1) \in Nat
      /\ Cardinality(A1) = Cardinality(A) - One(t \in A) + One(t \in A1)
  BY <1>3, <1>4, Recount
<1>8. Load(pc[t], q) = One(t \in H) + One(t \in I) + One(t \in A)
  BY DEF Load
<1>9. Load(c, q) = One(t \in H1) + One(t \in I1) + One(t \in A1)
  BY <1>1 DEF Load
<1>10. Threads(q) = Cardinality(H) + Cardinality(I) + Cardinality(A)
  BY DEF Threads
<1>11. Threads(q)' = Cardinality(H1) + Cardinality(I1) + Cardinality(A1)
  BY DEF Threads, Hand, InHand, Aside, Extents, OsExtent
<1>12. /\ One(t \in H) \in Nat /\ One(t \in I) \in Nat /\ One(t \in A) \in Nat
       /\ One(t \in H1) \in Nat /\ One(t \in I1) \in Nat /\ One(t \in A1) \in Nat
  BY OneIs
<1> DEFINE x == One(t \in H)
           y == One(t \in I)
           z == One(t \in A)
           x1 == One(t \in H1)
           y1 == One(t \in I1)
           z1 == One(t \in A1)
<1>13. /\ x \in Nat /\ y \in Nat /\ z \in Nat /\ x1 \in Nat /\ y1 \in Nat /\ z1 \in Nat
       /\ Load(pc[t], q) = x + y + z /\ Load(c, q) = x1 + y1 + z1
       /\ Cardinality(H1) = Cardinality(H) - x + x1
       /\ Cardinality(I1) = Cardinality(I) - y + y1
       /\ Cardinality(A1) = Cardinality(A) - z + z1
  BY <1>5, <1>6, <1>7, <1>8, <1>9, <1>12
<1> HIDE DEF H, I, A, H1, I1, A1, x, y, z, x1, y1, z1
<1> QED BY <1>5, <1>6, <1>7, <1>10, <1>11, <1>13

\* A thread's part of the count.
LEMMA LoadPart ==
  ASSUME NEW t \in Thread, NEW q
  PROVE  /\ Threads(q) \in Nat /\ Load(pc[t], q) \in Nat /\ Load(pc[t], q) <= Threads(q)
         /\ \A u \in Thread \ {t} : /\ Load(pc[u], q) \in Nat
                                    /\ Load(pc[t], q) + Load(pc[u], q) <= Threads(q)
<1> DEFINE H == {u \in Thread : q \in Hand(pc[u])}
           I == {u \in Thread : q \in InHand(pc[u])}
           A == {u \in Thread : q \in Aside(pc[u])}
<1>1. IsFiniteSet(Thread)
  BY Fixed
<1>2. IsFiniteSet(H) /\ IsFiniteSet(I) /\ IsFiniteSet(A)
  <2>1. H \subseteq Thread /\ I \subseteq Thread /\ A \subseteq Thread
    OBVIOUS
  <2> QED BY <1>1, <2>1, FS_Subset
<1>3. Threads(q) = Cardinality(H) + Cardinality(I) + Cardinality(A)
  BY DEF Threads
<1>4. \A u \in Thread : Load(pc[u], q) = One(u \in H) + One(u \in I) + One(u \in A)
  BY DEF Load
<1>5. \A u : /\ One(u \in H) \in Nat /\ One(u \in I) \in Nat /\ One(u \in A) \in Nat
  BY OneIs
<1> HIDE DEF H, I, A
<1>6. \A u : u # t => /\ Cardinality(H) \in Nat /\ One(t \in H) + One(u \in H) <= Cardinality(H)
                      /\ Cardinality(I) \in Nat /\ One(t \in I) + One(u \in I) <= Cardinality(I)
                      /\ Cardinality(A) \in Nat /\ One(t \in A) + One(u \in A) <= Cardinality(A)
  BY <1>2, CountTwo
<1>7. /\ Cardinality(H) \in Nat /\ One(t \in H) <= Cardinality(H)
      /\ Cardinality(I) \in Nat /\ One(t \in I) <= Cardinality(I)
      /\ Cardinality(A) \in Nat /\ One(t \in A) <= Cardinality(A)
  BY <1>2, CountOne
<1>8. Threads(q) \in Nat /\ Load(pc[t], q) \in Nat /\ Load(pc[t], q) <= Threads(q)
  BY <1>3, <1>4, <1>5, <1>7
<1>9. ASSUME NEW u \in Thread \ {t}
      PROVE  Load(pc[u], q) \in Nat /\ Load(pc[t], q) + Load(pc[u], q) <= Threads(q)
  BY <1>3, <1>4, <1>5, <1>6, <1>7
<1> QED BY <1>8, <1>9

Holding(c, q) == q \in Hand(c) \/ q \in InHand(c) \/ q \in Aside(c)

LEMMA LoadIs ==
  ASSUME NEW c, NEW q
  PROVE  Load(c, q) \in Nat /\ (Load(c, q) > 0 <=> Holding(c, q))
<1>1. One(q \in Hand(c)) \in Nat /\ One(q \in InHand(c)) \in Nat /\ One(q \in Aside(c)) \in Nat
  BY OneIs
<1>2. CASE Holding(c, q)
  <2>1. One(q \in Hand(c)) = 1 \/ One(q \in InHand(c)) = 1 \/ One(q \in Aside(c)) = 1
    BY <1>2 DEF Holding, One
  <2> QED BY <1>1, <1>2, <2>1 DEF Load
<1>3. CASE ~Holding(c, q)
  <2>1. One(q \in Hand(c)) = 0 /\ One(q \in InHand(c)) = 0 /\ One(q \in Aside(c)) = 0
    BY <1>3 DEF Holding, One
  <2> QED BY <1>1, <1>3, <2>1 DEF Load
<1> QED BY <1>2, <1>3

\* The holders of a page that are not threads.
InWorld(q) ==
  \/ \E e \in live : q \in Extents(e)
  \/ \E i \in Used : q \in Area0(i)
  \/ ~ended /\ \E i \in Used : q = arenas[i].meta
  \/ q \in external \/ q \in lost

LEMMA WorldIs ==
  ASSUME IsFiniteSet(live), NEW q
  PROVE  World(q) \in Nat /\ (World(q) > 0 <=> InWorld(q))
<1> DEFINE E == {e \in live : q \in Extents(e)}
           A == {i \in Used : q \in Area0(i)}
           M == {i \in Used : q = arenas[i].meta /\ ~ended}
           ce == Cardinality(E)
           ca == Cardinality(A)
           cm == Cardinality(M)
           x == One(q \in external)
           l == One(q \in lost)
<1>1. IsFiniteSet(E) /\ IsFiniteSet(A) /\ IsFiniteSet(M)
  BY SetsFinite
<1>2. /\ ce \in Nat /\ (ce = 0 <=> E = {})
      /\ ca \in Nat /\ (ca = 0 <=> A = {})
      /\ cm \in Nat /\ (cm = 0 <=> M = {})
  BY <1>1, CountNone
<1>3. World(q) = ce + ca + cm
                 + x + l
  BY DEF World
<1>4. /\ x \in Nat /\ (x = 0 <=> q \notin external)
      /\ l \in Nat /\ (l = 0 <=> q \notin lost)
  BY DEF One
<1>5. InWorld(q) <=> E # {} \/ A # {} \/ M # {} \/ q \in external \/ q \in lost
  BY DEF InWorld
<1> HIDE DEF E, A, M, ce, ca, cm, x, l
<1> QED BY <1>2, <1>3, <1>4, <1>5

\* Two holders of a page are one.
Single(q) ==
  /\ \A e \in live : q \in Extents(e) =>
       /\ \A f \in live \ {e} : q \notin Extents(f)
       /\ \A i \in Used : q \notin Area0(i)
       /\ q \notin external /\ q \notin lost
  /\ \A i \in Used : q \in Area0(i) =>
       /\ \A j \in Used \ {i} : q \notin Area0(j)
       /\ q \notin external /\ q \notin lost
  /\ ~(q \in external /\ q \in lost)
  /\ \A i \in Used : q = arenas[i].meta /\ ~ended =>
       /\ \A e \in live : q \notin Extents(e)
       /\ \A j \in Used : q \notin Area0(j)
       /\ \A j \in Used \ {i} : q # arenas[j].meta
       /\ q \notin external /\ q \notin lost

LEMMA WorldSingle ==
  ASSUME IsFiniteSet(live), NEW q, World(q) <= 1
  PROVE  Single(q)
<1> DEFINE E == {e \in live : q \in Extents(e)}
           A == {i \in Used : q \in Area0(i)}
           M == {i \in Used : q = arenas[i].meta /\ ~ended}
           ce == Cardinality(E)
           ca == Cardinality(A)
           cm == Cardinality(M)
           x == One(q \in external)
           l == One(q \in lost)
<1>1. IsFiniteSet(E) /\ IsFiniteSet(A) /\ IsFiniteSet(M)
  BY SetsFinite
<1>2. /\ ce \in Nat /\ (ce = 0 <=> E = {})
      /\ ca \in Nat /\ (ca = 0 <=> A = {})
      /\ cm \in Nat /\ (cm = 0 <=> M = {})
  BY <1>1, CountNone
<1>3. World(q) = ce + ca + cm + x + l
  BY DEF World
<1>4. /\ x \in Nat /\ (x = 0 <=> q \notin external)
      /\ l \in Nat /\ (l = 0 <=> q \notin lost)
  BY DEF One
<1>5. /\ \A e, f : e # f => One(e \in E) + One(f \in E) <= ce
      /\ \A i, j : i # j => One(i \in A) + One(j \in A) <= ca
      /\ \A i, j : i # j => One(i \in M) + One(j \in M) <= cm
  BY <1>1, CountTwo
<1> HIDE DEF E, A, M, ce, ca, cm, x, l
<1>6. /\ \A e, f : e # f /\ e \in E => f \notin E
      /\ \A i, j : i # j /\ i \in A => j \notin A
      /\ \A i, j : i # j /\ i \in M => j \notin M
  <2>1. ce <= 1 /\ ca <= 1 /\ cm <= 1
    <3>1. ce + ca + cm + x + l <= 1
      BY <1>3
    <3> QED BY <1>2, <1>4, <3>1
  <2>2. ASSUME NEW e, NEW f, e # f, e \in E, f \in E PROVE FALSE
    BY <1>2, <1>5, <2>1, <2>2 DEF One
  <2>3. ASSUME NEW i, NEW j, i # j, i \in A, j \in A PROVE FALSE
    BY <1>2, <1>5, <2>1, <2>3 DEF One
  <2>4. ASSUME NEW i, NEW j, i # j, i \in M, j \in M PROVE FALSE
    BY <1>2, <1>5, <2>1, <2>4 DEF One
  <2> QED BY <2>2, <2>3, <2>4
<1>7. /\ E # {} => A = {} /\ M = {} /\ x = 0 /\ l = 0
      /\ A # {} => E = {} /\ M = {} /\ x = 0 /\ l = 0
      /\ M # {} => E = {} /\ A = {} /\ x = 0 /\ l = 0
      /\ x # 0 => l = 0
  BY <1>2, <1>3, <1>4
<1>8. \A e \in live : q \in Extents(e) =>
       /\ \A f \in live \ {e} : q \notin Extents(f)
       /\ \A i \in Used : q \notin Area0(i)
       /\ q \notin external /\ q \notin lost
  BY <1>4, <1>6, <1>7 DEF E, A
<1>9. \A i \in Used : q \in Area0(i) =>
       /\ \A j \in Used \ {i} : q \notin Area0(j)
       /\ q \notin external /\ q \notin lost
  BY <1>4, <1>6, <1>7 DEF A
<1>10. ~(q \in external /\ q \in lost)
  BY <1>4, <1>7
<1>11. \A i \in Used : q = arenas[i].meta /\ ~ended =>
       /\ \A e \in live : q \notin Extents(e)
       /\ \A j \in Used : q \notin Area0(j)
       /\ \A j \in Used \ {i} : q # arenas[j].meta
       /\ q \notin external /\ q \notin lost
  <2> SUFFICES ASSUME NEW i \in Used, q = arenas[i].meta, ~ended
               PROVE /\ \A e \in live : q \notin Extents(e)
                     /\ \A j \in Used : q \notin Area0(j)
                     /\ \A j \in Used \ {i} : q # arenas[j].meta
                     /\ q \notin external /\ q \notin lost
    OBVIOUS
  <2>1. i \in M
    BY DEF M
  <2>2. E = {} /\ A = {} /\ x = 0 /\ l = 0
    BY <1>7, <2>1
  <2>3. \A j \in Used \ {i} : j \notin M
    BY <1>6, <2>1
  <2> QED BY <1>4, <2>2, <2>3 DEF E, A, M
<1> QED BY <1>8, <1>9, <1>10, <1>11 DEF Single

\* What the count says of the holders of one page.
LEMMA Holders ==
  ASSUME Accounted, IsFiniteSet(live), NEW q \in Page
  PROVE  /\ Single(q)
         /\ InWorld(q) => mem[q] # "free" /\ \A t \in Thread : ~Holding(pc[t], q)
         /\ \A t \in Thread : Holding(pc[t], q) =>
              /\ mem[q] # "free" /\ Load(pc[t], q) = 1 /\ ~InWorld(q)
              /\ \A u \in Thread \ {t} : ~Holding(pc[u], q)
<1>1. World(q) \in Nat /\ Threads(q) \in Nat /\ Holds(q) = World(q) + Threads(q)
  BY HoldsIs
<1>2. World(q) + Threads(q) = One(mem[q] # "free")
  BY <1>1 DEF Accounted
<1>3. World(q) + Threads(q) <= 1 /\ (mem[q] = "free" => World(q) + Threads(q) = 0)
  BY <1>2 DEF One
<1>4. World(q) > 0 <=> InWorld(q)
  BY WorldIs
<1>5. Single(q)
  <2>1. World(q) <= 1
    BY <1>1, <1>3
  <2> QED BY <2>1, WorldSingle
<1>6. ASSUME NEW t \in Thread, Holding(pc[t], q)
      PROVE  /\ mem[q] # "free" /\ Load(pc[t], q) = 1 /\ ~InWorld(q)
             /\ \A u \in Thread \ {t} : ~Holding(pc[u], q)
  <2>1. Load(pc[t], q) \in Nat /\ Load(pc[t], q) > 0
    BY <1>6, LoadIs
  <2>2. /\ Load(pc[t], q) <= Threads(q)
        /\ \A u \in Thread \ {t} : Load(pc[u], q) \in Nat /\ Load(pc[t], q) + Load(pc[u], q) <= Threads(q)
    BY LoadPart
  <2>3. World(q) = 0 /\ Threads(q) = 1 /\ Load(pc[t], q) = 1
    BY <1>1, <1>3, <2>1, <2>2
  <2>4. \A u \in Thread \ {t} : ~(Load(pc[u], q) > 0)
    BY <2>2, <2>3
  <2>5. \A u \in Thread \ {t} : ~Holding(pc[u], q)
    BY <2>4, LoadIs
  <2>6. mem[q] # "free"
    BY <1>1, <1>3, <2>3
  <2> QED BY <1>4, <2>3, <2>5, <2>6
<1>7. ASSUME InWorld(q) PROVE mem[q] # "free" /\ \A t \in Thread : ~Holding(pc[t], q)
  <2>1. World(q) > 0
    BY <1>4, <1>7
  <2>2. mem[q] # "free"
    BY <1>1, <1>3, <2>1
  <2> QED BY <1>6, <1>7, <2>2
<1> QED BY <1>5, <1>6, <1>7

\* A free page has no holder.
LEMMA FreePage ==
  ASSUME Accounted, IsFiniteSet(live), NEW q \in Page, mem[q] = "free"
  PROVE  ~InWorld(q) /\ \A t \in Thread : ~Holding(pc[t], q) /\ Load(pc[t], q) = 0
<1>1. ~InWorld(q) /\ \A t \in Thread : ~Holding(pc[t], q)
  BY Holders
<1> QED BY <1>1, LoadIs

-----------------------------------------------------------------------------
(* Where the memory of the segments lies.                                  *)

LEMMA ExtentIs ==
  ASSUME TypeOK, NEW e \in Memory
  PROVE  /\ e \in ExtentOf /\ e.id \in Nat /\ e.id <= MaxArenas /\ e.base \in Page /\ e.p \in Page
         /\ e.base \in Nat /\ e.p \in Nat /\ e.size \in Nat /\ e.size > 0 /\ e.size <= Pages
         /\ e.req \in 0..MaxArenas /\ e.committed \in SUBSET Page
<1>1. e \in ExtentOf
  <2>1. CASE e \in live
    BY <2>1 DEF TypeOK
  <2>2. CASE \E t \in Thread : e \in pc[t].ext
    <3>1. PICK t \in Thread : e \in pc[t].ext
      BY <2>2
    <3>2. pc[t] \in Control
      BY DEF TypeOK
    <3> QED BY <3>1, <3>2 DEF Control
  <2> QED BY <2>1, <2>2 DEF Memory
<1> QED BY <1>1, Fixed DEF ExtentOf, Page

\* Memory from the OS is given back with all that it was rounded to.
LEMMA OsSpan ==
  ASSUME NEW e \in ExtentOf, Sound(e), e.id = 0
  PROVE  Span(e.p, e.size) \subseteq Extents(e) /\ e.base \in Extents(e)
<1>1. e.size \in Nat /\ e.size > 0 /\ e.p \in Nat /\ e.base \in Nat /\ e.base <= e.p
  BY Fixed DEF ExtentOf, Page, Sound
<1>2. GoodSize(e.size) \in Nat /\ e.size <= GoodSize(e.size)
  BY <1>1, GoodSizeIs
<1>3. Extents(e) = e.base..(e.base + (GoodSize(e.size) + (e.p - e.base)) - 1)
  BY DEF Extents, OsExtent, Span
<1> DEFINE g == GoodSize(e.size)
           p == e.p
           base == e.base
           n == e.size
<1>4. /\ g \in Nat /\ n \in Nat /\ p \in Nat /\ base \in Nat /\ n > 0 /\ n <= g /\ base <= p
      /\ Extents(e) = base..(base + (g + (p - base)) - 1)
  BY <1>1, <1>2, <1>3
<1> HIDE DEF g, p, base, n
<1>5. Span(p, n) \subseteq Extents(e) /\ base \in Extents(e)
  BY <1>4 DEF Span
<1> QED BY <1>5 DEF p, base, n

\* The blocks of a range, and the range of its blocks.
LEMMA BlocksIn ==
  ASSUME NEW s \in Nat, NEW n \in Nat, NEW q \in Int, (q - s) \div Block \in 0..((n \div Block) - 1)
  PROVE  q \in Span(s, n)
<1> DEFINE d == (q - s) \div Block
           k == n \div Block
<1>0. q - s \in Int /\ Block \in Nat /\ Block > 0 /\ n \in Int
  BY Fixed
<1>1. d \in Int /\ Block * d <= q - s /\ q - s < Block * d + Block
  BY <1>0, Euclid
<1>2. k \in Int /\ Block * k <= n
  BY <1>0, Euclid
<1>3. d \in 0..(k - 1)
  OBVIOUS
<1> HIDE DEF d, k
<1>4. d < k /\ 0 <= d
  BY <1>2, <1>3
<1>5. Block * d + Block <= Block * k
  BY <1>0, <1>1, <1>2, <1>4, Steps
<1>6. 0 <= Block * d
  BY <1>0, <1>1, <1>4
<1>7. Block * d \in Int /\ Block * k \in Int
  BY <1>0, <1>1, <1>2
<1> QED BY <1>0, <1>1, <1>2, <1>5, <1>6, <1>7 DEF Span

\* The memory of a segment of an arena lies in the area of that arena.
LEMMA InArea ==
  ASSUME TypeOK, TableSound, ~ended, NEW e \in Memory, e.id # 0
  PROVE  /\ e.id - 1 \in Used /\ e \in Tenants(e.id - 1)
         /\ Span(e.p, e.size) \subseteq Area0(e.id - 1)
<1> DEFINE i == e.id - 1
           a == arenas[i]
<1>1. i \in Index /\ e.id = i + 1
  BY ExtentIs, Fixed DEF Index
<1>2. e \in Tenants(i)
  BY <1>1 DEF Tenants, Memory
<1>3. a # NoArena /\ Bits(a, e) \subseteq 0..(BlockCount(a) - 1)
  BY <1>1, <1>2 DEF TableSound
<1>4. i \in Used
  BY <1>1, <1>3 DEF Used
<1>5. a \in ArenaOf
  BY <1>1, <1>3 DEF TypeOK
<1>6. a.start \in Nat /\ a.size \in Nat
  BY <1>5, Fixed DEF ArenaOf, Page
<1>7. ASSUME NEW q \in Span(e.p, e.size) PROVE q \in Span(a.start, a.size)
  <2>1. (q - a.start) \div Block \in 0..((a.size \div Block) - 1)
    BY <1>3 DEF Bits, BlockCount
  <2>2. q \in Int
    BY ExtentIs DEF Span
  <2> QED BY <1>6, <2>1, <2>2, BlocksIn
<1> QED BY <1>2, <1>4, <1>7 DEF Area0, Area

\* The pages of a segment have it, or its arena, as their holder.
LEMMA SpanHeld ==
  ASSUME IInv, ~ended, NEW e \in Memory, NEW q \in Span(e.p, e.size)
  PROVE  /\ q \in Page
         /\ e.id = 0 => q \in Extents(e)
         /\ e.id # 0 => e.id - 1 \in Used /\ q \in Area0(e.id - 1)
<1>1. TypeOK /\ TableSound /\ Sound(e)
  BY DEF IInv, Accounted
<1>2. e.p \in Nat /\ e.size \in Nat /\ e \in ExtentOf
  BY <1>1, ExtentIs
<1>3. q \in Page
  BY <1>1, <1>2, Fixed DEF Sound, Span, Page
<1> QED BY <1>1, <1>2, <1>3, OsSpan, InArea

\* What a thread may write to: free pages and its own are no others'.
LEMMA Untouched ==
  ASSUME IInv, ~ended, NEW t \in Thread, NEW q \in Page,
         mem[q] = "free" \/ Holding(pc[t], q)
  PROVE  /\ \A e \in live : q \notin Span(e.p, e.size) /\ q \notin e.committed
         /\ \A u \in Thread \ {t} : \A e \in pc[u].ext :
              q \notin Span(e.p, e.size) /\ q \notin e.committed
         /\ \A u \in Thread \ {t} : q \notin Hand(pc[u])
         /\ \A i \in Used : q # arenas[i].meta /\ q \notin Area0(i)
<1>1. Accounted /\ IsFiniteSet(live)
  BY DEF IInv
<1>2. ~InWorld(q) /\ \A u \in Thread \ {t} : ~Holding(pc[u], q)
  BY <1>1, Holders, FreePage
<1>3. \A u \in Thread \ {t} : q \notin Hand(pc[u]) /\ q \notin InHand(pc[u])
  BY <1>2 DEF Holding
<1>4. \A i \in Used : q # arenas[i].meta /\ q \notin Area0(i)
  BY <1>2 DEF InWorld
<1>5. \A e \in Memory : e.committed \subseteq Span(e.p, e.size)
  BY DEF IInv, Accessible, Memory
<1>6. ASSUME NEW e \in live PROVE q \notin Span(e.p, e.size)
  <2>1. e \in Memory
    BY DEF Memory
  <2>2. q \notin Extents(e)
    BY <1>2 DEF InWorld
  <2> QED BY <1>4, <2>1, <2>2, SpanHeld
<1>7. ASSUME NEW u \in Thread \ {t}, NEW e \in pc[u].ext PROVE q \notin Span(e.p, e.size)
  <2>1. e \in Memory
    BY DEF Memory
  <2>2. q \notin Extents(e)
    BY <1>3 DEF InHand
  <2> QED BY <1>4, <2>1, <2>2, SpanHeld
<1>8. \A e \in live : e \in Memory
  BY DEF Memory
<1>9. \A u \in Thread : \A e \in pc[u].ext : e \in Memory
  BY DEF Memory
<1> QED BY <1>3, <1>4, <1>5, <1>6, <1>7, <1>8, <1>9

-----------------------------------------------------------------------------
(* Steps that leave the table, the map and the segments of the program     *)
(* alone.                                                                  *)

\* Real and what Accessible says, of a memory m.
RealIn(m, c) ==
  /\ c.commit /\ c.at \in AskAt => \A q \in Hand(c) : m[q] = "rw"
  /\ c.commit /\ c.at = "got" /\ Direct(c) =>
       \A q \in Span(c.lo + c.skip, c.call.size) : m[q] = "rw"
  /\ c.at \in {"add", "retreat", "store"} => m[c.meta] = "rw"
ExtIn(m, e) ==
  e.committed \subseteq Span(e.p, e.size) /\ \A q \in e.committed : m[q] = "rw"

\* The step changes free pages and pages of thread t only, and changes the count of
\* each page as it maps or frees it.
Writes(t, c) ==
  \A q \in Page :
    /\ mem'[q] # mem[q] => mem[q] = "free" \/ Holding(pc[t], q)
    /\ One(mem'[q] # "free") - One(mem[q] # "free")
       = Load(c, q) - Load(pc[t], q) + One(q \in external') - One(q \in external)

\* The step gives thread t the record c.
Moves(t, c) ==
  /\ ~ended /\ c \in Control /\ pc' = [pc EXCEPT ![t] = c]
  /\ mem' \in [Page -> {"free", "none", "rw"}]
  /\ tryOk' \in 0..Retry /\ hugeStart' \in Nat /\ hugeStart' % Block = 0
  /\ calls' \in 0..MaxCalls

\* What it has in hand then is sound.
Settled(c) ==
  /\ Placed(c) /\ RealIn(mem', c)
  /\ \A e \in c.ext : Sound(e) /\ ExtIn(mem', e)

Claims(t, c) ==
  /\ external \subseteq external' /\ external' \subseteq Page
  /\ Given(c) \subseteq external' /\ Given(c) \cap external \subseteq Given(pc[t])

Quiet(t, c) ==
  /\ Moves(t, c) /\ Settled(c) /\ Writes(t, c) /\ Claims(t, c)
  /\ UNCHANGED <<arenas, count, live, map, lost, ended>>
  /\ {pc[t].at, c.at} \cap {"store", "retreat"} = {}
  /\ {e \in c.ext : e.id # 0} = {e \in pc[t].ext : e.id # 0}

LEMMA QuietCounted ==
  ASSUME IInv, NEW t \in Thread, NEW c, Quiet(t, c)
  PROVE  Accounted'
<1>1. TypeOK /\ IsFiniteSet(live) /\ \A q \in Page : Holds(q) = One(mem[q] # "free")
  BY DEF IInv, Accounted
<1>2. TypeOK'
  BY <1>1 DEF TypeOK, Quiet, Moves, Claims, ArenaOf, NoArena, ExtentOf, Control, Index
<1>4. \A q : World(q)' \in Nat /\ Holds(q)' = World(q)' + Threads(q)'
  <2>1. IsFiniteSet(live)'
    BY <1>1 DEF Quiet
  <2>2. (\A q : World(q) \in Nat /\ Holds(q) = World(q) + Threads(q))'
    BY <2>1, HoldsAre, PTL
  <2> QED BY <2>2
<1>3. ASSUME NEW q \in Page PROVE Holds(q)' = One(mem'[q] # "free")
  <2> DEFINE x == One(mem[q] # "free")
             x1 == One(mem'[q] # "free")
             y == One(q \in external)
             y1 == One(q \in external')
  <2>1. pc \in [Thread -> Control] /\ pc' = [pc EXCEPT ![t] = c]
    BY <1>1 DEF TypeOK, Quiet, Moves
  <2>2. /\ Threads(q) \in Nat /\ Threads(q)' \in Nat
        /\ Load(pc[t], q) \in Nat /\ Load(c, q) \in Nat
        /\ Threads(q)' = Threads(q) - Load(pc[t], q) + Load(c, q)
    BY <2>1, LoadChange
  <2>3. World(q) \in Nat /\ Holds(q) = World(q) + Threads(q)
    BY <1>1, HoldsIs
  <2>5. World(q)' \in Nat /\ Holds(q)' = World(q)' + Threads(q)'
    BY <1>4
  <2>6. World(q)' = World(q) + One(q \in external') - One(q \in external)
    <3> DEFINE a == Cardinality({e \in live : q \in Extents(e)})
               b == Cardinality({i \in Used : q \in Area0(i)})
               m == Cardinality({i \in Used : q = arenas[i].meta /\ ~ended})
               h == One(q \in lost)
    <3>1. a' = a /\ b' = b /\ m' = m /\ h' = h
      BY DEF Quiet, Used, Area0, Area, Extents, OsExtent
    <3>2. a \in Nat /\ b \in Nat /\ m \in Nat /\ h \in Nat
      BY <1>1, SetsFinite, FS_CardinalityType, OneIs
    <3>3. World(q) = a + b + m + One(q \in external) + h
      BY DEF World
    <3>4. World(q)' = a' + b' + m' + One(q \in external') + h'
      BY DEF World
    <3>5. One(q \in external') \in Nat /\ One(q \in external) \in Nat
      BY OneIs
    <3> HIDE DEF a, b, m, h
    <3> QED BY <3>1, <3>2, <3>3, <3>4, <3>5
  <2>7. x1 - x = Load(c, q) - Load(pc[t], q) + y1 - y
    BY DEF Quiet, Writes
  <2>8. x1 \in Nat /\ x \in Nat /\ y1 \in Nat /\ y \in Nat
    BY OneIs
  <2>9. Holds(q) = x
    BY <1>1
  <2>10. World(q)' = World(q) + y1 - y
    BY <2>6
  <2> HIDE DEF x, x1, y, y1
  <2>11. Holds(q)' = x1
    BY <2>2, <2>3, <2>5, <2>7, <2>8, <2>9, <2>10
  <2> QED BY <2>11 DEF x1
<1> QED BY <1>2, <1>3 DEF Accounted

\* The memory that a thread has got for a segment is in its range.
LEMMA GotInHand ==
  ASSUME NEW c \in Control, Placed(c), c.at = "got", Direct(c)
  PROVE  Span(c.lo + c.skip, c.call.size) \subseteq Hand(c)
<1>2. Wants(c) /\ c.n = c.ask
  <2>1. c.call.op # "huge"
    BY DEF Placed
  <2> QED BY <2>1 DEF Placed, Has
<1>3. c.call.op = "alloc" /\ c.ask = GoodSize(c.call.size) + c.skip
  BY <1>2 DEF Wants
<1>4. c.call \in Calls
  BY <1>3 DEF Control, NoCall
<1>5. c.call.size \in Nat /\ c.skip \in Nat /\ c.lo \in Nat
  BY <1>4, CallIs DEF Control
<1>6. GoodSize(c.call.size) \in Nat /\ c.call.size <= GoodSize(c.call.size)
  BY <1>5, GoodSizeIs
<1>7. Hand(c) = Span(c.lo, c.n)
  BY <1>3 DEF Hand, HandAt
<1>8. Span(c.lo + c.skip, c.call.size) \subseteq Span(c.lo, c.n)
  BY <1>2, <1>3, <1>5, <1>6 DEF Span
<1> QED BY <1>7, <1>8

\* What the segments and the other threads have is as it was.
LEMMA OthersKept ==
  ASSUME IInv, ~ended, NEW t \in Thread,
         \A q \in Page : mem'[q] # mem[q] => mem[q] = "free" \/ Holding(pc[t], q)
  PROVE  /\ \A e \in live : e \in Memory /\ ExtIn(mem', e)
         /\ \A u \in Thread \ {t} : \A e \in pc[u].ext : e \in Memory /\ ExtIn(mem', e)
         /\ \A i \in Used : mem'[arenas[i].meta] = "rw"
         /\ \A u \in Thread \ {t} : Placed(pc[u]) /\ RealIn(mem', pc[u])
<1>1. TypeOK /\ Accessible
  BY DEF IInv, Accounted
<1>2. \A q \in Page : mem'[q] # mem[q] =>
         /\ \A e \in live : q \notin e.committed
         /\ \A u \in Thread \ {t} : \A e \in pc[u].ext : q \notin e.committed
         /\ \A u \in Thread \ {t} : q \notin Hand(pc[u])
         /\ \A i \in Used : q # arenas[i].meta
  BY Untouched
<1>3. \A e \in Memory : /\ e.committed \subseteq Page /\ e.committed \subseteq Span(e.p, e.size)
                        /\ \A q \in e.committed : mem[q] = "rw"
  BY <1>1, ExtentIs DEF Accessible, Memory
<1>4. ASSUME NEW e \in live PROVE e \in Memory /\ ExtIn(mem', e)
  <2>1. e \in Memory
    BY DEF Memory
  <2> QED BY <1>2, <1>3, <2>1 DEF ExtIn
<1>5. ASSUME NEW u \in Thread \ {t}, NEW e \in pc[u].ext PROVE e \in Memory /\ ExtIn(mem', e)
  <2>1. e \in Memory
    BY DEF Memory
  <2> QED BY <1>2, <1>3, <2>1 DEF ExtIn
<1>6. ASSUME NEW i \in Used PROVE mem'[arenas[i].meta] = "rw"
  <2>1. mem[arenas[i].meta] = "rw"
    BY <1>1 DEF Accessible
  <2>2. arenas[i] \in ArenaOf
    BY <1>1 DEF TypeOK, Used
  <2>3. arenas[i].meta \in Page
    BY <2>2 DEF ArenaOf
  <2> QED BY <1>2, <2>1, <2>3
<1>7. ASSUME NEW u \in Thread \ {t} PROVE Placed(pc[u]) /\ RealIn(mem', pc[u])
  <2>1. Placed(pc[u]) /\ Real(pc[u])
    BY DEF IInv
  <2>2. Hand(pc[u]) \subseteq Page
    BY <2>1 DEF Placed
  <2>3. \A q \in Hand(pc[u]) : mem'[q] = mem[q]
    BY <1>2, <2>2
  <2>4. pc[u].at = "got" /\ Direct(pc[u])
        => Span(pc[u].lo + pc[u].skip, pc[u].call.size) \subseteq Hand(pc[u])
    BY <1>1, <2>1, GotInHand DEF TypeOK
  <2>5. ASSUME pc[u].at \in {"add", "retreat", "store"} PROVE mem'[pc[u].meta] = mem[pc[u].meta]
    <3>1. pc[u].meta \in Page
      BY <2>1, <2>5 DEF Placed
    <3>2. pc[u].meta \in Aside(pc[u])
      BY DEF Aside
    <3>3. ~(mem[pc[u].meta] = "free" \/ Holding(pc[t], pc[u].meta))
      BY <3>1, <3>2, Holders DEF Holding, IInv
    <3> QED BY <3>1, <3>3
  <2> QED BY <2>1, <2>3, <2>4, <2>5 DEF Real, RealIn
<1> QED BY <1>4, <1>5, <1>6, <1>7

\* IInv with its parts named, of a state and of the next.
ThreadsFine ==
  \A t \in Thread : /\ Placed(pc[t]) /\ Real(pc[t]) /\ Given(pc[t]) \subseteq external
                    /\ \A u \in Thread \ {t} : Given(pc[t]) \cap Given(pc[u]) = {}
MemoryFine ==
  /\ \A e \in Memory : Sound(e)
  /\ IsFiniteSet(live) /\ map = {e.p \div Block : e \in live}
  /\ hugeStart % Block = 0
  /\ ended => \A t \in Thread : pc[t].at = "idle"
AreasFine == \A i \in Used : arenas[i].start % Block = 0 /\ Area0(i) \subseteq Page

LEMMA Parted ==
  IInv <=>
    /\ Accounted /\ Accessible /\ TableSound /\ Apart
    /\ ThreadsFine /\ MemoryFine /\ AreasFine
    /\ ~ended => Indices
BY DEF IInv, ThreadsFine, MemoryFine, AreasFine

\* What TableSound says of an arena with these segments, and of the count.
TableOf(a, tenants) ==
  IF a = NoArena THEN tenants = {}
  ELSE /\ a.inuse = UNION {Bits(a, e) : e \in tenants}
       /\ \A e \in tenants :
            /\ Bits(a, e) \subseteq 0..(BlockCount(a) - 1)
            /\ IdSuitable(e.id, a.exclusive, e.req)
            /\ \A f \in tenants \ {e} : Bits(a, e) \cap Bits(a, f) = {}
TableAt(i) == TableOf(arenas[i], Tenants(i))
Counted ==
  count = Cardinality(Used) + Cardinality({t \in Thread : pc[t].at \in {"store", "retreat"}})

LEMMA TableIs == TableSound <=> (~ended => (\A i \in Index : TableAt(i)) /\ Counted)
BY DEF TableSound, TableAt, TableOf, Counted

\* The threads after a step of thread t.
LEMMA FineNext ==
  ASSUME IInv, NEW t \in Thread, NEW c, ~ended, pc' = [pc EXCEPT ![t] = c],
         \A q \in Page : mem'[q] # mem[q] => mem[q] = "free" \/ Holding(pc[t], q),
         Placed(c), RealIn(mem', c), Given(c) \subseteq external',
         \A u \in Thread \ {t} : Given(pc[u]) \subseteq external' /\ Given(c) \cap Given(pc[u]) = {}
  PROVE  ThreadsFine'
<1>1. pc \in [Thread -> Control]
  BY DEF IInv, Accounted, TypeOK
<1>2. pc'[t] = c /\ \A u \in Thread \ {t} : pc'[u] = pc[u]
  BY <1>1
<1>3. \A u \in Thread \ {t} : Placed(pc[u]) /\ RealIn(mem', pc[u])
  BY OthersKept
<1>4. \A u, v \in Thread : u # v => Given(pc[u]) \cap Given(pc[v]) = {}
  BY DEF IInv
<1>5. ASSUME NEW u \in Thread
      PROVE  /\ Placed(pc'[u]) /\ RealIn(mem', pc'[u]) /\ Given(pc'[u]) \subseteq external'
             /\ \A v \in Thread \ {u} : Given(pc'[u]) \cap Given(pc'[v]) = {}
  <2>1. CASE u = t
    BY <1>2, <2>1
  <2>2. CASE u # t
    <3>1. Placed(pc'[u]) /\ RealIn(mem', pc'[u]) /\ Given(pc'[u]) \subseteq external'
      BY <1>2, <1>3, <2>2
    <3>2. ASSUME NEW v \in Thread \ {u} PROVE Given(pc'[u]) \cap Given(pc'[v]) = {}
      <4>1. CASE v = t
        BY <1>2, <2>2, <4>1
      <4>2. CASE v # t
        BY <1>2, <1>4, <2>2, <4>2
      <4> QED BY <4>1, <4>2
    <3> QED BY <3>1, <3>2
  <2> QED BY <2>1, <2>2
<1>6. \A u \in Thread :
         /\ Placed(pc'[u]) /\ RealIn(mem', pc'[u]) /\ Given(pc'[u]) \subseteq external'
         /\ \A v \in Thread \ {u} : Given(pc'[u]) \cap Given(pc'[v]) = {}
  BY <1>5
<1> QED BY <1>6 DEF ThreadsFine, Real, RealIn, Placed, Given, Direct, Has, Hand, Wants, Area1

LEMMA QuietInv ==
  ASSUME IInv, NEW t \in Thread, NEW c, Quiet(t, c)
  PROVE  IInv'
<1>1. TypeOK /\ Accessible /\ TableSound /\ Apart /\ IsFiniteSet(live) /\ Indices /\ ~ended
  BY DEF IInv, Accounted, Quiet, Moves
<1>2. Accounted'
  BY QuietCounted
<1>3. /\ pc \in [Thread -> Control] /\ pc' = [pc EXCEPT ![t] = c]
      /\ UNCHANGED <<arenas, count, live, map, lost, ended>>
      /\ \A q \in Page : mem'[q] # mem[q] => mem[q] = "free" \/ Holding(pc[t], q)
  BY <1>1 DEF TypeOK, Quiet, Moves, Writes
<1>4. pc'[t] = c /\ \A u \in Thread \ {t} : pc'[u] = pc[u]
  BY <1>3
<1>5. ThreadsFine'
  <2>1. \A u \in Thread \ {t} : Given(pc[u]) \subseteq external /\ Given(pc[t]) \cap Given(pc[u]) = {}
    BY DEF IInv
  <2>2. /\ external \subseteq external' /\ Given(c) \subseteq external'
        /\ Given(c) \cap external \subseteq Given(pc[t])
    BY DEF Quiet, Claims
  <2>3. \A u \in Thread \ {t} : Given(pc[u]) \subseteq external' /\ Given(c) \cap Given(pc[u]) = {}
    BY <2>1, <2>2
  <2> QED BY <1>1, <1>3, <2>2, <2>3, FineNext DEF Quiet, Settled
<1>6. \A e \in Memory' : (e \in Memory \/ Sound(e)) /\ ExtIn(mem', e)
  <2>1. ASSUME NEW e \in Memory' PROVE e \in live \/ \E u \in Thread : e \in pc'[u].ext
    BY <1>3 DEF Memory
  <2>2. \A e \in c.ext : Sound(e) /\ ExtIn(mem', e)
    BY DEF Quiet, Settled
  <2> QED BY <1>1, <1>3, <1>4, <2>1, <2>2, OthersKept
<1>7. \A e \in Memory' : Sound(e)
  BY <1>6 DEF IInv
<1>8. Used' = Used /\ \A i : Area0(i)' = Area0(i)
  BY <1>3 DEF Used, Area0, Area
<1>9. Accessible'
  <2>1. \A e \in Memory' : e.committed \subseteq Span(e.p, e.size) /\ \A q \in e.committed : mem'[q] = "rw"
    BY <1>6 DEF ExtIn
  <2>2. \A i \in Used' : mem'[arenas'[i].meta] = "rw"
    BY <1>1, <1>3, <1>8, OthersKept
  <2> QED BY <2>1, <2>2 DEF Accessible, Memory
<1>10. {e \in c.ext : e.id # 0} = {e \in pc[t].ext : e.id # 0}
  BY DEF Quiet
<1>11. TableSound'
  <2>1. \A u \in Thread : {e \in pc'[u].ext : e.id # 0} = {e \in pc[u].ext : e.id # 0}
    BY <1>4, <1>10
  <2>2. \A i \in Index : Tenants(i)' = Tenants(i)
    <3> SUFFICES ASSUME NEW i \in Index PROVE Tenants(i)' = Tenants(i)
      OBVIOUS
    <3>1. i + 1 # 0
      BY Fixed DEF Index
    <3>2. \A e : e.id = i + 1 =>
             ((\E u \in Thread : e \in pc'[u].ext) <=> \E u \in Thread : e \in pc[u].ext)
      BY <2>1, <3>1
    <3> QED BY <1>3, <3>2 DEF Tenants
  <2>3. \A u \in Thread : pc'[u].at \in {"store", "retreat"} <=> pc[u].at \in {"store", "retreat"}
    BY <1>4 DEF Quiet
  <2>4. {u \in Thread : pc'[u].at \in {"store", "retreat"}} = {u \in Thread : pc[u].at \in {"store", "retreat"}}
    BY <2>3
  <2>5. Counted'
    BY <1>1, <1>3, <1>8, <2>4, TableIs DEF Counted
  <2>6. \A i \in Index : TableAt(i)'
    <3> SUFFICES ASSUME NEW i \in Index PROVE TableAt(i)'
      OBVIOUS
    <3>1. TableAt(i)
      BY <1>1, TableIs
    <3>2. arenas'[i] = arenas[i] /\ Tenants(i)' = Tenants(i)
      BY <1>3, <2>2
    <3> QED BY <3>1, <3>2 DEF TableAt
  <2>7. (~ended => (\A i \in Index : TableAt(i)) /\ Counted)'
    BY <2>5, <2>6 DEF Index
  <2> QED BY <2>7, TableIs, PTL
<1>12. Apart'
  <2>1. \A u \in Thread : {e \in pc'[u].ext : e.id # 0} = {e \in pc[u].ext : e.id # 0}
    BY <1>4, <1>10
  <2>2. \A u \in Thread : \A e \in pc'[u].ext : e.id # 0 =>
           e \notin live /\ \A v \in Thread \ {u} : e \notin pc'[v].ext
    BY <1>1, <2>1 DEF Apart
  <2> QED BY <1>1, <1>3, <2>2 DEF Apart
<1>13. Indices'
  <2>1. Storing' = Storing /\ Retreating' = Retreating /\ \A u \in Storing : pc'[u] = pc[u]
    BY <1>4 DEF Storing, Retreating, Quiet
  <2> QED BY <1>1, <1>3, <1>8, <2>1 DEF Indices
<1>14. AreasFine'
  BY <1>3, <1>8 DEF AreasFine, IInv
<1>15. MemoryFine'
  <2>1. IsFiniteSet(live)' /\ map' = {e.p \div Block : e \in live'}
    BY <1>1, <1>3 DEF IInv
  <2>2. hugeStart' % Block = 0 /\ ended' = FALSE
    BY <1>1, <1>3 DEF Quiet, Moves, TypeOK
  <2> QED BY <1>7, <2>1, <2>2 DEF MemoryFine, Memory, Sound
<1>16. (~ended => Indices)'
  BY <1>13
<1> QED BY <1>2, <1>5, <1>9, <1>11, <1>12, <1>14, <1>15, <1>16, Parted, PTL

-----------------------------------------------------------------------------
(* The calls of the OS.                                                    *)

LEMMA ThreadIs ==
  ASSUME IInv, NEW t \in Thread
  PROVE  /\ TypeOK /\ pc \in [Thread -> Control] /\ pc[t] \in Control
         /\ Placed(pc[t]) /\ Real(pc[t]) /\ Given(pc[t]) \subseteq external
         /\ Hand(pc[t]) \subseteq Page
         /\ pc[t].at # "idle" => ~ended
BY DEF IInv, Accounted, TypeOK, Placed

\* A thread with nothing but its range.
Plain1(c) == c.ext = {} /\ c.stray = NoPage /\ c.meta = NoPage

LEMMA PlainLoad ==
  ASSUME NEW c, Plain1(c), NEW q \in Page
  PROVE  Load(c, q) = One(q \in Hand(c)) /\ (Holding(c, q) <=> q \in Hand(c))
<1>1. q \notin InHand(c)
  BY DEF Plain1, InHand
<1>2. q \notin Aside(c)
  BY Fixed DEF Plain1, Aside, NoPage, Page
<1>3. One(q \in InHand(c)) = 0 /\ One(q \in Aside(c)) = 0 /\ One(q \in Hand(c)) \in Nat
  BY <1>1, <1>2 DEF One
<1> QED BY <1>1, <1>2, <1>3 DEF Load, Holding

\* Its range is what the step maps and frees.
Remaps(H, H1) ==
  \A q \in Page :
    /\ q \in H1 \ H => mem[q] = "free" /\ mem'[q] # "free"
    /\ q \in H \ H1 => mem'[q] = "free"
    /\ q \in H1 \cap H => mem'[q] # "free"
    /\ q \notin H1 \cup H => mem'[q] = mem[q]

LEMMA PlainWrites ==
  ASSUME IInv, NEW t \in Thread, NEW c, Plain1(pc[t]), Plain1(c), external' = external,
         Remaps(Hand(pc[t]), Hand(c))
  PROVE  Writes(t, c)
<1> SUFFICES ASSUME NEW q \in Page
             PROVE  /\ mem'[q] # mem[q] => mem[q] = "free" \/ Holding(pc[t], q)
                    /\ One(mem'[q] # "free") - One(mem[q] # "free")
                       = Load(c, q) - Load(pc[t], q) + One(q \in external') - One(q \in external)
  BY DEF Writes
<1> DEFINE x == One(mem[q] # "free")
           x1 == One(mem'[q] # "free")
           y == One(q \in external)
           h == One(q \in Hand(pc[t]))
           h1 == One(q \in Hand(c))
<1>1. Load(pc[t], q) = h /\ Load(c, q) = h1 /\ (Holding(pc[t], q) <=> q \in Hand(pc[t]))
  BY PlainLoad
<1>2. q \in Hand(pc[t]) => mem[q] # "free"
  BY <1>1, Holders DEF IInv
<1>3. mem'[q] # mem[q] => mem[q] = "free" \/ Holding(pc[t], q)
  BY <1>1 DEF Remaps
<1>4. /\ x \in Nat /\ x1 \in Nat /\ y \in Nat /\ h \in Nat /\ h1 \in Nat
  BY OneIs
<1>5. x1 - x = h1 - h
  <2>1. CASE q \in Hand(c) /\ q \notin Hand(pc[t])
    <3>1. x1 = 1 /\ x = 0 /\ h1 = 1 /\ h = 0
      BY <2>1 DEF One, Remaps
    <3> QED BY <3>1
  <2>2. CASE q \notin Hand(c) /\ q \in Hand(pc[t])
    <3>1. x1 = 0 /\ x = 1 /\ h1 = 0 /\ h = 1
      BY <1>2, <2>2 DEF One, Remaps
    <3> QED BY <3>1
  <2>3. CASE q \in Hand(c) /\ q \in Hand(pc[t])
    <3>1. x1 = 1 /\ x = 1 /\ h1 = 1 /\ h = 1
      BY <1>2, <2>3 DEF One, Remaps
    <3> QED BY <3>1
  <2>4. CASE q \notin Hand(c) /\ q \notin Hand(pc[t])
    <3>1. x1 = x /\ h1 = 0 /\ h = 0
      BY <2>4 DEF One, Remaps
    <3> QED BY <1>4, <3>1
  <2> QED BY <2>1, <2>2, <2>3, <2>4
<1>6. One(q \in external') = y
  OBVIOUS
<1> HIDE DEF x, x1, y, h, h1
<1>7. x1 - x = Load(c, q) - Load(pc[t], q) + y - y
  BY <1>1, <1>4, <1>5
<1> QED BY <1>3, <1>6, <1>7 DEF x, x1, y

\* A step of a thread that keeps no arena's memory and takes none from the program.
PlainStep(t, c) ==
  /\ Moves(t, c) /\ Settled(c)
  /\ UNCHANGED <<arenas, count, live, map, lost, ended, external>>
  /\ {pc[t].at, c.at} \cap {"store", "retreat"} = {}
  /\ Plain1(pc[t]) /\ Plain1(c) /\ Remaps(Hand(pc[t]), Hand(c))
  /\ Given(c) \subseteq Given(pc[t])

LEMMA PlainInv ==
  ASSUME IInv, NEW t \in Thread, NEW c, PlainStep(t, c)
  PROVE  IInv'
<1>1. Writes(t, c)
  BY PlainWrites DEF PlainStep
<1>2. Given(pc[t]) \subseteq external /\ external \subseteq Page
  BY ThreadIs DEF TypeOK
<1>3. Claims(t, c)
  BY <1>2 DEF Claims, PlainStep
<1>4. Quiet(t, c)
  BY <1>1, <1>3 DEF Quiet, PlainStep, Plain1
<1> QED BY <1>4, QuietInv

\* What a thread keeps while it asks the OS.
Asks(c, d) ==
  /\ c.call = d.call /\ c.ask = d.ask /\ c.align = d.align /\ c.skip = d.skip
  /\ c.commit = d.commit /\ c.stage = d.stage
  /\ c.ext = d.ext /\ c.stray = d.stray /\ c.meta = d.meta

\* A step from one place of os_alloc_aligned to another.
AskStep(t, c) ==
  /\ pc[t].at \in AskAt /\ c.at \in AskAt \cup {"got", "failed"} /\ c.at # "map"
  /\ c \in Control /\ pc' = [pc EXCEPT ![t] = c] /\ Asks(c, pc[t])
  /\ mem' \in [Page -> {"free", "none", "rw"}] /\ tryOk' \in 0..Retry
  /\ UNCHANGED <<hugeStart, tableVars>>
  /\ Has(c) /\ Hand(c) \subseteq Page /\ Remaps(Hand(pc[t]), Hand(c))
  /\ c.at \in {"post", "have", "got"} => c.lo % c.align = 0
  /\ RealIn(mem', c)

LEMMA AskInv ==
  ASSUME IInv, NEW t \in Thread, NEW c, AskStep(t, c)
  PROVE  IInv'
<1>1. /\ TypeOK /\ pc[t] \in Control /\ Placed(pc[t]) /\ ~ended
  BY ThreadIs DEF AskStep, AskAt
<1>2. /\ pc[t].at \in AskAt /\ c.at \in AskAt \cup {"got", "failed"} /\ c.at # "map"
      /\ Asks(c, pc[t])
  BY DEF AskStep
<1>3. Plain1(pc[t])
  BY <1>1, <1>2 DEF Placed, AskAt, ExtAt, Plain1
<1>4. Plain1(c)
  BY <1>2, <1>3 DEF Plain1, Asks
<1>5. pc[t].ask > 0 /\ Wants(pc[t])
  BY <1>1, <1>2 DEF Placed
<1>6. c.ask > 0 /\ Wants(c) /\ c.call.op \in {"alloc", "reserve"}
  BY <1>2, <1>5 DEF Wants, Asks, Direct
<1>7. Given(c) = {} /\ Given(pc[t]) = {}
  BY <1>2 DEF Given, AskAt, AreaAt
<1>8. c.at = "got" => c.n > 0
  BY <1>6 DEF AskStep, Has
<1>9. Placed(c)
  <2>1. c.at \notin ExtAt /\ c.ext = {} /\ c.stray = NoPage /\ c.meta = NoPage
    BY <1>2, <1>4 DEF ExtAt, AskAt, Plain1
  <2>2. Has(c) /\ Hand(c) \subseteq Page /\ (c.at \in {"post", "have", "got"} => c.lo % c.align = 0)
    BY DEF AskStep
  <2>3. c.at \notin {"idle", "commitInfo", "stray", "add", "retreat", "store", "count", "try",
                     "reserve", "fallback", "claim", "claimCas"}
        /\ c.at \notin HugeAt /\ c.at \notin AreaAt
    BY <1>2 DEF AskAt, HugeAt, AreaAt
  <2> QED BY <1>2, <1>6, <1>8, <2>1, <2>2, <2>3 DEF Placed, AskAt
<1>10. Settled(c)
  BY <1>4, <1>9 DEF Settled, Plain1, AskStep
<1>11. Moves(t, c)
  BY <1>1 DEF Moves, AskStep, TypeOK, tableVars, IInv
<1>12. {pc[t].at, c.at} \cap {"store", "retreat"} = {}
  BY <1>2 DEF AskAt
<1>13. PlainStep(t, c)
  BY <1>3, <1>4, <1>7, <1>10, <1>11, <1>12 DEF PlainStep, AskStep, tableVars
<1> QED BY <1>13, PlainInv

LEMMA AskHand ==
  ASSUME NEW c \in Control, Wants(c)
  PROVE  /\ Hand(c) = (IF c.at \in HandAt THEN Span(c.lo, c.n) ELSE {})
         /\ c.call \in Calls /\ c.ask \in Nat /\ c.align \in Nat /\ c.align > 0 /\ c.skip \in Nat
         /\ c.lo \in Nat /\ c.n \in 0..Pages /\ c.n \in Nat
         /\ Direct(c) => /\ c.call.size \in Nat /\ c.call.size <= GoodSize(c.call.size)
                         /\ c.ask = GoodSize(c.call.size) + c.skip /\ GoodSize(c.call.size) \in Nat
<1>1. c.call.op \in {"alloc", "reserve"}
  BY DEF Wants
<1>2. c.call \in Calls
  BY <1>1 DEF Control, NoCall
<1>3. c.call.size \in Nat
  BY <1>2, CallIs
<1>4. GoodSize(c.call.size) \in Nat /\ c.call.size <= GoodSize(c.call.size)
  BY <1>3, GoodSizeIs
<1>5. c.ask \in Nat /\ c.align \in Nat /\ c.align > 0 /\ c.skip \in Nat /\ c.lo \in Nat
      /\ c.n \in 0..Pages /\ c.n \in Nat
  BY Fixed DEF Control
<1> QED BY <1>1, <1>2, <1>3, <1>4, <1>5 DEF Hand, Wants

\* What a thread that asks the OS has.
LEMMA Asking ==
  ASSUME IInv, NEW t \in Thread, pc[t].at \in AskAt
  PROVE  /\ pc[t] \in Control /\ Wants(pc[t]) /\ Has(pc[t]) /\ pc[t].ask > 0
         /\ Hand(pc[t]) = (IF pc[t].at \in HandAt THEN Span(pc[t].lo, pc[t].n) ELSE {})
         /\ Hand(pc[t]) \subseteq Page
         /\ pc[t].commit => \A q \in Hand(pc[t]) : mem[q] = "rw"
         /\ \A q \in Hand(pc[t]) : mem[q] # "free"
         /\ pc[t].at \in {"post", "have"} => pc[t].lo % pc[t].align = 0
<1>1. pc[t] \in Control /\ Placed(pc[t]) /\ Real(pc[t])
  BY ThreadIs
<1>2. Wants(pc[t]) /\ Has(pc[t]) /\ pc[t].ask > 0 /\ Hand(pc[t]) \subseteq Page
      /\ (pc[t].at \in {"post", "have"} => pc[t].lo % pc[t].align = 0)
  BY <1>1 DEF Placed
<1>3. pc[t].commit => \A q \in Hand(pc[t]) : mem[q] = "rw"
  BY <1>1 DEF Real
<1>4. \A q \in Hand(pc[t]) : mem[q] # "free"
  BY <1>2, Holders DEF IInv, Holding
<1> QED BY <1>1, <1>2, <1>3, <1>4, AskHand

\* The OS fails.
LEMMA FailsInv ==
  ASSUME IInv, NEW t \in Thread, pc[t].at \in {"map", "over"}, Fails(t),
         tryOk' \in 0..Retry, UNCHANGED <<mem, hugeStart, tableVars>>
  PROVE  IInv'
<1> DEFINE c == [pc[t] EXCEPT !.at = "failed", !.n = 0]
<1>1. pc[t].at \in AskAt /\ pc[t].at \notin HandAt
  BY DEF AskAt, HandAt
<1>2. pc[t] \in Control /\ Hand(pc[t]) = {} /\ TypeOK
  BY <1>1, Asking, ThreadIs
<1>3. c \in Control /\ c.at = "failed" /\ Asks(c, pc[t])
  <2>1. "failed" \in Label /\ 0 \in 0..Pages
    BY Fixed DEF Label
  <2>2. c \in Control
    BY <1>2, <2>1 DEF Control
  <2> QED BY <1>2, <2>2 DEF Control, Asks
<1>4. pc' = [pc EXCEPT ![t] = c]
  BY DEF Fails, Set
<1> HIDE DEF c
<1>5. Hand(c) = {} /\ Has(c) /\ RealIn(mem', c)
  BY <1>3 DEF Hand, HandAt, Has, RealIn, AskAt
<1>6. Remaps(Hand(pc[t]), Hand(c))
  BY <1>2, <1>5 DEF Remaps
<1>7. mem' \in [Page -> {"free", "none", "rw"}]
  BY <1>2 DEF TypeOK
<1>8. AskStep(t, c)
  BY <1>1, <1>3, <1>4, <1>5, <1>6, <1>7 DEF AskStep
<1> QED BY <1>8, AskInv

\* Mapping a free range.
LEMMA MapIs ==
  ASSUME TypeOK, NEW n \in Nat, NEW p \in Fits(n), NEW commit \in BOOLEAN, mem' = Map(p, n, commit)
  PROVE  /\ mem' \in [Page -> {"free", "none", "rw"}] /\ Span(p, n) \subseteq Page
         /\ p \in Page /\ p \in Nat /\ p + n <= Pages
         /\ \A q \in Span(p, n) : mem[q] = "free" /\ mem'[q] # "free" /\ (commit => mem'[q] = "rw")
         /\ \A q \in Page : q \notin Span(p, n) => mem'[q] = mem[q]
<1>1. /\ p \in Page /\ p \in Nat /\ p + n <= Pages /\ Span(p, n) \subseteq Page
      /\ \A q \in Span(p, n) : mem[q] = "free"
  BY FitsIs
<1>2. mem \in [Page -> {"free", "none", "rw"}]
  BY DEF TypeOK
<1> QED BY <1>1, <1>2 DEF Map

\* What the OS gives is taken from what nobody had.
Gained(p, n) ==
  /\ mem' \in [Page -> {"free", "none", "rw"}] /\ Span(p, n) \subseteq Page
  /\ p \in Page /\ p + n <= Pages
  /\ \A q \in Span(p, n) : mem[q] = "free" /\ mem'[q] # "free"
  /\ \A q \in Page : q \notin Span(p, n) => mem'[q] = mem[q]

LEMMA MapGains ==
  ASSUME TypeOK, NEW n \in Nat, NEW p \in Fits(n), mem' = Map(p, n, TRUE)
  PROVE  Gained(p, n)
BY MapIs DEF Gained

LEMMA UnmapIs ==
  ASSUME TypeOK, NEW S, mem' = Unmap(S)
  PROVE  /\ mem' \in [Page -> {"free", "none", "rw"}]
         /\ \A q \in Page : mem'[q] = IF q \in S THEN "free" ELSE mem[q]
BY DEF TypeOK, Unmap

LEMMA PrimAllocInv ==
  ASSUME IInv, NEW t \in Thread, PrimAlloc(t), UNCHANGED tableVars
  PROVE  IInv'
<1>1. pc[t].at = "map" /\ pc[t].at \in AskAt /\ pc[t].at \notin HandAt /\ TypeOK
  BY ThreadIs DEF PrimAlloc, AskAt, HandAt
<1>2. pc[t] \in Control /\ Wants(pc[t]) /\ pc[t].ask > 0 /\ Hand(pc[t]) = {} /\ pc[t].ask \in Nat
      /\ pc[t].align \in Nat /\ pc[t].commit \in BOOLEAN
  BY <1>1, Asking, AskHand DEF Control
<1>3. PICK tried \in {"no", "advised", "large"} :
         /\ LargePages(pc[t], tried)
         /\ \/ \E p \in Places(pc[t].ask) :
               \E l \in (IF tried = "large" THEN {TRUE}
                         ELSE IF tried = "advised" THEN BOOLEAN ELSE {FALSE}) :
                 /\ mem' = Map(p, pc[t].ask, pc[t].commit)
                 /\ Set(t, [pc[t] EXCEPT
                        !.at = IF p % pc[t].align = 0 THEN "have" ELSE "misaligned",
                        !.lo = p, !.n = pc[t].ask, !.pinned = l])
            \/ /\ tried # "large"
               /\ Fails(t) /\ UNCHANGED mem
  BY DEF PrimAlloc
<1>4. tryOk' \in 0..Retry /\ hugeStart' = hugeStart
  <2>1. LargePages(pc[t], tried) /\ hugeStart' = hugeStart
    BY <1>3 DEF PrimAlloc
  <2>2. tryOk \in 0..Retry
    BY <1>1 DEF TypeOK
  <2> QED BY <2>1, <2>2, Fixed DEF LargePages
<1>5. CASE Fails(t) /\ UNCHANGED mem
  BY <1>1, <1>4, <1>5, FailsInv
<1>6. ASSUME NEW p \in Places(pc[t].ask), NEW l \in BOOLEAN,
             mem' = Map(p, pc[t].ask, pc[t].commit),
             Set(t, [pc[t] EXCEPT
                        !.at = IF p % pc[t].align = 0 THEN "have" ELSE "misaligned",
                        !.lo = p, !.n = pc[t].ask, !.pinned = l])
      PROVE  IInv'
  <2> DEFINE c == [pc[t] EXCEPT !.at = IF p % pc[t].align = 0 THEN "have" ELSE "misaligned",
                                !.lo = p, !.n = pc[t].ask, !.pinned = l]
  <2>1. p \in Fits(pc[t].ask)
    BY PlacesFit
  <2>2. /\ mem' \in [Page -> {"free", "none", "rw"}] /\ Span(p, pc[t].ask) \subseteq Page
        /\ p \in Page /\ p \in Nat /\ p + pc[t].ask <= Pages
        /\ \A q \in Span(p, pc[t].ask) : mem[q] = "free" /\ mem'[q] # "free"
                                         /\ (pc[t].commit => mem'[q] = "rw")
        /\ \A q \in Page : q \notin Span(p, pc[t].ask) => mem'[q] = mem[q]
    BY <1>1, <1>2, <1>6, <2>1, MapIs
  <2>3. c \in Control /\ Asks(c, pc[t]) /\ c.lo = p /\ c.n = pc[t].ask
        /\ c.at = IF p % pc[t].align = 0 THEN "have" ELSE "misaligned"
    <3>1. {"have", "misaligned"} \subseteq Label /\ pc[t].ask \in 0..Pages
      BY <1>2, <2>2, Fixed DEF Label
    <3>2. (IF p % pc[t].align = 0 THEN "have" ELSE "misaligned") \in Label
      BY <3>1
    <3>3. c \in Control
      BY <1>2, <2>2, <3>1, <3>2 DEF Control
    <3> QED BY <1>2, <3>3 DEF Control, Asks
  <2>4. pc' = [pc EXCEPT ![t] = c]
    BY <1>6 DEF Set
  <2> HIDE DEF c
  <2>5. Wants(c)
    BY <1>2, <2>3 DEF Wants, Asks, Direct
  <2>6. c.at \in AskAt /\ c.at \in HandAt /\ c.at # "map"
    BY <2>3 DEF AskAt, HandAt
  <2>7. Hand(c) = Span(p, pc[t].ask)
    BY <2>3, <2>5, <2>6, AskHand
  <2>8. Has(c) /\ RealIn(mem', c) /\ (c.at \in {"post", "have", "got"} => c.lo % c.align = 0)
    BY <2>2, <2>3, <2>7 DEF Has, RealIn, Asks
  <2>9. Remaps(Hand(pc[t]), Hand(c))
    BY <1>2, <2>2, <2>7 DEF Remaps
  <2>10. AskStep(t, c)
    BY <1>1, <1>4, <2>2, <2>3, <2>4, <2>6, <2>7, <2>8, <2>9 DEF AskStep
  <2> QED BY <2>10, AskInv
<1> QED BY <1>3, <1>5, <1>6

LEMMA FreeMisalignedInv ==
  ASSUME IInv, NEW t \in Thread, FreeMisaligned(t), UNCHANGED tableVars
  PROVE  IInv'
<1> DEFINE c == [pc[t] EXCEPT !.at = "over", !.n = 0]
<1>1. pc[t].at = "misaligned" /\ pc[t].at \in AskAt /\ pc[t].at \in HandAt /\ TypeOK
  BY ThreadIs DEF FreeMisaligned, AskAt, HandAt
<1>2. pc[t] \in Control /\ Hand(pc[t]) = Span(pc[t].lo, pc[t].n)
  BY <1>1, Asking
<1>3. /\ mem' \in [Page -> {"free", "none", "rw"}]
      /\ \A q \in Page : mem'[q] = IF q \in Hand(pc[t]) THEN "free" ELSE mem[q]
  BY <1>1, <1>2, UnmapIs DEF FreeMisaligned
<1>4. c \in Control /\ Asks(c, pc[t]) /\ c.at = "over"
  <2>1. "over" \in Label /\ 0 \in 0..Pages
    BY Fixed DEF Label
  <2>2. c \in Control
    BY <1>2, <2>1 DEF Control
  <2> QED BY <1>2, <2>2 DEF Control, Asks
<1>5. pc' = [pc EXCEPT ![t] = c]
  BY DEF FreeMisaligned, Set
<1> HIDE DEF c
<1>6. Hand(c) = {} /\ Has(c) /\ RealIn(mem', c)
  BY <1>4 DEF Hand, HandAt, Has, RealIn
<1>7. Remaps(Hand(pc[t]), Hand(c))
  BY <1>3, <1>6 DEF Remaps
<1>8. tryOk' \in 0..Retry /\ hugeStart' = hugeStart
  BY <1>1 DEF TypeOK, FreeMisaligned
<1>9. AskStep(t, c)
  BY <1>1, <1>3, <1>4, <1>5, <1>6, <1>7, <1>8 DEF AskStep, AskAt
<1> QED BY <1>9, AskInv

LEMMA OverAllocateInv ==
  ASSUME IInv, NEW t \in Thread, OverAllocate(t), UNCHANGED tableVars
  PROVE  IInv'
<1>1. pc[t].at = "over" /\ pc[t].at \in AskAt /\ pc[t].at \notin HandAt /\ TypeOK
  BY ThreadIs DEF OverAllocate, AskAt, HandAt
<1>2. pc[t] \in Control /\ Wants(pc[t]) /\ pc[t].ask > 0 /\ Hand(pc[t]) = {} /\ pc[t].ask \in Nat
      /\ pc[t].align \in Nat /\ pc[t].commit \in BOOLEAN
  BY <1>1, Asking, AskHand DEF Control
<1>3. tryOk' \in 0..Retry /\ hugeStart' = hugeStart
  BY <1>1 DEF TypeOK, OverAllocate
<1>4. CASE Fails(t) /\ UNCHANGED mem
  BY <1>1, <1>3, <1>4, FailsInv
<1> DEFINE n == pc[t].ask + pc[t].align
<1>5. ASSUME NEW p \in Places(n), mem' = Map(p, n, pc[t].commit),
             Set(t, [pc[t] EXCEPT !.at = "pre", !.lo = p, !.n = n, !.pinned = FALSE])
      PROVE  IInv'
  <2> DEFINE c == [pc[t] EXCEPT !.at = "pre", !.lo = p, !.n = n, !.pinned = FALSE]
  <2>0. n \in Nat
    BY <1>2
  <2>1. p \in Fits(n)
    BY PlacesFit
  <2>2. /\ mem' \in [Page -> {"free", "none", "rw"}] /\ Span(p, n) \subseteq Page
        /\ p \in Page /\ p \in Nat /\ p + n <= Pages
        /\ \A q \in Span(p, n) : mem[q] = "free" /\ mem'[q] # "free"
                                 /\ (pc[t].commit => mem'[q] = "rw")
        /\ \A q \in Page : q \notin Span(p, n) => mem'[q] = mem[q]
    BY <1>1, <1>2, <1>5, <2>0, <2>1, MapIs
  <2>3. c \in Control /\ Asks(c, pc[t]) /\ c.lo = p /\ c.n = n /\ c.at = "pre"
    <3>1. "pre" \in Label /\ n \in 0..Pages /\ FALSE \in BOOLEAN
      BY <1>2, <2>0, <2>2, Fixed DEF Label
    <3>2. c \in Control
      BY <1>2, <2>2, <3>1 DEF Control
    <3> QED BY <1>2, <3>2 DEF Control, Asks
  <2>4. pc' = [pc EXCEPT ![t] = c]
    BY <1>5 DEF Set
  <2> HIDE DEF c
  <2>5. Wants(c)
    BY <1>2, <2>3 DEF Wants, Asks, Direct
  <2>6. c.at \in AskAt /\ c.at \in HandAt /\ c.at # "map"
    BY <2>3 DEF AskAt, HandAt
  <2>7. Hand(c) = Span(p, n)
    BY <2>3, <2>5, <2>6, AskHand
  <2>8. Has(c) /\ RealIn(mem', c) /\ (c.at \in {"post", "have", "got"} => c.lo % c.align = 0)
    BY <2>2, <2>3, <2>7 DEF Has, RealIn, Asks
  <2>9. Remaps(Hand(pc[t]), Hand(c))
    BY <1>2, <2>2, <2>7 DEF Remaps
  <2>10. AskStep(t, c)
    BY <1>1, <1>3, <2>2, <2>3, <2>4, <2>6, <2>7, <2>8, <2>9 DEF AskStep
  <2> QED BY <2>10, AskInv
<1> QED BY <1>4, <1>5 DEF OverAllocate

LEMMA FreePreInv ==
  ASSUME IInv, NEW t \in Thread, FreePre(t), UNCHANGED tableVars
  PROVE  IInv'
<1> DEFINE d == pc[t]
           up == AlignUp(d.lo, d.align)
           n == d.n - (up - d.lo)
           c == [d EXCEPT !.at = "post", !.lo = up, !.n = n]
<1>1. d.at = "pre" /\ d.at \in AskAt /\ d.at \in HandAt /\ TypeOK
  BY ThreadIs DEF FreePre, AskAt, HandAt
<1>2. /\ d \in Control /\ Wants(d) /\ Hand(d) = Span(d.lo, d.n) /\ Hand(d) \subseteq Page
      /\ d.ask \in Nat /\ d.align \in Nat /\ d.align > 0 /\ d.lo \in Nat /\ d.n \in 0..Pages
      /\ d.n = d.ask + d.align
      /\ d.commit => \A q \in Hand(d) : mem[q] = "rw"
      /\ \A q \in Hand(d) : mem[q] # "free"
  BY <1>1, Asking, AskHand DEF Has
<1>3. /\ up \in Int /\ up % d.align = 0 /\ d.lo <= up /\ up < d.lo + d.align
  <2>1. d.lo \in Int
    BY <1>2
  <2> QED BY <1>2, <2>1, AlignUpIs
<1>4. /\ mem' \in [Page -> {"free", "none", "rw"}]
      /\ \A q \in Page : mem'[q] = IF q \in d.lo..(up - 1) THEN "free" ELSE mem[q]
  BY <1>1, UnmapIs DEF FreePre
<1>5. up \in Nat /\ n \in 0..Pages /\ n >= d.ask
  <2> HIDE DEF up, d
  <2> QED BY <1>2, <1>3, Fixed
<1>6. c \in Control /\ Asks(c, d) /\ c.at = "post" /\ c.lo = up /\ c.n = n
  <2> HIDE DEF up, n
  <2>1. "post" \in Label
    BY DEF Label
  <2>2. c \in Control
    BY <1>2, <1>5, <2>1 DEF Control
  <2>3. c.at = "post" /\ c.lo = up /\ c.n = n
    BY <1>2 DEF Control
  <2>4. Asks(c, d)
    BY <1>2 DEF Control, Asks
  <2> QED BY <2>2, <2>3, <2>4
<1>7. pc' = [pc EXCEPT ![t] = c]
  BY DEF FreePre, Set
<1>8. UNCHANGED <<tryOk, hugeStart>>
  BY DEF FreePre
<1> HIDE DEF c
<1>9. Wants(c)
  BY <1>2, <1>6 DEF Wants, Asks, Direct
<1>10. c.at \in AskAt /\ c.at \in HandAt /\ c.at # "map"
  BY <1>6 DEF AskAt, HandAt
<1>11. Hand(c) = Span(up, n)
  BY <1>6, <1>9, <1>10, AskHand
<1> HIDE DEF up
<1>12. \A q \in Int : /\ q \in Span(d.lo, d.n) <=> q \in d.lo..(up - 1) \/ q \in Span(up, n)
                      /\ ~(q \in d.lo..(up - 1) /\ q \in Span(up, n))
  <2> DEFINE lo == d.lo
             m == d.n
  <2>1. lo \in Int /\ m \in Int /\ up \in Int /\ lo <= up /\ n = m - (up - lo) /\ n \in Nat
    BY <1>2, <1>3, <1>5
  <2> HIDE DEF n, lo, m
  <2>2. \A q \in Int : /\ q \in Span(lo, m) <=> q \in lo..(up - 1) \/ q \in Span(up, n)
                       /\ ~(q \in lo..(up - 1) /\ q \in Span(up, n))
    BY <2>1 DEF Span
  <2> QED BY <2>2 DEF lo, m
<1>13. \A q \in Page : q \in Int
  BY DEF Page
<1> HIDE DEF n
<1>14. Hand(c) \subseteq Hand(d) /\ \A q \in Hand(c) : mem'[q] = mem[q]
  <2>1. \A q \in Span(up, n) : q \in Int
    BY DEF Span
  <2> QED BY <1>2, <1>4, <1>11, <1>12, <2>1
<1>15. Remaps(Hand(d), Hand(c))
  BY <1>2, <1>4, <1>11, <1>12, <1>13 DEF Remaps
<1>16. Has(c) /\ RealIn(mem', c) /\ c.lo % c.align = 0
  BY <1>2, <1>3, <1>5, <1>6, <1>14 DEF Has, RealIn, Asks
<1>17. tryOk' \in 0..Retry
  BY <1>1, <1>8 DEF TypeOK
<1>18. AskStep(t, c)
  BY <1>1, <1>2, <1>4, <1>6, <1>7, <1>8, <1>10, <1>14, <1>15, <1>16, <1>17 DEF AskStep
<1> QED BY <1>18, AskInv

LEMMA FreePostInv ==
  ASSUME IInv, NEW t \in Thread, FreePost(t), UNCHANGED tableVars
  PROVE  IInv'
<1> DEFINE d == pc[t]
           c == [d EXCEPT !.at = "have", !.n = d.ask]
<1>1. d.at = "post" /\ d.at \in AskAt /\ d.at \in HandAt /\ TypeOK
  BY ThreadIs DEF FreePost, AskAt, HandAt
<1>2. /\ d \in Control /\ Wants(d) /\ Hand(d) = Span(d.lo, d.n) /\ Hand(d) \subseteq Page
      /\ d.ask \in Nat /\ d.lo \in Nat /\ d.n \in 0..Pages /\ d.n \in Nat /\ d.n >= d.ask
      /\ d.commit => \A q \in Hand(d) : mem[q] = "rw"
      /\ \A q \in Hand(d) : mem[q] # "free"
      /\ d.lo % d.align = 0
  BY <1>1, Asking, AskHand DEF Has
<1>3. /\ mem' \in [Page -> {"free", "none", "rw"}]
      /\ \A q \in Page : mem'[q] = IF q \in Span(d.lo + d.ask, d.n - d.ask) THEN "free" ELSE mem[q]
  BY <1>1, UnmapIs DEF FreePost
<1>4. d.ask \in 0..Pages
  <2> HIDE DEF d
  <2> QED BY <1>2, Fixed
<1>5. c \in Control /\ Asks(c, d) /\ c.at = "have" /\ c.lo = d.lo /\ c.n = d.ask
  <2>1. "have" \in Label
    BY DEF Label
  <2>2. c \in Control
    BY <1>2, <1>4, <2>1 DEF Control
  <2> QED BY <1>2, <2>2 DEF Control, Asks
<1>6. pc' = [pc EXCEPT ![t] = c]
  BY DEF FreePost, Set
<1>7. UNCHANGED <<tryOk, hugeStart>>
  BY DEF FreePost
<1> HIDE DEF c
<1>8. Wants(c)
  BY <1>2, <1>5 DEF Wants, Asks, Direct
<1>9. c.at \in AskAt /\ c.at \in HandAt /\ c.at # "map"
  BY <1>5 DEF AskAt, HandAt
<1>10. Hand(c) = Span(d.lo, d.ask)
  BY <1>5, <1>8, <1>9, AskHand
<1>11. \A q \in Int : /\ q \in Span(d.lo, d.n) <=> q \in Span(d.lo, d.ask) \/ q \in Span(d.lo + d.ask, d.n - d.ask)
                      /\ ~(q \in Span(d.lo, d.ask) /\ q \in Span(d.lo + d.ask, d.n - d.ask))
  <2>1. d.lo \in Int /\ d.n \in Int /\ d.ask \in Int /\ 0 <= d.ask /\ d.ask <= d.n
    BY <1>2
  <2>2. Splits(d.lo, d.ask, d.n)
    BY <2>1, SplitSpan
  <2> QED BY <2>2 DEF Splits
<1>12. \A q \in Page : q \in Int
  BY DEF Page
<1>13. Hand(c) \subseteq Hand(d) /\ \A q \in Hand(c) : mem'[q] = mem[q]
  <2>1. \A q \in Span(d.lo, d.ask) : q \in Int
    BY DEF Span
  <2> QED BY <1>2, <1>3, <1>10, <1>11, <2>1
<1>14. Remaps(Hand(d), Hand(c))
  BY <1>2, <1>3, <1>10, <1>11, <1>12 DEF Remaps
<1>15. Has(c) /\ RealIn(mem', c) /\ c.lo % c.align = 0
  BY <1>2, <1>5, <1>13 DEF Has, RealIn, Asks
<1>16. tryOk' \in 0..Retry
  BY <1>1, <1>7 DEF TypeOK
<1>17. AskStep(t, c)
  BY <1>1, <1>2, <1>3, <1>5, <1>6, <1>7, <1>9, <1>13, <1>14, <1>15, <1>16 DEF AskStep
<1> QED BY <1>17, AskInv

LEMMA SkipExtraInv ==
  ASSUME IInv, NEW t \in Thread, SkipExtra(t), UNCHANGED tableVars
  PROVE  IInv'
<1> DEFINE d == pc[t]
           c == [d EXCEPT !.at = "got"]
<1>1. d.at = "have" /\ d.at \in AskAt /\ d.at \in HandAt /\ TypeOK
  BY ThreadIs DEF SkipExtra, AskAt, HandAt
<1>2. /\ d \in Control /\ Wants(d) /\ Hand(d) = Span(d.lo, d.n) /\ Hand(d) \subseteq Page
      /\ d.ask \in Nat /\ d.lo \in Nat /\ d.n \in Nat /\ d.n = d.ask /\ d.skip \in Nat
      /\ d.commit => \A q \in Hand(d) : mem[q] = "rw"
      /\ \A q \in Hand(d) : mem[q] # "free"
      /\ d.lo % d.align = 0
      /\ Direct(d) => /\ d.call.size \in Nat /\ d.call.size <= GoodSize(d.call.size)
                      /\ d.ask = GoodSize(d.call.size) + d.skip /\ GoodSize(d.call.size) \in Nat
      /\ ~Direct(d) => d.skip = 0
  BY <1>1, Asking, AskHand DEF Has, Wants
<1>3. mem \in [Page -> {"free", "none", "rw"}] /\ tryOk \in 0..Retry
  BY <1>1 DEF TypeOK
<1>4. /\ mem' \in [Page -> {"free", "none", "rw"}]
      /\ \A q \in Page : mem'[q] = mem[q] \/ (q \in Span(d.lo, d.skip) /\ mem'[q] = "none")
  BY <1>3 DEF SkipExtra, Decommit, Protect
<1>5. c \in Control /\ Asks(c, d) /\ c.at = "got" /\ c.lo = d.lo /\ c.n = d.n
  <2>1. "got" \in Label
    BY DEF Label
  <2>2. c \in Control
    BY <1>2, <2>1 DEF Control
  <2> QED BY <1>2, <2>2 DEF Control, Asks
<1>6. pc' = [pc EXCEPT ![t] = c]
  BY DEF SkipExtra, Set
<1>7. UNCHANGED <<tryOk, hugeStart>>
  BY DEF SkipExtra
<1> HIDE DEF c
<1>8. Wants(c)
  BY <1>2, <1>5 DEF Wants, Asks, Direct
<1>9. c.at \notin AskAt /\ c.at \in HandAt /\ c.at # "map"
  BY <1>5 DEF AskAt, HandAt
<1>10. Hand(c) = Hand(d)
  BY <1>2, <1>5, <1>8, <1>9, AskHand
<1>11. Span(d.lo, d.skip) \subseteq Span(d.lo, d.n)
  <2>1. d.lo \in Int /\ d.n \in Int /\ d.skip \in Int /\ 0 <= d.skip /\ d.skip <= d.n
    BY <1>2
  <2>2. Splits(d.lo, d.skip, d.n)
    BY <2>1, SplitSpan
  <2> QED BY <2>2 DEF Splits
<1>12. Remaps(Hand(d), Hand(c))
  BY <1>2, <1>4, <1>10, <1>11 DEF Remaps
<1>13. ASSUME Direct(d), d.commit PROVE \A q \in Span(d.lo + d.skip, d.call.size) : mem'[q] = "rw"
  <2>1. /\ Span(d.lo + d.skip, d.call.size) \subseteq Span(d.lo, d.n)
        /\ \A q \in Span(d.lo + d.skip, d.call.size) : q \notin Span(d.lo, d.skip)
    <3>1. /\ d.lo \in Int /\ d.n \in Int /\ d.skip \in Int /\ 0 <= d.skip /\ d.skip <= d.n
          /\ d.n - d.skip = GoodSize(d.call.size) /\ d.lo + d.skip \in Int
          /\ d.call.size \in Int /\ GoodSize(d.call.size) \in Int
          /\ 0 <= d.call.size /\ d.call.size <= GoodSize(d.call.size)
      BY <1>2, <1>13
    <3>0. /\ Splits(d.lo + d.skip, d.call.size, GoodSize(d.call.size))
          /\ Splits(d.lo, d.skip, d.n)
      BY <3>1, SplitSpan
    <3>2. Span(d.lo + d.skip, d.call.size) \subseteq Span(d.lo + d.skip, GoodSize(d.call.size))
      BY <3>0 DEF Splits
    <3>3. /\ Span(d.lo + d.skip, d.n - d.skip) \subseteq Span(d.lo, d.n)
          /\ \A q \in Int : ~(q \in Span(d.lo, d.skip) /\ q \in Span(d.lo + d.skip, d.n - d.skip))
      BY <3>0 DEF Splits
    <3>4. Span(d.lo + d.skip, d.call.size) \subseteq Int
      BY DEF Span
    <3> QED BY <3>1, <3>2, <3>3, <3>4
  <2> QED BY <1>2, <1>4, <1>13, <2>1
<1>14. Has(c) /\ RealIn(mem', c) /\ c.lo % c.align = 0
  BY <1>2, <1>5, <1>9, <1>13 DEF Has, RealIn, Asks, Direct
<1>15. AskStep(t, c)
  BY <1>1, <1>2, <1>3, <1>4, <1>5, <1>6, <1>7, <1>9, <1>10, <1>12, <1>14 DEF AskStep
<1> QED BY <1>15, AskInv

-----------------------------------------------------------------------------
(* Steps that change what a thread holds beside its range.                 *)

Held(c) == {q \in Page : Holding(c, q)}
Once(c) ==
  /\ Hand(c) \cap InHand(c) \cap Page = {} /\ Hand(c) \cap Aside(c) \cap Page = {}
  /\ InHand(c) \cap Aside(c) \cap Page = {}

LEMMA OnceLoad ==
  ASSUME NEW c, Once(c), NEW q \in Page
  PROVE  Load(c, q) = One(q \in Held(c))
<1> DEFINE a == One(q \in Hand(c))
           b == One(q \in InHand(c))
           d == One(q \in Aside(c))
           h == One(q \in Held(c))
<1>1. q \in Held(c) <=> q \in Hand(c) \/ q \in InHand(c) \/ q \in Aside(c)
  BY DEF Held, Holding
<1>2. /\ ~(q \in Hand(c) /\ q \in InHand(c)) /\ ~(q \in Hand(c) /\ q \in Aside(c))
      /\ ~(q \in InHand(c) /\ q \in Aside(c))
  BY DEF Once
<1>3. CASE q \in Hand(c)
  <2>1. a = 1 /\ b = 0 /\ d = 0 /\ h = 1
    BY <1>1, <1>2, <1>3 DEF One
  <2> QED BY <2>1 DEF Load
<1>4. CASE q \in InHand(c)
  <2>1. a = 0 /\ b = 1 /\ d = 0 /\ h = 1
    BY <1>1, <1>2, <1>4 DEF One
  <2> QED BY <2>1 DEF Load
<1>5. CASE q \in Aside(c)
  <2>1. a = 0 /\ b = 0 /\ d = 1 /\ h = 1
    BY <1>1, <1>2, <1>5 DEF One
  <2> QED BY <2>1 DEF Load
<1>6. CASE q \notin Held(c)
  <2>1. a = 0 /\ b = 0 /\ d = 0 /\ h = 0
    BY <1>1, <1>6 DEF One
  <2> QED BY <2>1 DEF Load
<1> QED BY <1>1, <1>3, <1>4, <1>5, <1>6

LEMMA HeldOnce ==
  ASSUME IInv, NEW t \in Thread
  PROVE  \A q \in Page : Load(pc[t], q) = One(q \in Held(pc[t])) /\ (q \in Held(pc[t]) => mem[q] # "free")
<1> SUFFICES ASSUME NEW q \in Page
             PROVE  Load(pc[t], q) = One(q \in Held(pc[t])) /\ (q \in Held(pc[t]) => mem[q] # "free")
  OBVIOUS
<1>1. CASE q \in Held(pc[t])
  <2>1. Load(pc[t], q) = 1 /\ mem[q] # "free"
    BY <1>1, Holders DEF IInv, Held
  <2> QED BY <1>1, <2>1 DEF One
<1>2. CASE q \notin Held(pc[t])
  <2>1. ~Holding(pc[t], q)
    BY <1>2 DEF Held
  <2>2. Load(pc[t], q) = 0
    BY <2>1, LoadIs
  <2> QED BY <1>2, <2>2 DEF One
<1> QED BY <1>1, <1>2

LEMMA HeldWrites ==
  ASSUME IInv, NEW t \in Thread, NEW c, Once(c), external' = external,
         Remaps(Held(pc[t]), Held(c))
  PROVE  Writes(t, c)
<1> SUFFICES ASSUME NEW q \in Page
             PROVE  /\ mem'[q] # mem[q] => mem[q] = "free" \/ Holding(pc[t], q)
                    /\ One(mem'[q] # "free") - One(mem[q] # "free")
                       = Load(c, q) - Load(pc[t], q) + One(q \in external') - One(q \in external)
  BY DEF Writes
<1> DEFINE x == One(mem[q] # "free")
           x1 == One(mem'[q] # "free")
           y == One(q \in external)
           h == One(q \in Held(pc[t]))
           h1 == One(q \in Held(c))
<1>1. Load(pc[t], q) = h /\ Load(c, q) = h1 /\ (q \in Held(pc[t]) => mem[q] # "free")
  BY OnceLoad, HeldOnce
<1>2. q \in Held(pc[t]) <=> Holding(pc[t], q)
  BY DEF Held
<1>3. mem'[q] # mem[q] => mem[q] = "free" \/ Holding(pc[t], q)
  BY <1>2 DEF Remaps
<1>4. /\ x \in Nat /\ x1 \in Nat /\ y \in Nat /\ h \in Nat /\ h1 \in Nat
  BY OneIs
<1>5. x1 - x = h1 - h
  <2>1. CASE q \in Held(c) /\ q \notin Held(pc[t])
    <3>1. x1 = 1 /\ x = 0 /\ h1 = 1 /\ h = 0
      BY <2>1 DEF One, Remaps
    <3> QED BY <3>1
  <2>2. CASE q \notin Held(c) /\ q \in Held(pc[t])
    <3>1. x1 = 0 /\ x = 1 /\ h1 = 0 /\ h = 1
      BY <1>1, <2>2 DEF One, Remaps
    <3> QED BY <3>1
  <2>3. CASE q \in Held(c) /\ q \in Held(pc[t])
    <3>1. x1 = 1 /\ x = 1 /\ h1 = 1 /\ h = 1
      BY <1>1, <2>3 DEF One, Remaps
    <3> QED BY <3>1
  <2>4. CASE q \notin Held(c) /\ q \notin Held(pc[t])
    <3>1. x1 = x /\ h1 = 0 /\ h = 0
      BY <2>4 DEF One, Remaps
    <3> QED BY <1>4, <3>1
  <2> QED BY <2>1, <2>2, <2>3, <2>4
<1>6. One(q \in external') = y
  OBVIOUS
<1> HIDE DEF x, x1, y, h, h1
<1>7. x1 - x = Load(c, q) - Load(pc[t], q) + y - y
  BY <1>1, <1>4, <1>5
<1> QED BY <1>3, <1>6, <1>7 DEF x, x1, y

CalmStep(t, c) ==
  /\ Moves(t, c) /\ Settled(c)
  /\ UNCHANGED <<arenas, count, live, map, lost, ended, external>>
  /\ {pc[t].at, c.at} \cap {"store", "retreat"} = {}
  /\ {e \in c.ext : e.id # 0} = {e \in pc[t].ext : e.id # 0}
  /\ Once(c) /\ Remaps(Held(pc[t]), Held(c))
  /\ Given(c) \subseteq Given(pc[t])

LEMMA CalmInv ==
  ASSUME IInv, NEW t \in Thread, NEW c, CalmStep(t, c)
  PROVE  IInv'
<1>1. Writes(t, c)
  BY HeldWrites DEF CalmStep
<1>2. Given(pc[t]) \subseteq external /\ external \subseteq Page
  BY ThreadIs DEF TypeOK
<1>3. Claims(t, c)
  BY <1>2 DEF Claims, CalmStep
<1>4. Quiet(t, c)
  BY <1>1, <1>3 DEF Quiet, CalmStep
<1> QED BY <1>4, QuietInv

\* A thread without a segment in hand.
LEMMA NoSegmentHeld ==
  ASSUME NEW c, c.ext = {}
  PROVE  InHand(c) = {} /\ Held(c) = Page \cap (Hand(c) \cup Aside(c))
BY DEF InHand, Held, Holding

\* A thread with nothing aside.
LEMMA NothingAside ==
  ASSUME NEW c, c.stray = NoPage, c.meta = NoPage
  PROVE  Aside(c) \cap Page = {} /\ Held(c) = Page \cap (Hand(c) \cup InHand(c))
<1>1. NoPage \notin Page
  BY Fixed DEF NoPage, Page
<1>2. Aside(c) = {NoPage}
  BY DEF Aside
<1> QED BY <1>1, <1>2 DEF Held, Holding

-----------------------------------------------------------------------------
(* Huge pages.                                                             *)

\* What a thread that takes or gives back huge pages has.
LEMMA HugeIs ==
  ASSUME IInv, NEW t \in Thread, pc[t].at \in HugeAt
  PROVE  /\ TypeOK /\ pc[t] \in Control /\ ~ended
         /\ pc[t].call.op = "huge" /\ ~Direct(pc[t]) /\ pc[t].ext = {} /\ pc[t].meta = NoPage
         /\ pc[t].lo \in Nat /\ pc[t].lo % Block = 0 /\ pc[t].ask \in Nat
         /\ pc[t].n \in 0..Pages /\ pc[t].n \in Nat /\ pc[t].n % Block = 0
         /\ pc[t].at # "stray" => pc[t].stray = NoPage
         /\ pc[t].at \in {"claim", "claimCas"} => pc[t].ask % Block = 0
         /\ Hand(pc[t]) = (IF pc[t].at \in {"huge", "stray", "freeHuge"}
                           THEN Span(pc[t].lo, pc[t].n) ELSE {})
         /\ Hand(pc[t]) \subseteq Page /\ \A q \in Hand(pc[t]) : mem[q] # "free"
<1>1. TypeOK /\ pc[t] \in Control /\ Placed(pc[t]) /\ ~ended
  BY ThreadIs DEF HugeAt
<1>2. /\ pc[t].call.op = "huge" /\ pc[t].lo % Block = 0 /\ pc[t].n % Block = 0
      /\ pc[t].at \in {"claim", "claimCas"} => pc[t].ask % Block = 0
      /\ pc[t].at # "stray" => pc[t].stray = NoPage
      /\ Hand(pc[t]) \subseteq Page
  BY <1>1 DEF Placed
<1>3. pc[t].ext = {} /\ pc[t].meta = NoPage /\ ~Direct(pc[t])
  BY <1>1 DEF Placed, HugeAt, ExtAt, AskAt
<1>4. \A q \in Hand(pc[t]) : mem[q] # "free"
  BY <1>2, Holders DEF IInv, Holding
<1>5. pc[t].lo \in Nat /\ pc[t].ask \in Nat /\ pc[t].n \in 0..Pages /\ pc[t].n \in Nat
  BY <1>1, Fixed DEF Control
<1>6. Hand(pc[t]) = (IF pc[t].at \in {"huge", "stray", "freeHuge"}
                     THEN Span(pc[t].lo, pc[t].n) ELSE {})
  BY <1>2 DEF Hand, HandAt, HugeAt
<1> QED BY <1>1, <1>2, <1>3, <1>4, <1>5, <1>6

\* What it is to have next.
HugeNext(t, c) ==
  /\ c \in Control /\ c.call = pc[t].call /\ c.stage = pc[t].stage /\ c.ext = {} /\ c.meta = NoPage
  /\ c.at \in HugeAt \cup {"failed", "got"} /\ c.lo % Block = 0 /\ c.n % Block = 0
  /\ c.at = "got" => c.n > 0 /\ c.n = c.ask
  /\ c.at \in {"claim", "claimCas"} => c.ask % Block = 0
  /\ IF c.at = "stray" THEN c.stray \in Page /\ c.stray + Block <= Pages ELSE c.stray = NoPage
  /\ Hand(c) \subseteq Page

LEMMA HugePlaced ==
  ASSUME IInv, NEW t \in Thread, pc[t].at \in HugeAt, NEW c, HugeNext(t, c)
  PROVE  Settled(c) /\ Given(c) = {} /\ Given(pc[t]) = {}
         /\ {pc[t].at, c.at} \cap {"store", "retreat"} = {}
         /\ {e \in c.ext : e.id # 0} = {e \in pc[t].ext : e.id # 0}
<1>1. pc[t].call.op = "huge" /\ ~Direct(pc[t]) /\ pc[t].ext = {}
  BY HugeIs
<1>2. c.call.op = "huge" /\ ~Direct(c) /\ c.ext = {} /\ c.meta = NoPage
  BY <1>1 DEF HugeNext, Direct
<1>3. c.at \in HugeAt \cup {"failed", "got"}
  BY DEF HugeNext
<1>4. c.at \notin ExtAt /\ c.at \notin AskAt /\ c.at \notin AreaAt
      /\ c.at \notin {"idle", "commitInfo", "add", "retreat", "store", "count", "try", "reserve",
                      "fallback", "post", "have", "pre", "misaligned"}
  BY <1>3 DEF HugeAt, ExtAt, AskAt, AreaAt
<1>5. Has(c)
  BY <1>4 DEF Has, HugeNext
<1>6. Placed(c)
  <2>1. /\ c.at = "idle" => c = Idle
        /\ IF c.at \in ExtAt THEN \E e \in c.ext : c.ext = {e} ELSE c.ext = {}
        /\ c.at = "commitInfo" => \A e \in c.ext : e.id = 0
        /\ IF c.at = "stray" THEN c.stray \in Page /\ c.stray + Block <= Pages ELSE c.stray = NoPage
        /\ IF c.at \in {"add", "retreat", "store"} THEN c.meta \in Page ELSE c.meta = NoPage
        /\ c.at \in {"count", "try", "reserve", "fallback"} => c.call.op = "alloc"
    BY <1>2, <1>4 DEF HugeNext
  <2>2. /\ Direct(c) => c.at \in AskAt \cup {"got", "failed"}
        /\ c.at \in AskAt => c.ask > 0 /\ Wants(c)
        /\ c.at \in {"post", "have"} => c.lo % c.align = 0
        /\ c.at \in AreaAt => Area1(c)
    BY <1>2, <1>4
  <2>3. /\ c.at \in HugeAt => c.call.op = "huge" /\ c.lo % Block = 0 /\ c.n % Block = 0
        /\ c.at = "claim" \/ c.at = "claimCas" => c.ask % Block = 0
        /\ c.at = "got" => /\ c.n > 0
                           /\ IF c.call.op # "huge" THEN Wants(c) /\ c.lo % c.align = 0
                              ELSE ~Direct(c) /\ c.lo % Block = 0 /\ c.n % Block = 0
        /\ Hand(c) \subseteq Page
    BY <1>2 DEF HugeNext
  <2> QED BY <1>5, <2>1, <2>2, <2>3 DEF Placed
<1>7. RealIn(mem', c)
  BY <1>2, <1>4 DEF RealIn
<1>8. Settled(c)
  BY <1>2, <1>6, <1>7 DEF Settled
<1>9. Given(c) = {} /\ Given(pc[t]) = {}
  BY <1>1, <1>2 DEF Given
<1> QED BY <1>1, <1>2, <1>3, <1>8, <1>9 DEF HugeAt

LEMMA HugeDoneIs ==
  ASSUME NEW d \in Control
  PROVE  /\ HugeDone(d) \in Control /\ HugeDone(d).call = d.call /\ HugeDone(d).stage = d.stage
         /\ HugeDone(d).ext = d.ext /\ HugeDone(d).meta = d.meta /\ HugeDone(d).stray = d.stray
         /\ HugeDone(d).lo = d.lo /\ HugeDone(d).n = d.n /\ HugeDone(d).ask = d.n
         /\ HugeDone(d).at = (IF d.n = 0 THEN "failed" ELSE "got")
<1> DEFINE a == IF d.n = 0 THEN "failed" ELSE "got"
<1>1. a \in Label /\ d.n \in Nat /\ 0 \in Nat
  BY Fixed DEF Label, Control
<1> HIDE DEF a
<1>2. [d EXCEPT !.at = a, !.commit = TRUE, !.pinned = TRUE, !.ask = d.n, !.skip = 0] \in Control
  BY <1>1 DEF Control
<1>3. HugeDone(d) = [d EXCEPT !.at = a, !.commit = TRUE, !.pinned = TRUE, !.ask = d.n, !.skip = 0]
  BY DEF HugeDone, a
<1> QED BY <1>2, <1>3 DEF Control, a

\* A step that changes nothing of the memory but what is in hand.
LEMMA HugeStep ==
  ASSUME IInv, NEW t \in Thread, pc[t].at \in HugeAt, NEW c, HugeNext(t, c), Set(t, c),
         mem' \in [Page -> {"free", "none", "rw"}], hugeStart' \in Nat, hugeStart' % Block = 0,
         UNCHANGED <<tryOk, tableVars>>, Once(c), Remaps(Held(pc[t]), Held(c))
  PROVE  IInv'
<1>1. /\ Settled(c) /\ Given(c) = {} /\ Given(pc[t]) = {}
      /\ {pc[t].at, c.at} \cap {"store", "retreat"} = {}
      /\ {e \in c.ext : e.id # 0} = {e \in pc[t].ext : e.id # 0}
  BY HugePlaced
<1>2. TypeOK /\ ~ended
  BY HugeIs
<1>3. Moves(t, c)
  BY <1>2 DEF Moves, Set, HugeNext, TypeOK, tableVars
<1>4. CalmStep(t, c)
  BY <1>1, <1>3 DEF CalmStep, tableVars
<1> QED BY <1>4, CalmInv

\* Nothing aside: its range is what it holds.
LEMMA HugePlain ==
  ASSUME NEW c, c.ext = {}, c.meta = NoPage, c.stray = NoPage, Hand(c) \subseteq Page
  PROVE  Once(c) /\ Held(c) = Hand(c)
<1>1. InHand(c) = {} /\ Aside(c) \cap Page = {} /\ Held(c) = Page \cap (Hand(c) \cup InHand(c))
  BY NoSegmentHeld, NothingAside
<1> QED BY <1>1 DEF Once

\* Nothing of the memory changes.
LEMMA SameHand ==
  ASSUME IInv, NEW t \in Thread, NEW H, Held(pc[t]) = H, mem' = mem
  PROVE  Remaps(Held(pc[t]), H)
BY HeldOnce DEF Remaps

LEMMA LoadHugeStartInv ==
  ASSUME IInv, NEW t \in Thread, LoadHugeStart(t), UNCHANGED tableVars
  PROVE  IInv'
<1> DEFINE d == pc[t]
           c == [d EXCEPT !.at = "claimCas", !.lo = hugeStart]
<1>1. d.at = "claim" /\ d.at \in HugeAt
  BY DEF LoadHugeStart, HugeAt
<1>2. /\ TypeOK /\ d \in Control /\ d.ext = {} /\ d.meta = NoPage /\ d.stray = NoPage
      /\ d.n % Block = 0 /\ d.ask % Block = 0 /\ Hand(d) = {}
  BY <1>1, HugeIs
<1>3. hugeStart \in Nat /\ hugeStart % Block = 0 /\ mem \in [Page -> {"free", "none", "rw"}]
  BY <1>2 DEF TypeOK, IInv
<1>4. c \in Control
  <2>1. "claimCas" \in Label
    BY DEF Label
  <2> QED BY <1>2, <1>3, <2>1 DEF Control
<1>5. /\ c.at = "claimCas" /\ c.lo = hugeStart /\ c.n = d.n /\ c.ask = d.ask /\ c.call = d.call
      /\ c.stage = d.stage /\ c.ext = {} /\ c.meta = NoPage /\ c.stray = NoPage
  BY <1>2, <1>4 DEF Control
<1>6. Set(t, c) /\ UNCHANGED <<mem, tryOk, hugeStart>>
  BY DEF LoadHugeStart
<1> HIDE DEF c
<1>7. Hand(c) = {}
  BY <1>5 DEF Hand, HandAt
<1>8. HugeNext(t, c)
  BY <1>2, <1>3, <1>4, <1>5, <1>7 DEF HugeNext, HugeAt
<1>9. Once(c) /\ Held(c) = {} /\ Held(d) = {}
  BY <1>2, <1>5, <1>7, HugePlain
<1>10. Remaps(Held(d), Held(c))
  BY <1>6, <1>9 DEF Remaps
<1> QED BY <1>1, <1>3, <1>6, <1>8, <1>9, <1>10, HugeStep

LEMMA ClaimHugeInv ==
  ASSUME IInv, NEW t \in Thread, ClaimHuge(t), UNCHANGED tableVars
  PROVE  IInv'
<1> DEFINE d == pc[t]
           start == IF d.lo = 0 THEN HugeArea ELSE d.lo
<1>1. d.at = "claimCas" /\ d.at \in HugeAt
  BY DEF ClaimHuge, HugeAt
<1>2. /\ TypeOK /\ d \in Control /\ d.ext = {} /\ d.meta = NoPage /\ d.stray = NoPage
      /\ d.n % Block = 0 /\ d.ask % Block = 0 /\ Hand(d) = {} /\ d.ask \in Nat
      /\ d.lo \in Nat /\ d.lo % Block = 0
  BY <1>1, HugeIs
<1>3. hugeStart \in Nat /\ hugeStart % Block = 0 /\ mem \in [Page -> {"free", "none", "rw"}]
  BY <1>2 DEF TypeOK, IInv
<1>4. start \in Nat /\ start % Block = 0 /\ start + d.ask \in Nat /\ (start + d.ask) % Block = 0
  <2>1. start \in Nat /\ start % Block = 0
    BY <1>2, Fixed
  <2> HIDE DEF start
  <2>2. start \in Int /\ d.ask \in Int /\ Block \in Nat /\ Block > 0
    BY <1>2, <2>1, Fixed
  <2>3. (start + d.ask) % Block = 0
    BY <1>2, <2>1, <2>2, MultiplesAdd
  <2> QED BY <1>2, <2>1, <2>3
<1>5. UNCHANGED <<mem, tryOk>>
  BY DEF ClaimHuge
<1>6. Held(d) = {}
  BY <1>2, HugePlain
<1>7. ASSUME NEW c, Set(t, c), c \in Control, c.ext = {}, c.meta = NoPage, c.stray = NoPage,
             c.call = d.call, c.stage = d.stage, c.n % Block = 0, c.lo % Block = 0, c.ask = d.ask,
             (c.at = "huge" /\ c.n = 0) \/ c.at = "claimCas",
             hugeStart' \in Nat, hugeStart' % Block = 0
      PROVE  IInv'
  <2>1. Hand(c) = {}
    <3>1. CASE c.at = "claimCas"
      BY <3>1 DEF Hand, HandAt
    <3>2. CASE c.at = "huge" /\ c.n = 0
      <4>1. c.lo \in Nat
        BY <1>7 DEF Control
      <4>2. Span(c.lo, c.n) = {}
        BY <3>2, <4>1 DEF Span
      <4> QED BY <4>2 DEF Hand
    <3> QED BY <1>7, <3>1, <3>2
  <2>2. HugeNext(t, c)
    BY <1>2, <1>7, <2>1 DEF HugeNext, HugeAt
  <2>3. Once(c) /\ Held(c) = {}
    BY <1>7, <2>1, HugePlain
  <2>4. Remaps(Held(d), Held(c))
    BY <1>5, <1>6, <2>3 DEF Remaps
  <2> QED BY <1>1, <1>3, <1>5, <1>7, <2>2, <2>3, <2>4, HugeStep
<1>8. CASE hugeStart = d.lo
  <2> DEFINE c == [d EXCEPT !.at = "huge", !.lo = start, !.n = 0]
  <2>1. Set(t, c) /\ hugeStart' = start + d.ask
    BY <1>8 DEF ClaimHuge
  <2>2. "huge" \in Label /\ 0 \in 0..Pages
    BY Fixed DEF Label
  <2> HIDE DEF start
  <2>3. c \in Control
    BY <1>2, <1>4, <2>2 DEF Control
  <2>4. /\ c.ext = {} /\ c.meta = NoPage /\ c.stray = NoPage /\ c.call = d.call /\ c.stage = d.stage
        /\ c.n = 0 /\ c.lo = start /\ c.ask = d.ask /\ c.at = "huge"
    BY <1>2, <2>3 DEF Control
  <2> HIDE DEF c
  <2>5. c.n % Block = 0
    BY <2>4, Fixed
  <2> QED BY <1>4, <1>7, <2>1, <2>3, <2>4, <2>5
<1>9. CASE hugeStart # d.lo
  <2> DEFINE c == [d EXCEPT !.lo = hugeStart]
  <2>1. Set(t, c) /\ hugeStart' = hugeStart
    BY <1>9 DEF ClaimHuge
  <2>2. c \in Control
    BY <1>2, <1>3 DEF Control
  <2>3. /\ c.ext = {} /\ c.meta = NoPage /\ c.stray = NoPage /\ c.call = d.call /\ c.stage = d.stage
        /\ c.n = d.n /\ c.lo = hugeStart /\ c.ask = d.ask /\ c.at = "claimCas"
    BY <1>1, <1>2, <2>2 DEF Control
  <2> HIDE DEF c
  <2> QED BY <1>2, <1>3, <1>7, <2>1, <2>2, <2>3
<1> QED BY <1>8, <1>9

\* A step of a thread whose huge pages are H1 after it.
LEMMA HugeHandStep ==
  ASSUME IInv, NEW t \in Thread, pc[t].at \in HugeAt, NEW c, HugeNext(t, c), Set(t, c),
         c.stray = NoPage,
         mem' \in [Page -> {"free", "none", "rw"}],
         UNCHANGED <<tryOk, hugeStart, tableVars>>, Remaps(Held(pc[t]), Hand(c))
  PROVE  IInv'
<1>1. c.ext = {} /\ c.meta = NoPage /\ Hand(c) \subseteq Page
  BY DEF HugeNext
<1>2. Once(c) /\ Held(c) = Hand(c)
  BY <1>1, HugePlain
<1>3. hugeStart' \in Nat /\ hugeStart' % Block = 0
  BY DEF IInv, Accounted, TypeOK
<1> QED BY <1>2, <1>3, HugeStep

\* The end of the loop, with n pages from lo on.
LEMMA HugeDoneInv ==
  ASSUME IInv, NEW t \in Thread, pc[t].at \in HugeAt, NEW d, d \in Control,
         d.call = pc[t].call, d.stage = pc[t].stage, d.ext = {}, d.meta = NoPage, d.stray = NoPage,
         d.lo % Block = 0, d.n % Block = 0, Span(d.lo, d.n) \subseteq Page, Set(t, HugeDone(d)),
         mem' \in [Page -> {"free", "none", "rw"}],
         UNCHANGED <<tryOk, hugeStart, tableVars>>, Remaps(Held(pc[t]), Span(d.lo, d.n))
  PROVE  IInv'
<1> DEFINE c == HugeDone(d)
<1>1. /\ c \in Control /\ c.call = d.call /\ c.stage = d.stage
      /\ c.ext = d.ext /\ c.meta = d.meta /\ c.stray = d.stray
      /\ c.lo = d.lo /\ c.n = d.n /\ c.ask = d.n
      /\ c.at = (IF d.n = 0 THEN "failed" ELSE "got")
  BY HugeDoneIs
<1>2. d.n \in Nat /\ d.lo \in Nat
  BY Fixed DEF Control
<1>3. pc[t].call.op = "huge"
  BY HugeIs
<1> HIDE DEF c
<1>4. Hand(c) = Span(d.lo, d.n)
  <2>1. CASE d.n = 0
    <3>1. Span(d.lo, d.n) = {}
      BY <1>2, <2>1 DEF Span
    <3> QED BY <1>1, <2>1, <3>1 DEF Hand, HandAt
  <2>2. CASE d.n # 0
    BY <1>1, <1>3, <2>2 DEF Hand, HandAt
  <2> QED BY <2>1, <2>2
<1>5. HugeNext(t, c)
  BY <1>1, <1>2, <1>4 DEF HugeNext
<1>6. Set(t, c)
  BY DEF c
<1> QED BY <1>1, <1>4, <1>5, <1>6, HugeHandStep

LEMMA AllocHugeInv ==
  ASSUME IInv, NEW t \in Thread, AllocHuge(t), UNCHANGED tableVars
  PROVE  IInv'
<1> DEFINE d == pc[t]
           addr == d.lo + d.n
           more == [d EXCEPT !.n = d.n + Block]
<1>1. d.at = "huge" /\ d.at \in HugeAt /\ UNCHANGED <<tryOk, hugeStart>>
  BY DEF AllocHuge, HugeAt
<1>2. /\ TypeOK /\ d \in Control /\ d.call.op = "huge" /\ d.ext = {} /\ d.meta = NoPage /\ d.stray = NoPage
      /\ d.lo \in Nat /\ d.lo % Block = 0 /\ d.ask \in Nat
      /\ d.n \in 0..Pages /\ d.n \in Nat /\ d.n % Block = 0
      /\ Hand(d) = Span(d.lo, d.n) /\ Hand(d) \subseteq Page /\ \A q \in Hand(d) : mem[q] # "free"
  BY <1>1, HugeIs
<1>3. mem \in [Page -> {"free", "none", "rw"}]
  BY <1>2 DEF TypeOK
<1>4. Held(d) = Span(d.lo, d.n)
  BY <1>2, HugePlain
<1>5. Block \in Nat /\ Block > 1
  BY Fixed
<1>6. ASSUME addr \in Fits(Block), mem' = Map(addr, Block, TRUE),
             Set(t, HugeDone(more)) \/ (more.n < d.ask /\ Set(t, more))
      PROVE  IInv'
  <2>1. /\ mem' \in [Page -> {"free", "none", "rw"}] /\ Span(addr, Block) \subseteq Page
        /\ addr + Block <= Pages
        /\ \A q \in Span(addr, Block) : mem[q] = "free" /\ mem'[q] # "free"
        /\ \A q \in Page : q \notin Span(addr, Block) => mem'[q] = mem[q]
    <3> HIDE DEF d, addr, more
    <3>1. Gained(addr, Block)
      BY <1>2, <1>5, <1>6, MapGains
    <3> QED BY <3>1 DEF Gained
  <2>2. d.n + Block \in 0..Pages
    <3> HIDE DEF d
    <3> QED BY <1>2, <1>5, <2>1, Fixed
  <2>3. more \in Control
    BY <1>2, <2>2 DEF Control
  <2>4. /\ more.call = d.call /\ more.stage = d.stage /\ more.ext = {} /\ more.meta = NoPage
        /\ more.stray = NoPage /\ more.lo = d.lo /\ more.n = d.n + Block /\ more.at = "huge"
    BY <1>1, <1>2, <2>3 DEF Control
  <2> HIDE DEF more
  <2>5. more.n % Block = 0
    <3>1. Block % Block = 0 /\ d.n \in Int /\ Block \in Int
      BY <1>2, <1>5
    <3> QED BY <1>2, <1>5, <2>4, <3>1, MultiplesAdd
  <2>6. \A q \in Int : /\ q \in Span(d.lo, d.n + Block) <=> q \in Span(d.lo, d.n) \/ q \in Span(addr, Block)
                       /\ ~(q \in Span(d.lo, d.n) /\ q \in Span(addr, Block))
    <3> HIDE DEF d
    <3> QED BY <1>2, <1>5 DEF Span
  <2>7. \A q \in Page \cup Span(d.lo, d.n + Block) : q \in Int
    BY DEF Page, Span
  <2>8. Span(d.lo, d.n + Block) \subseteq Page
    BY <1>2, <2>1, <2>6, <2>7
  <2>9. Remaps(Held(d), Span(d.lo, d.n + Block))
    BY <1>2, <1>4, <2>1, <2>6, <2>7 DEF Remaps
  <2>10. CASE Set(t, HugeDone(more))
    BY <1>1, <1>2, <2>1, <2>3, <2>4, <2>5, <2>8, <2>9, <2>10, HugeDoneInv
  <2>11. CASE Set(t, more)
    <3>1. Hand(more) = Span(d.lo, d.n + Block)
      BY <1>2, <2>4 DEF Hand, HandAt
    <3>2. HugeNext(t, more)
      BY <1>2, <2>3, <2>4, <2>5, <2>8, <3>1 DEF HugeNext, HugeAt
    <3> QED BY <1>1, <2>1, <2>4, <2>9, <2>11, <3>1, <3>2, HugeHandStep
  <2> QED BY <1>6, <2>10, <2>11
<1>7. ASSUME NEW p \in Places(Block), mem' = Map(p, Block, TRUE),
             Set(t, [d EXCEPT !.at = "stray", !.stray = p])
      PROVE  IInv'
  <2> DEFINE c == [d EXCEPT !.at = "stray", !.stray = p]
  <2>1. p \in Fits(Block)
    BY PlacesFit
  <2>2. /\ mem' \in [Page -> {"free", "none", "rw"}] /\ Span(p, Block) \subseteq Page
        /\ p \in Page /\ p + Block <= Pages
        /\ \A q \in Span(p, Block) : mem[q] = "free" /\ mem'[q] # "free"
        /\ \A q \in Page : q \notin Span(p, Block) => mem'[q] = mem[q]
    <3> HIDE DEF d, c
    <3>1. Gained(p, Block)
      BY <1>2, <1>5, <1>7, <2>1, MapGains
    <3> QED BY <3>1 DEF Gained
  <2>3. c \in Control
    <3>1. "stray" \in Label
      BY DEF Label
    <3> QED BY <1>2, <2>2, <3>1 DEF Control
  <2>4. /\ c.call = d.call /\ c.stage = d.stage /\ c.ext = {} /\ c.meta = NoPage
        /\ c.stray = p /\ c.lo = d.lo /\ c.n = d.n /\ c.at = "stray"
    BY <1>2, <2>3 DEF Control
  <2>5. Set(t, c)
    BY <1>7
  <2> HIDE DEF c
  <2>6. Hand(c) = Span(d.lo, d.n)
    BY <1>2, <2>4 DEF Hand, HandAt
  <2>7. HugeNext(t, c)
    BY <1>2, <2>2, <2>3, <2>4, <2>6 DEF HugeNext, HugeAt
  <2>8. NoPage \notin Page
    BY Fixed DEF NoPage, Page
  <2>9. Aside(c) = Span(p, Block) \cup {NoPage}
    BY <2>2, <2>4, <2>8 DEF Aside
  <2>10. Held(c) = Span(d.lo, d.n) \cup Span(p, Block) /\ InHand(c) = {}
    BY <1>2, <2>2, <2>4, <2>6, <2>8, <2>9, NoSegmentHeld
  <2>11. Once(c)
    BY <1>2, <2>2, <2>6, <2>8, <2>9, <2>10 DEF Once
  <2>12. Remaps(Held(d), Held(c))
    BY <1>2, <1>4, <2>2, <2>10 DEF Remaps
  <2>13. hugeStart' \in Nat /\ hugeStart' % Block = 0
    BY <1>1, <1>2 DEF IInv, TypeOK
  <2> QED BY <1>1, <2>2, <2>5, <2>7, <2>11, <2>12, <2>13, HugeStep
<1>8. CASE Set(t, HugeDone(d)) /\ UNCHANGED mem
  <2>1. Remaps(Held(d), Span(d.lo, d.n))
    BY <1>4, <1>8, SameHand
  <2> QED BY <1>1, <1>2, <1>3, <1>8, <2>1, HugeDoneInv
<1>9. /\ \/ /\ addr \in Fits(Block)
            /\ mem' = Map(addr, Block, TRUE)
            /\ \/ Set(t, HugeDone(more))
               \/ more.n < d.ask /\ Set(t, more)
         \/ \E p \in Places(Block) \ {addr} :
              /\ mem' = Map(p, Block, TRUE)
              /\ Set(t, [d EXCEPT !.at = "stray", !.stray = p])
         \/ Set(t, HugeDone(d)) /\ UNCHANGED mem
  BY DEF AllocHuge
<1> QED BY <1>6, <1>7, <1>8, <1>9

LEMMA FreeStrayInv ==
  ASSUME IInv, NEW t \in Thread, FreeStray(t), UNCHANGED tableVars
  PROVE  IInv'
<1> DEFINE d == pc[t]
           e == [d EXCEPT !.stray = NoPage]
<1>1. d.at = "stray" /\ d.at \in HugeAt /\ UNCHANGED <<tryOk, hugeStart>>
  BY DEF FreeStray, HugeAt
<1>2. /\ TypeOK /\ d \in Control /\ d.call.op = "huge" /\ d.ext = {} /\ d.meta = NoPage
      /\ d.lo \in Nat /\ d.lo % Block = 0 /\ d.n \in Nat /\ d.n % Block = 0
      /\ Hand(d) = Span(d.lo, d.n) /\ Hand(d) \subseteq Page /\ \A q \in Hand(d) : mem[q] # "free"
  BY <1>1, HugeIs
<1>3. d.stray \in Page
  BY <1>1, ThreadIs DEF Placed
<1>4. /\ mem' \in [Page -> {"free", "none", "rw"}]
      /\ \A q \in Page : mem'[q] = IF q \in Span(d.stray, Block) THEN "free" ELSE mem[q]
  BY <1>2, UnmapIs DEF FreeStray
<1>5. e \in Control
  BY <1>2 DEF Control
<1>6. /\ e.call = d.call /\ e.stage = d.stage /\ e.ext = {} /\ e.meta = NoPage
      /\ e.stray = NoPage /\ e.lo = d.lo /\ e.n = d.n
  BY <1>2, <1>5 DEF Control
<1>7. Set(t, HugeDone(e))
  BY DEF FreeStray
<1> HIDE DEF e
<1>8. NoPage \notin Page
  BY Fixed DEF NoPage, Page
<1>9. Aside(d) = Span(d.stray, Block) \cup {NoPage}
  BY <1>2, <1>3, <1>8 DEF Aside
<1>10. Held(d) = Page \cap (Span(d.lo, d.n) \cup Span(d.stray, Block))
  BY <1>2, <1>8, <1>9, NoSegmentHeld
<1>11. \A q \in Page : ~(q \in Span(d.lo, d.n) /\ q \in Span(d.stray, Block))
  <2> SUFFICES ASSUME NEW q \in Page, q \in Span(d.lo, d.n), q \in Span(d.stray, Block) PROVE FALSE
    OBVIOUS
  <2>1. q \in Hand(d) /\ q \in Aside(d)
    BY <1>2, <1>9
  <2>2. Load(d, q) <= 1
    <3>1. Load(d, q) = One(q \in Held(d))
      BY HeldOnce
    <3>2. One(q \in Held(d)) <= 1
      BY OneIs
    <3> QED BY <3>1, <3>2
  <2>3. One(q \in Hand(d)) = 1 /\ One(q \in Aside(d)) = 1 /\ One(q \in InHand(d)) \in Nat
    BY <2>1 DEF One
  <2>4. Load(d, q) = One(q \in Hand(d)) + One(q \in InHand(d)) + One(q \in Aside(d))
    BY DEF Load
  <2> QED BY <2>2, <2>3, <2>4
<1>12. Remaps(Held(d), Span(e.lo, e.n))
  BY <1>2, <1>4, <1>6, <1>10, <1>11 DEF Remaps
<1> QED BY <1>1, <1>2, <1>4, <1>5, <1>6, <1>7, <1>12, HugeDoneInv

LEMMA FreeHugeInv ==
  ASSUME IInv, NEW t \in Thread, FreeHuge(t), UNCHANGED tableVars
  PROVE  IInv'
<1> DEFINE d == pc[t]
           c == [d EXCEPT !.lo = d.lo + Block, !.n = d.n - Block]
<1>1. d.at = "freeHuge" /\ d.at \in HugeAt /\ d.n >= Block /\ UNCHANGED <<tryOk, hugeStart>>
  BY DEF FreeHuge, HugeAt
<1>2. /\ TypeOK /\ d \in Control /\ d.call.op = "huge" /\ d.ext = {} /\ d.meta = NoPage
      /\ d.stray = NoPage /\ d.n \in 0..Pages
      /\ d.lo \in Nat /\ d.lo % Block = 0 /\ d.n \in Nat /\ d.n % Block = 0
      /\ Hand(d) = Span(d.lo, d.n) /\ Hand(d) \subseteq Page /\ \A q \in Hand(d) : mem[q] # "free"
  BY <1>1, HugeIs
<1>3. /\ mem' \in [Page -> {"free", "none", "rw"}]
      /\ \A q \in Page : mem'[q] = IF q \in Span(d.lo, Block) THEN "free" ELSE mem[q]
  BY <1>2, UnmapIs DEF FreeHuge
<1>4. d.lo + Block \in Nat /\ d.n - Block \in 0..Pages
  <2> HIDE DEF d
  <2> QED BY <1>1, <1>2, Fixed
<1>5. c \in Control
  BY <1>2, <1>4 DEF Control
<1>6. /\ c.call = d.call /\ c.stage = d.stage /\ c.ext = {} /\ c.meta = NoPage
      /\ c.stray = NoPage /\ c.lo = d.lo + Block /\ c.n = d.n - Block /\ c.at = "freeHuge"
  BY <1>1, <1>2, <1>5 DEF Control
<1>7. Set(t, c)
  BY DEF FreeHuge
<1> HIDE DEF c
<1>8. c.lo % Block = 0 /\ c.n % Block = 0
  <2>1. Block % Block = 0 /\ d.n \in Int /\ d.lo \in Int /\ Block \in Int /\ Block \in Nat /\ Block > 0
    BY <1>2, Fixed
  <2> QED BY <1>2, <1>6, <2>1, MultiplesAdd
<1>9. Hand(c) = Span(d.lo + Block, d.n - Block)
  BY <1>2, <1>6 DEF Hand, HandAt
<1>10. Held(d) = Span(d.lo, d.n)
  BY <1>2, HugePlain
<1>11. \A q \in Int : /\ q \in Span(d.lo, d.n) <=> q \in Span(d.lo, Block) \/ q \in Span(d.lo + Block, d.n - Block)
                      /\ ~(q \in Span(d.lo, Block) /\ q \in Span(d.lo + Block, d.n - Block))
  <2>1. d.lo \in Int /\ d.n \in Int /\ Block \in Int /\ 0 <= Block /\ Block <= d.n
    BY <1>1, <1>2, Fixed
  <2>2. Splits(d.lo, Block, d.n)
    BY <2>1, SplitSpan
  <2> QED BY <2>2 DEF Splits
<1>12. \A q \in Page \cup Hand(c) : q \in Int
  BY <1>9 DEF Page, Span
<1>13. Hand(c) \subseteq Page
  BY <1>2, <1>9, <1>11, <1>12
<1>14. Remaps(Held(d), Hand(c))
  BY <1>2, <1>3, <1>9, <1>10, <1>11, <1>12 DEF Remaps
<1>15. HugeNext(t, c)
  BY <1>1, <1>2, <1>5, <1>6, <1>8, <1>13 DEF HugeNext
<1> QED BY <1>1, <1>3, <1>6, <1>7, <1>14, <1>15, HugeHandStep

LEMMA OsStepInv ==
  ASSUME IInv, NEW t \in Thread, OsStep(t), UNCHANGED tableVars
  PROVE  IInv'
BY PrimAllocInv, FreeMisalignedInv, OverAllocateInv, FreePreInv, FreePostInv, SkipExtraInv,
   LoadHugeStartInv, ClaimHugeInv, AllocHugeInv, FreeStrayInv, FreeHugeInv DEF OsStep

-----------------------------------------------------------------------------
(* From a call to the OS, and back with what it gave.                      *)

LEMMA MultipleOfMultiple ==
  ASSUME NEW n \in Int, NEW a \in Nat, a > 0, NEW b \in Nat, b > 0, n % a = 0, a % b = 0
  PROVE  n % b = 0
<1>1. PICK k \in Int : n = a * k
  BY Multiple
<1>2. a \in Int
  OBVIOUS
<1>3. PICK l \in Int : a = b * l
  BY <1>2, Multiple
<1>4. a * k = b * (l * k) /\ l * k \in Int
  BY <1>3
<1> QED BY <1>1, <1>4, Multiple

LEMMA IdleIs ==
  /\ Idle \in Control /\ NoCall.op = "none" /\ Idle.at = "idle" /\ Idle.call = NoCall
  /\ Idle.ext = {} /\ Idle.stray = NoPage /\ Idle.meta = NoPage /\ Idle.stage = "table"
  /\ Idle.n = 0 /\ Idle.lo = 0 /\ Idle.skip = 0 /\ Idle.ask = 0
<1>1. 0 \in 0..(MaxArenas + Cardinality(Thread)) /\ 0 \in 0..Pages /\ 1 \in Nat \ {0} /\ 0 \in Nat
      /\ "idle" \in Label /\ {} \in SUBSET ExtentOf /\ "table" \in {"table", "fresh", "os"}
  BY Fixed DEF Label
<1> QED BY <1>1 DEF Idle, Control, NoCall

LEMMA IdleHolds ==
  /\ Hand(Idle) = {} /\ Held(Idle) = {} /\ Once(Idle) /\ Placed(Idle) /\ Given(Idle) = {}
  /\ ~Direct(Idle) /\ \A m : RealIn(m, Idle)
<1>1. Hand(Idle) = {} /\ Given(Idle) = {} /\ ~Direct(Idle)
  BY IdleIs DEF Hand, HandAt, Given, AreaAt, Direct
<1>2. Held(Idle) = {} /\ Once(Idle)
  BY <1>1, IdleIs, HugePlain
<1>3. Has(Idle) /\ \A m : RealIn(m, Idle)
  BY IdleIs DEF Has, RealIn, AskAt
<1>4. Placed(Idle)
  BY <1>1, <1>3, IdleIs DEF Placed, ExtAt, AskAt, HugeAt, AreaAt
<1> QED BY <1>1, <1>2, <1>3, <1>4

\* A thread that is idle has nothing.
LEMMA IdleThread ==
  ASSUME IInv, NEW t \in Thread, pc[t].at = "idle"
  PROVE  pc[t] = Idle /\ Held(pc[t]) = {}
<1>1. pc[t] = Idle
  BY ThreadIs DEF Placed
<1> QED BY <1>1, IdleHolds

\* A step that leaves the table, the map, the segments and the program's areas alone.
Still == UNCHANGED <<arenas, count, live, map, external, lost, ended>>

LEMMA StillInv ==
  ASSUME IInv, ~ended, NEW t \in Thread, NEW c, c \in Control, Set(t, c),
         mem' \in [Page -> {"free", "none", "rw"}], calls' \in 0..MaxCalls,
         UNCHANGED <<tryOk, hugeStart>>, Still,
         Settled(c), Once(c), Remaps(Held(pc[t]), Held(c)), Given(c) \subseteq Given(pc[t]),
         {pc[t].at, c.at} \cap {"store", "retreat"} = {},
         {e \in c.ext : e.id # 0} = {e \in pc[t].ext : e.id # 0}
  PROVE  IInv'
<1>1. TypeOK /\ hugeStart % Block = 0
  BY ThreadIs DEF IInv
<1>2. Moves(t, c)
  BY <1>1 DEF Moves, Set, TypeOK
<1>3. CalmStep(t, c)
  BY <1>2 DEF CalmStep, Still
<1> QED BY <1>3, CalmInv

\* A step that ends what the thread did.
LEMMA ToIdle ==
  ASSUME IInv, NEW t \in Thread, pc[t].at \notin {"idle", "store", "retreat"}, Set(t, Idle),
         mem' \in [Page -> {"free", "none", "rw"}], UNCHANGED <<tryOk, hugeStart, tableVars>>,
         {e \in pc[t].ext : e.id # 0} = {}, Remaps(Held(pc[t]), {})
  PROVE  IInv'
<1>1. ~ended /\ calls' \in 0..MaxCalls
  BY ThreadIs DEF TypeOK, tableVars
<1>2. Settled(Idle)
  BY IdleIs, IdleHolds DEF Settled
<1>3. Still
  BY DEF Still, tableVars
<1> QED BY <1>1, <1>2, <1>3, IdleIs, IdleHolds, StillInv

\* A step that changes no memory, to a place where the thread holds nothing.
NowhereAt == {"idle", "map", "claim", "count", "try", "reserve", "fallback"}
LEMMA NowhereInv ==
  ASSUME IInv, ~ended, NEW t \in Thread, NEW c, c \in Control, Set(t, c),
         calls' \in 0..MaxCalls, UNCHANGED <<mem, tryOk, hugeStart>>, Still,
         Held(pc[t]) = {}, c.at \in NowhereAt, Plain1(c), Placed(c),
         pc[t].at \notin {"store", "retreat"}, {e \in pc[t].ext : e.id # 0} = {}
  PROVE  IInv'
<1>1. Hand(c) = {} /\ Given(c) = {} /\ RealIn(mem', c)
  BY DEF Hand, HandAt, NowhereAt, Given, AreaAt, RealIn, AskAt
<1>2. Held(c) = {} /\ Once(c)
  BY <1>1, HugePlain DEF Plain1
<1>3. Settled(c)
  BY <1>1 DEF Settled, Plain1
<1>4. Remaps(Held(pc[t]), Held(c))
  BY <1>2 DEF Remaps
<1>5. mem' \in [Page -> {"free", "none", "rw"}]
  BY ThreadIs DEF TypeOK
<1>6. {pc[t].at, c.at} \cap {"store", "retreat"} = {}
  BY DEF NowhereAt
<1>7. {e \in c.ext : e.id # 0} = {e \in pc[t].ext : e.id # 0}
  BY DEF Plain1
<1> QED BY <1>1, <1>2, <1>3, <1>4, <1>5, <1>6, <1>7, StillInv

LEMMA AskOsIs ==
  ASSUME NEW c \in Control, NEW size \in Nat, NEW align \in Nat, align > 0, NEW offset \in Nat,
         NEW commit \in BOOLEAN, NEW large \in BOOLEAN, NEW d,
         d = AskOs(c, size, align, offset, commit, large)
  PROVE  /\ d \in Control /\ d.at = "map" /\ d.call = c.call /\ d.stage = c.stage
         /\ d.ext = c.ext /\ d.stray = c.stray /\ d.meta = c.meta
         /\ d.align = align /\ d.skip = AlignUp(offset, align) - offset
         /\ d.ask = GoodSize(size + (AlignUp(offset, align) - offset))
<1> DEFINE extra == AlignUp(offset, align) - offset
           ask == GoodSize(size + extra)
           l == large /\ commit
<1>1. extra \in Nat
  <2>1. offset \in Int
    OBVIOUS
  <2>2. AlignUp(offset, align) \in Int /\ offset <= AlignUp(offset, align)
    BY <2>1, AlignUpIs
  <2> QED BY <2>2
<1> HIDE DEF extra
<1>2. ask \in Nat
  <2>1. size + extra \in Nat
    BY <1>1
  <2> QED BY <2>1, GoodSizeIs
<1>3. l \in BOOLEAN /\ "map" \in Label /\ align \in Nat \ {0}
  BY DEF Label
<1>4. d = [c EXCEPT !.at = "map", !.ask = ask, !.align = align, !.skip = extra, !.commit = commit,
                    !.large = l]
  BY DEF AskOs, extra
<1> HIDE DEF ask, l
<1>5. d \in Control
  <2> DEFINE c1 == [c EXCEPT !.at = "map", !.ask = ask]
             c2 == [c1 EXCEPT !.align = align, !.skip = extra]
             c3 == [c2 EXCEPT !.commit = commit, !.large = l]
  <2>1. c1 \in Control
    BY <1>2, <1>3 DEF Control
  <2>2. d = c3
    BY <1>4
  <2> HIDE DEF c1
  <2>3. c2 \in Control
    BY <1>1, <1>3, <2>1 DEF Control
  <2> HIDE DEF c2
  <2>4. c3 \in Control
    BY <1>3, <2>3 DEF Control
  <2> QED BY <2>2, <2>4
<1>6. /\ d.at = "map" /\ d.call = c.call /\ d.stage = c.stage
      /\ d.ext = c.ext /\ d.stray = c.stray /\ d.meta = c.meta
      /\ d.align = align /\ d.skip = extra /\ d.ask = ask
  BY <1>4 DEF Control
<1> QED BY <1>5, <1>6 DEF ask, extra

\* The start of a request that fits Wants.
LEMMA AskPlaced ==
  ASSUME NEW d \in Control, d.at = "map", Plain1(d), d.ask > 0, Wants(d)
  PROVE  Placed(d)
<1>1. Hand(d) = {} /\ Has(d)
  BY DEF Hand, HandAt, Has
<1> QED BY <1>1 DEF Placed, Plain1, ExtAt, AskAt, HugeAt, AreaAt

\* Of an area there is no offset.
LEMMA AreaAsk ==
  ASSUME NEW n \in Nat, n % Block = 0
  PROVE  AlignUp(0, Block) - 0 = 0 /\ GoodSize(n + (AlignUp(0, Block) - 0)) = n
<1>1. Block \in Nat /\ Block > 0 /\ 0 \in Int /\ 0 % Block = 0
  BY Fixed
<1>2. AlignUp(0, Block) = 0
  BY <1>1, AlignedUp
<1>3. n + 0 = n /\ GoodSize(n) = n
  BY GoodSizeIs
<1> QED BY <1>2, <1>3

\* A call.
LEMMA CallStarts ==
  ASSUME IInv, NEW t \in Thread, NEW c \in Calls, NEW op, Calling(t, c, op)
  PROVE  /\ ~ended /\ pc[t] = Idle /\ pc[t].at = "idle" /\ Held(pc[t]) = {} /\ pc[t].ext = {}
         /\ calls' \in 0..MaxCalls /\ c.op = op /\ TypeOK
         /\ UNCHANGED <<tryOk, hugeStart, arenas, count, live, map, lost, ended>>
<1>1. TypeOK
  BY ThreadIs
<1>2. pc[t].at = "idle" /\ ~ended /\ calls < MaxCalls /\ calls' = calls + 1 /\ calls \in 0..MaxCalls
      /\ c.op = op /\ UNCHANGED <<tryOk, hugeStart, arenas, count, live, map, lost, ended>>
  BY <1>1 DEF Calling, TypeOK
<1>3. calls' \in 0..MaxCalls
  BY <1>2, Fixed
<1>4. pc[t] = Idle /\ Held(pc[t]) = {}
  BY <1>2, IdleThread
<1> QED BY <1>1, <1>2, <1>3, <1>4, IdleIs

LEMMA AllocInv ==
  ASSUME IInv, NEW t \in Thread, NEW k \in Calls, Alloc(t, k)
  PROVE  IInv'
<1> DEFINE a == IF 2 * k.size >= Block /\ k.align <= Block /\ k.offset = 0
                THEN "count" ELSE "fallback"
           c == [Idle EXCEPT !.call = k, !.at = a]
<1>1. /\ ~ended /\ pc[t] = Idle /\ Held(pc[t]) = {} /\ pc[t].ext = {} /\ pc[t].at = "idle"
      /\ calls' \in 0..MaxCalls /\ k.op = "alloc"
      /\ UNCHANGED <<tryOk, hugeStart, arenas, count, live, map, lost, ended>>
  BY CallStarts DEF Alloc
<1>2. Set(t, c) /\ UNCHANGED <<mem, external>>
  BY DEF Alloc
<1>3. a \in {"count", "fallback"} /\ a \in Label
  BY DEF Label
<1> HIDE DEF a
<1>4. c \in Control
  BY <1>3, IdleIs DEF Control
<1>5. c.at = a /\ c.call = k /\ c.ext = {} /\ c.stray = NoPage /\ c.meta = NoPage /\ c.stage = "table"
  BY IdleIs DEF Control
<1> HIDE DEF c
<1>6. Plain1(c) /\ c.at \in NowhereAt
  BY <1>3, <1>5 DEF Plain1, NowhereAt
<1>7. Placed(c)
  <2>1. Hand(c) = {} /\ Has(c) /\ ~Direct(c)
    BY <1>3, <1>5 DEF Hand, HandAt, Has, Direct
  <2> QED BY <1>1, <1>3, <1>5, <2>1 DEF Placed, ExtAt, AskAt, HugeAt, AreaAt
<1>8. Still
  BY <1>1, <1>2 DEF Still
<1> QED BY <1>1, <1>2, <1>4, <1>6, <1>7, <1>8, NowhereInv

LEMMA ReserveOsMemoryInv ==
  ASSUME IInv, NEW t \in Thread, NEW k \in Calls, ReserveOsMemory(t, k)
  PROVE  IInv'
<1> DEFINE i == [Idle EXCEPT !.call = k]
           n == AlignUp(k.size, Block)
           c == AskOs(i, n, Block, 0, k.commit, k.large)
<1>1. /\ ~ended /\ pc[t] = Idle /\ Held(pc[t]) = {} /\ pc[t].ext = {} /\ pc[t].at = "idle"
      /\ calls' \in 0..MaxCalls /\ k.op = "reserve"
      /\ UNCHANGED <<tryOk, hugeStart, arenas, count, live, map, lost, ended>>
  BY CallStarts DEF ReserveOsMemory
<1>2. Set(t, c) /\ UNCHANGED <<mem, external>>
  BY DEF ReserveOsMemory
<1>3. k.size \in Nat /\ k.size > 0 /\ k \in Call /\ k.size \in Int
  BY CallIs
<1>4. k.commit \in BOOLEAN /\ k.large \in BOOLEAN
  BY <1>3 DEF Call
<1>5. n \in Nat /\ n > 0 /\ n % Block = 0
  <2>0. Block \in Nat /\ Block > 0
    BY Fixed
  <2>1. n \in Int /\ n % Block = 0 /\ k.size <= n
    BY <1>3, <2>0, AlignUpIs
  <2> QED BY <1>3, <2>1
<1> HIDE DEF n
<1>6. i \in Control
  BY IdleIs DEF Control
<1>7. i.call = k /\ i.ext = {} /\ i.stray = NoPage /\ i.meta = NoPage /\ i.stage = "table"
  BY IdleIs DEF Control
<1> HIDE DEF i
<1>8. Block \in Nat /\ Block > 0 /\ 0 \in Nat
  BY Fixed
<1> DEFINE up == AlignUp(0, Block) - 0
<1>9. /\ c \in Control /\ c.at = "map" /\ c.call = i.call /\ c.stage = i.stage
      /\ c.ext = i.ext /\ c.stray = i.stray /\ c.meta = i.meta
      /\ c.align = Block /\ c.skip = up /\ c.ask = GoodSize(n + up)
  BY <1>4, <1>5, <1>6, <1>8, AskOsIs
<1>10. up = 0 /\ GoodSize(n + up) = n
  BY <1>5, AreaAsk
<1> HIDE DEF c, up
<1>11. Plain1(c) /\ Wants(c) /\ c.ask > 0
  BY <1>1, <1>5, <1>7, <1>9, <1>10 DEF Plain1, Wants, Direct
<1>12. Placed(c)
  BY <1>9, <1>11, AskPlaced
<1>13. Still /\ c.at \in NowhereAt
  BY <1>1, <1>2, <1>9 DEF Still, NowhereAt
<1> QED BY <1>1, <1>2, <1>9, <1>11, <1>12, <1>13, NowhereInv

LEMMA ReserveHugePagesInv ==
  ASSUME IInv, NEW t \in Thread, NEW k \in Calls, ReserveHugePages(t, k)
  PROVE  IInv'
<1> DEFINE c == [Idle EXCEPT !.call = k, !.at = "claim", !.ask = k.size]
<1>1. /\ ~ended /\ pc[t] = Idle /\ Held(pc[t]) = {} /\ pc[t].ext = {} /\ pc[t].at = "idle"
      /\ calls' \in 0..MaxCalls /\ k.op = "huge"
      /\ UNCHANGED <<tryOk, hugeStart, arenas, count, live, map, lost, ended>>
  BY CallStarts DEF ReserveHugePages
<1>2. Set(t, c) /\ UNCHANGED <<mem, external>>
  BY DEF ReserveHugePages
<1>3. k.size \in Nat /\ k.size % Block = 0 /\ "claim" \in Label
  BY <1>1, CallIs, ArenaTableAssumption DEF Label
<1>4. c \in Control
  BY <1>3, IdleIs DEF Control
<1>5. /\ c.at = "claim" /\ c.call = k /\ c.ext = {} /\ c.stray = NoPage /\ c.meta = NoPage
      /\ c.stage = "table" /\ c.ask = k.size /\ c.lo = 0 /\ c.n = 0
  BY IdleIs DEF Control
<1> HIDE DEF c
<1>6. Plain1(c) /\ c.at \in NowhereAt
  BY <1>5 DEF Plain1, NowhereAt
<1>7. Placed(c)
  <2>1. Hand(c) = {} /\ Has(c) /\ ~Direct(c)
    BY <1>5 DEF Hand, HandAt, Has, Direct
  <2>2. 0 % Block = 0
    BY Fixed
  <2> QED BY <1>1, <1>3, <1>5, <2>1, <2>2 DEF Placed, ExtAt, AskAt, HugeAt, AreaAt
<1>8. Still
  BY <1>1, <1>2 DEF Still
<1> QED BY <1>1, <1>2, <1>4, <1>6, <1>7, <1>8, NowhereInv

\* A thread that looks for an arena.
LEMMA LooksIs ==
  ASSUME IInv, NEW t \in Thread, pc[t].at \in {"count", "try", "reserve", "fallback"}
  PROVE  /\ TypeOK /\ ~ended /\ pc[t] \in Control /\ Plain1(pc[t]) /\ ~Direct(pc[t]) /\ Held(pc[t]) = {}
         /\ pc[t].call.op = "alloc" /\ pc[t].call \in Calls
         /\ pc[t].call.id \in 0..MaxArenas /\ pc[t].stage \in {"table", "fresh"}
<1>1. TypeOK /\ pc[t] \in Control /\ Placed(pc[t]) /\ ~ended /\ calls \in 0..MaxCalls
  BY ThreadIs DEF TypeOK
<1>2. Plain1(pc[t]) /\ ~Direct(pc[t]) /\ pc[t].call.op = "alloc"
  BY <1>1 DEF Placed, Plain1, ExtAt, AskAt
<1>3. pc[t].call \in Calls
  BY <1>1, <1>2 DEF Control, NoCall
<1>4. Hand(pc[t]) = {}
  BY DEF Hand, HandAt
<1>5. Held(pc[t]) = {}
  BY <1>2, <1>4, HugePlain DEF Plain1
<1>6. pc[t].call.id \in 0..MaxArenas
  BY <1>3, CallIs DEF Call
<1>7. pc[t].stage \in {"table", "fresh"}
  BY <1>1, <1>2 DEF Control, Direct
<1> QED BY <1>1, <1>2, <1>3, <1>5, <1>6, <1>7

\* It looks on.
LEMMA LooksInv ==
  ASSUME IInv, NEW t \in Thread, pc[t].at \in {"count", "try", "reserve", "fallback"},
         NEW c, c \in Control, Set(t, c), UNCHANGED <<mem, tryOk, hugeStart, tableVars>>,
         c.at \in {"count", "try", "reserve", "fallback"}, c.call = pc[t].call, c.stage = pc[t].stage,
         c.ext = pc[t].ext, c.stray = pc[t].stray, c.meta = pc[t].meta
  PROVE  IInv'
<1>1. /\ TypeOK /\ ~ended /\ Plain1(pc[t]) /\ ~Direct(pc[t]) /\ Held(pc[t]) = {}
      /\ pc[t].call.op = "alloc"
  BY LooksIs
<1>2. Plain1(c) /\ ~Direct(c) /\ c.call.op = "alloc"
  BY <1>1 DEF Plain1, Direct
<1>3. Placed(c)
  <2>1. Hand(c) = {} /\ Has(c)
    BY DEF Hand, HandAt, Has
  <2> QED BY <1>2, <2>1 DEF Placed, Plain1, ExtAt, AskAt, HugeAt, AreaAt
<1>4. calls' \in 0..MaxCalls /\ Still /\ UNCHANGED <<mem, tryOk, hugeStart>>
  BY <1>1 DEF TypeOK, tableVars, Still
<1>5. c.at \in NowhereAt /\ pc[t].at \notin {"store", "retreat"}
  BY DEF NowhereAt
<1>6. {e \in pc[t].ext : e.id # 0} = {}
  BY <1>1 DEF Plain1
<1> QED BY <1>1, <1>2, <1>3, <1>4, <1>5, <1>6, NowhereInv

LEMMA CountArenasInv ==
  ASSUME IInv, NEW t \in Thread, CountArenas(t)
  PROVE  IInv'
<1> DEFINE d == pc[t]
           r == [d EXCEPT !.at = "reserve"]
           a == [d EXCEPT !.at = "try", !.max = count]
           b == [d EXCEPT !.at = "try", !.i = d.call.id - 1, !.max = d.call.id]
<1>1. d.at = "count" /\ UNCHANGED <<mem, tryOk, hugeStart, tableVars>>
  BY DEF CountArenas
<1>2. /\ d \in Control /\ d.call.id \in 0..MaxArenas /\ TypeOK
  BY <1>1, LooksIs
<1>3. count \in 0..(MaxArenas + Cardinality(Thread)) /\ "reserve" \in Label /\ "try" \in Label
  BY <1>2 DEF TypeOK, Label
<1>4. \A c \in Control : /\ Set(t, c) /\ c.at \in {"try", "reserve"} /\ c.call = d.call
                         /\ c.stage = d.stage /\ c.ext = d.ext /\ c.stray = d.stray /\ c.meta = d.meta
                         => IInv'
  BY <1>1, LooksInv
<1>5. CASE Set(t, r)
  <2>1. r \in Control
    BY <1>2, <1>3 DEF Control
  <2>2. r.at = "reserve" /\ r.call = d.call /\ r.stage = d.stage /\ r.ext = d.ext /\ r.stray = d.stray /\ r.meta = d.meta
    BY <1>2, <2>1 DEF Control
  <2> HIDE DEF r
  <2> QED BY <1>4, <1>5, <2>1, <2>2
<1>6. CASE Set(t, a)
  <2>1. a \in Control
    BY <1>2, <1>3 DEF Control
  <2>2. a.at = "try" /\ a.call = d.call /\ a.stage = d.stage /\ a.ext = d.ext /\ a.stray = d.stray /\ a.meta = d.meta
    BY <1>2, <2>1 DEF Control
  <2> HIDE DEF a
  <2> QED BY <1>4, <1>6, <2>1, <2>2
<1>7. CASE Set(t, b) /\ d.call.id # 0
  <2>0. d.call.id - 1 \in 0..(MaxArenas + Cardinality(Thread)) /\ d.call.id \in 0..(MaxArenas + Cardinality(Thread))
    BY <1>2, <1>7, Fixed
  <2>1. b \in Control
    BY <1>2, <1>3, <2>0 DEF Control
  <2>2. b.at = "try" /\ b.call = d.call /\ b.stage = d.stage /\ b.ext = d.ext /\ b.stray = d.stray /\ b.meta = d.meta
    BY <1>2, <2>1 DEF Control
  <2> HIDE DEF b
  <2> QED BY <1>4, <1>7, <2>1, <2>2
<1>8. Set(t, r) \/ Set(t, a) \/ (Set(t, b) /\ d.call.id # 0)
  BY DEF CountArenas
<1> QED BY <1>5, <1>6, <1>7, <1>8

\* A thread that asks the OS.
LEMMA AsksInv ==
  ASSUME IInv, NEW t \in Thread, pc[t].at \in {"reserve", "fallback"},
         NEW c, c \in Control, Set(t, c), UNCHANGED <<mem, tryOk, hugeStart, tableVars>>,
         c.at = "map", Plain1(c), c.ask > 0, Wants(c)
  PROVE  IInv'
<1>1. /\ TypeOK /\ ~ended /\ Plain1(pc[t]) /\ Held(pc[t]) = {}
  BY LooksIs
<1>2. Placed(c)
  BY AskPlaced
<1>3. calls' \in 0..MaxCalls /\ Still /\ UNCHANGED <<mem, tryOk, hugeStart>>
  BY <1>1 DEF TypeOK, tableVars, Still
<1>4. c.at \in NowhereAt /\ pc[t].at \notin {"store", "retreat"}
  BY DEF NowhereAt
<1>5. {e \in pc[t].ext : e.id # 0} = {}
  BY <1>1 DEF Plain1
<1> QED BY <1>1, <1>2, <1>3, <1>4, <1>5, NowhereInv

LEMMA ReserveArenaInv ==
  ASSUME IInv, NEW t \in Thread, ReserveArena(t)
  PROVE  IInv'
<1> DEFINE d == pc[t]
           f == [d EXCEPT !.at = "fallback"]
           r == Reserve[count]
           c == AskOs(d, r, Block, 0, FALSE, d.call.large)
           up == AlignUp(0, Block) - 0
<1>1. d.at = "reserve" /\ UNCHANGED <<mem, tryOk, hugeStart, tableVars>>
  BY DEF ReserveArena
<1>2. d \in Control /\ Plain1(d) /\ ~Direct(d) /\ d.call.op = "alloc" /\ d.call \in Calls
  BY <1>1, LooksIs
<1>3. CASE Set(t, f)
  <2>1. "fallback" \in Label
    BY DEF Label
  <2>2. f \in Control
    BY <1>2, <2>1 DEF Control
  <2>3. f.at = "fallback" /\ f.call = d.call /\ f.stage = d.stage /\ f.ext = d.ext /\ f.stray = d.stray /\ f.meta = d.meta
    BY <1>2, <2>2 DEF Control
  <2> HIDE DEF f
  <2> QED BY <1>1, <1>3, <2>2, <2>3, LooksInv
<1>4. CASE Set(t, c) /\ r > 0 /\ count <= MaxArenas - Spare
  <2>1. r \in Nat /\ r % Block = 0 /\ Block \in Nat /\ Block > 0 /\ 0 \in Nat
    <3>1. count \in 0..(MaxArenas + Cardinality(Thread))
      BY DEF IInv, Accounted, TypeOK
    <3>2. count \in 0..MaxArenas
      BY <1>4, <3>1, Fixed
    <3> QED BY <3>2, Fixed, ArenaTableAssumption
  <2> HIDE DEF r
  <2>2. d.call.large \in BOOLEAN
    BY <1>2, CallIs DEF Call
  <2>3. /\ c \in Control /\ c.at = "map" /\ c.call = d.call /\ c.stage = d.stage
        /\ c.ext = d.ext /\ c.stray = d.stray /\ c.meta = d.meta
        /\ c.align = Block /\ c.skip = up /\ c.ask = GoodSize(r + up)
    <3>1. \E b \in BOOLEAN, l \in BOOLEAN : c = AskOs(d, r, Block, 0, b, l)
      BY <2>2
    <3>2. PICK b \in BOOLEAN, l \in BOOLEAN : c = AskOs(d, r, Block, 0, b, l)
      BY <3>1
    <3> HIDE DEF c, d
    <3> QED BY <1>2, <2>1, <3>2, AskOsIs
  <2>4. up = 0 /\ GoodSize(r + up) = r
    BY <2>1, AreaAsk
  <2> HIDE DEF c, up
  <2>5. Plain1(c) /\ Wants(c) /\ c.ask > 0
    BY <1>2, <1>4, <2>1, <2>3, <2>4 DEF Plain1, Wants, Direct
  <2> QED BY <1>1, <1>4, <2>3, <2>5, AsksInv
<1>5. Set(t, f) \/ (Set(t, c) /\ r > 0 /\ count <= MaxArenas - Spare)
  BY DEF ReserveArena
<1> QED BY <1>3, <1>4, <1>5

LEMMA FallbackInv ==
  ASSUME IInv, NEW t \in Thread, Fallback(t)
  PROVE  IInv'
<1> DEFINE d == pc[t]
           k == d.call
           i == [Idle EXCEPT !.call = k, !.stage = "os"]
           c == AskOs(i, k.size, k.align, k.offset, k.commit, k.large)
<1>1. d.at = "fallback" /\ UNCHANGED <<mem, tryOk, hugeStart, tableVars>>
  BY DEF Fallback
<1>2. /\ d \in Control /\ Plain1(d) /\ ~Direct(d) /\ k.op = "alloc" /\ k \in Calls /\ Held(d) = {}
      /\ TypeOK
  BY <1>1, LooksIs
<1>3. CASE Set(t, Idle)
  <2>1. {e \in d.ext : e.id # 0} = {}
    BY <1>2 DEF Plain1
  <2>2. Remaps(Held(d), {})
    BY <1>1, <1>2 DEF Remaps
  <2>3. mem' \in [Page -> {"free", "none", "rw"}]
    BY <1>1, <1>2 DEF TypeOK
  <2> QED BY <1>1, <1>3, <2>1, <2>2, <2>3, ToIdle
<1>4. CASE Set(t, c)
  <2>1. k.size \in Nat /\ k.size > 0 /\ k.align \in Nat /\ k.align > 0 /\ k.offset \in Nat /\ k \in Call
    BY <1>2, CallIs
  <2>2. k.commit \in BOOLEAN /\ k.large \in BOOLEAN
    BY <2>1 DEF Call
  <2> HIDE DEF k
  <2>3. i \in Control
    BY <1>2, IdleIs DEF Control
  <2>4. i.call = k /\ i.stage = "os" /\ i.ext = {} /\ i.stray = NoPage /\ i.meta = NoPage
    BY IdleIs DEF Control
  <2> HIDE DEF i
  <2>5. /\ c \in Control /\ c.at = "map" /\ c.call = i.call /\ c.stage = i.stage
        /\ c.ext = i.ext /\ c.stray = i.stray /\ c.meta = i.meta
        /\ c.align = k.align /\ c.skip = AlignUp(k.offset, k.align) - k.offset
        /\ c.ask = GoodSize(k.size + (AlignUp(k.offset, k.align) - k.offset))
    <3>1. \E b \in BOOLEAN, l \in BOOLEAN : c = AskOs(i, k.size, k.align, k.offset, b, l)
      BY <2>2
    <3>2. PICK b \in BOOLEAN, l \in BOOLEAN : c = AskOs(i, k.size, k.align, k.offset, b, l)
      BY <3>1
    <3> HIDE DEF c
    <3> QED BY <2>1, <2>3, <3>2, AskOsIs
  <2>6. c.skip = Extra(k) /\ c.ask = GoodSize(k.size + Extra(k))
    BY <2>5 DEF Extra
  <2>7. GoodSize(k.size + Extra(k)) = GoodSize(k.size) + Extra(k)
    BY <1>2, ArenaTableAssumption
  <2>8. Extra(k) \in Nat /\ GoodSize(k.size) \in Nat /\ k.size <= GoodSize(k.size)
    BY <1>2, <2>1, CallIs, GoodSizeIs
  <2> HIDE DEF c
  <2>9. Plain1(c) /\ Wants(c) /\ c.ask > 0
    BY <1>2, <2>1, <2>4, <2>5, <2>6, <2>7, <2>8 DEF Plain1, Wants, Direct
  <2>10. Set(t, c)
    BY <1>4 DEF c, i, k
  <2> QED BY <1>1, <2>5, <2>9, <2>10, AsksInv
<1>5. Set(t, Idle) \/ Set(t, c)
  BY DEF Fallback
<1> QED BY <1>3, <1>4, <1>5

LEMMA OsFailedInv ==
  ASSUME IInv, NEW t \in Thread, OsFailed(t)
  PROVE  IInv'
<1> DEFINE d == pc[t]
           f == [d EXCEPT !.at = "fallback"]
<1>1. d.at = "failed" /\ UNCHANGED <<mem, tryOk, hugeStart, tableVars>>
  BY DEF OsFailed
<1>2. TypeOK /\ d \in Control /\ Placed(d) /\ ~ended
  BY <1>1, ThreadIs
<1>3. Plain1(d)
  BY <1>1, <1>2 DEF Placed, Plain1, ExtAt
<1>4. Held(d) = {}
  <2>1. Hand(d) = {}
    BY <1>1 DEF Hand, HandAt
  <2> QED BY <1>3, <2>1, HugePlain DEF Plain1
<1>5. mem' \in [Page -> {"free", "none", "rw"}] /\ {e \in d.ext : e.id # 0} = {}
  BY <1>1, <1>2, <1>3 DEF TypeOK, Plain1
<1>6. CASE Set(t, Idle)
  <2>1. Remaps(Held(d), {})
    BY <1>1, <1>4 DEF Remaps
  <2> QED BY <1>1, <1>5, <1>6, <2>1, ToIdle
<1>7. CASE d.call.op = "alloc" /\ ~Direct(d) /\ Set(t, f)
  <2>1. "fallback" \in Label
    BY DEF Label
  <2>2. f \in Control
    BY <1>2, <2>1 DEF Control
  <2>3. f.at = "fallback" /\ f.call = d.call /\ f.stage = d.stage /\ f.ext = d.ext /\ f.stray = d.stray /\ f.meta = d.meta
    BY <1>2, <2>2 DEF Control
  <2>4. Set(t, f)
    BY <1>7
  <2> HIDE DEF f
  <2>5. Plain1(f) /\ f.at \in NowhereAt
    BY <1>3, <2>3 DEF Plain1, NowhereAt
  <2>6. Placed(f)
    <3>1. Hand(f) = {} /\ Has(f) /\ ~Direct(f)
      BY <1>7, <2>3 DEF Hand, HandAt, Has, Direct
    <3> QED BY <1>7, <2>3, <2>5, <3>1 DEF Placed, Plain1, ExtAt, AskAt, HugeAt, AreaAt
  <2>7. calls' \in 0..MaxCalls /\ Still
    BY <1>1, <1>2 DEF TypeOK, tableVars, Still
  <2> QED BY <1>1, <1>2, <1>4, <1>5, <2>2, <2>4, <2>5, <2>6, <2>7, NowhereInv
<1>8. Set(t, Idle) \/ (d.call.op = "alloc" /\ ~Direct(d) /\ Set(t, f))
  BY DEF OsFailed
<1> QED BY <1>6, <1>7, <1>8

\* The area of an arena to be.
LEMMA AreaIs ==
  ASSUME IInv, NEW t \in Thread, pc[t].at \in AreaAt
  PROVE  /\ TypeOK /\ ~ended /\ pc[t] \in Control /\ pc[t].ext = {} /\ pc[t].stray = NoPage
         /\ ~Direct(pc[t]) /\ Area1(pc[t]) /\ calls \in 0..MaxCalls
         /\ mem \in [Page -> {"free", "none", "rw"}]
         /\ IF pc[t].at \in {"add", "retreat", "store"} THEN pc[t].meta \in Page ELSE pc[t].meta = NoPage
         /\ Hand(pc[t]) = (IF pc[t].call.op = "manage" THEN {} ELSE Span(pc[t].lo, pc[t].n))
         /\ Given(pc[t]) = (IF pc[t].call.op = "manage" THEN Span(pc[t].lo, pc[t].ask) ELSE {})
         /\ Hand(pc[t]) \subseteq Page /\ Given(pc[t]) \subseteq external
<1>1. /\ TypeOK /\ pc[t] \in Control /\ Placed(pc[t]) /\ ~ended /\ calls \in 0..MaxCalls
      /\ mem \in [Page -> {"free", "none", "rw"}] /\ Given(pc[t]) \subseteq external
  BY ThreadIs DEF TypeOK, AreaAt
<1>2. /\ Area1(pc[t]) /\ pc[t].ext = {} /\ pc[t].stray = NoPage /\ ~Direct(pc[t])
      /\ IF pc[t].at \in {"add", "retreat", "store"} THEN pc[t].meta \in Page ELSE pc[t].meta = NoPage
      /\ Hand(pc[t]) \subseteq Page
  BY <1>1 DEF Placed, AreaAt, ExtAt, AskAt
<1>3. Hand(pc[t]) = (IF pc[t].call.op = "manage" THEN {} ELSE Span(pc[t].lo, pc[t].n))
  BY DEF Hand, HandAt, AreaAt
<1>4. Given(pc[t]) = (IF pc[t].call.op = "manage" THEN Span(pc[t].lo, pc[t].ask) ELSE {})
  BY DEF Given
<1> QED BY <1>1, <1>2, <1>3, <1>4

\* The same area at another place.
LEMMA AreaPlaced ==
  ASSUME NEW d \in Control, d.at \in AreaAt, d.ext = {}, d.stray = NoPage, ~Direct(d), Area1(d),
         IF d.at \in {"add", "retreat", "store"} THEN d.meta \in Page ELSE d.meta = NoPage
  PROVE  /\ Placed(d) /\ \A m : (d.at \in {"add", "retreat", "store"} => m[d.meta] = "rw") => RealIn(m, d)
         /\ Hand(d) = (IF d.call.op = "manage" THEN {} ELSE Span(d.lo, d.n))
         /\ Given(d) = (IF d.call.op = "manage" THEN Span(d.lo, d.ask) ELSE {})
<1>1. Hand(d) = (IF d.call.op = "manage" THEN {} ELSE Span(d.lo, d.n))
  BY DEF Hand, HandAt, AreaAt
<1>2. Given(d) = (IF d.call.op = "manage" THEN Span(d.lo, d.ask) ELSE {})
  BY DEF Given
<1>3. Hand(d) \subseteq Page
  <2>1. d.lo \in Nat /\ d.ask \in Nat
    BY DEF Control
  <2>2. CASE d.call.op # "manage"
    <3>1. d.n = d.ask /\ d.lo + d.ask <= Pages
      BY <2>2 DEF Area1
    <3> QED BY <1>1, <2>1, <2>2, <3>1, Fixed DEF Span, Page
  <2> QED BY <1>1, <2>2
<1>4. Has(d) /\ \A m : (d.at \in {"add", "retreat", "store"} => m[d.meta] = "rw") => RealIn(m, d)
  BY DEF Has, RealIn, AreaAt, AskAt
<1>5. Placed(d)
  BY <1>3, <1>4 DEF Placed, AreaAt, ExtAt, AskAt, HugeAt
<1> QED BY <1>1, <1>2, <1>4, <1>5

\* The OS gave the area of an arena.
LEMMA GotAreaInv ==
  ASSUME IInv, NEW t \in Thread, pc[t].at = "got", ~Direct(pc[t]),
         Set(t, [pc[t] EXCEPT !.at = "meta"]), UNCHANGED <<mem, tryOk, hugeStart, tableVars>>
  PROVE  IInv'
<1> DEFINE d == pc[t]
           c == [d EXCEPT !.at = "meta"]
<1>1. TypeOK /\ d \in Control /\ Placed(d) /\ ~ended
  BY ThreadIs
<1>2. d.ext = {} /\ d.stray = NoPage /\ d.meta = NoPage
  BY <1>1 DEF Placed, ExtAt
<1>3. d.n > 0 /\ d.n = d.ask /\ Hand(d) \subseteq Page
  BY <1>1 DEF Placed, Has
<1>4. /\ d.lo \in Nat /\ d.n \in Nat /\ d.call.op \in {"alloc", "reserve", "huge"}
      /\ d.lo % Block = 0 /\ d.n % Block = 0
  <2>1. d.lo \in Nat /\ d.n \in Nat
    BY <1>1, Fixed DEF Control
  <2>2. CASE d.call.op = "huge"
    BY <1>1, <2>1, <2>2 DEF Placed
  <2>3. CASE d.call.op # "huge"
    <3>1. Wants(d) /\ d.lo % d.align = 0
      BY <1>1, <2>3 DEF Placed
    <3>2. d.call.op \in {"alloc", "reserve"} /\ d.align = Block /\ d.ask % Block = 0
      BY <3>1 DEF Wants
    <3> QED BY <1>3, <2>1, <3>1, <3>2
  <2> QED BY <2>2, <2>3
<1>5. Hand(d) = Span(d.lo, d.n) /\ Given(d) = {}
  BY <1>4 DEF Hand, HandAt, Given
<1>6. d.lo + d.n <= Pages
  <2>1. d.lo + d.n - 1 \in Span(d.lo, d.n)
    BY <1>3, <1>4 DEF Span
  <2>2. d.lo + d.n - 1 \in Page
    BY <1>3, <1>5, <2>1
  <2> QED BY <1>4, <2>2, Fixed DEF Page
<1>7. c \in Control
  <2>1. "meta" \in Label
    BY DEF Label
  <2> QED BY <1>1, <2>1 DEF Control
<1>8. /\ c.at = "meta" /\ c.call = d.call /\ c.stage = d.stage /\ c.ext = {} /\ c.stray = NoPage
      /\ c.meta = NoPage /\ c.lo = d.lo /\ c.n = d.n /\ c.ask = d.ask
  BY <1>1, <1>2, <1>7 DEF Control
<1>9. Set(t, c)
  OBVIOUS
<1> HIDE DEF c
<1>10. Area1(c) /\ ~Direct(c) /\ c.at \in AreaAt
  BY <1>3, <1>4, <1>6, <1>8 DEF Area1, AreaAt, Direct
<1>11. Placed(c) /\ RealIn(mem', c) /\ Hand(c) = Span(d.lo, d.n) /\ Given(c) = {}
  BY <1>4, <1>7, <1>8, <1>10, AreaPlaced
<1>12. Held(d) = Hand(d) /\ Held(c) = Hand(c) /\ Once(c)
  BY <1>2, <1>3, <1>5, <1>8, <1>11, HugePlain
<1>13. Held(d) = Held(c)
  BY <1>5, <1>11, <1>12
<1>14. Remaps(Held(d), Held(c))
  BY <1>13, SameHand
<1>15. Settled(c)
  BY <1>8, <1>11 DEF Settled
<1>16. /\ mem' \in [Page -> {"free", "none", "rw"}] /\ calls' \in 0..MaxCalls /\ Still
       /\ UNCHANGED <<tryOk, hugeStart>>
  BY <1>1 DEF TypeOK, tableVars, Still
<1>17. {d.at, c.at} \cap {"store", "retreat"} = {} /\ {e \in c.ext : e.id # 0} = {e \in d.ext : e.id # 0}
  BY <1>2, <1>8
<1> QED BY <1>1, <1>5, <1>7, <1>9, <1>11, <1>12, <1>14, <1>15, <1>16, <1>17, StillInv

LEMMA SpanInPage ==
  ASSUME NEW p \in Nat, NEW k \in Nat, p + k <= Pages
  PROVE  Span(p, k) \subseteq Page
BY Fixed DEF Span, Page

LEMMA ExtentsFrom ==
  ASSUME NEW e, NEW b, NEW p, NEW n, e.id = 0, e.base = b, e.p = p, e.size = n
  PROVE  Extents(e) = Span(b, GoodSize(n) + (p - b))
BY DEF Extents, OsExtent

\* The OS gave the memory of a segment.
GotExtent(c) ==
  [id |-> 0, base |-> c.lo, p |-> c.lo + c.skip, size |-> c.call.size, req |-> 0,
   committed |-> IF c.commit THEN Span(c.lo + c.skip, c.call.size) ELSE {}]

LEMMA GotSegmentInv ==
  ASSUME IInv, NEW t \in Thread, pc[t].at = "got", Direct(pc[t]), NEW e, e = GotExtent(pc[t]),
         Set(t, [Idle EXCEPT !.at = IF pc[t].commit THEN "enter" ELSE "commitInfo", !.ext = {e}]),
         UNCHANGED <<mem, tryOk, hugeStart, tableVars>>
  PROVE  IInv'
<1> DEFINE d == pc[t]
           a == IF d.commit THEN "enter" ELSE "commitInfo"
           c == [Idle EXCEPT !.at = a, !.ext = {e}]
<1>1. TypeOK /\ d \in Control /\ Placed(d) /\ Real(d) /\ ~ended
  BY ThreadIs
<1>2. d.ext = {} /\ d.stray = NoPage /\ d.meta = NoPage
  BY <1>1 DEF Placed, ExtAt
<1>3. d.call.op # "huge"
  BY <1>1 DEF Placed
<1>4. d.n > 0 /\ d.n = d.ask /\ Hand(d) \subseteq Page /\ Wants(d) /\ d.lo % d.align = 0
  BY <1>1, <1>3 DEF Placed, Has
<1>5. /\ Hand(d) = Span(d.lo, d.n) /\ d.call \in Calls /\ d.lo \in Nat /\ d.n \in Nat /\ d.skip \in Nat
      /\ d.call.size \in Nat /\ d.call.size <= GoodSize(d.call.size)
      /\ d.ask = GoodSize(d.call.size) + d.skip /\ GoodSize(d.call.size) \in Nat
  BY <1>1, <1>4, AskHand DEF HandAt
<1>6. d.call.op = "alloc" /\ d.align = d.call.align /\ d.skip = Extra(d.call)
  BY <1>4 DEF Wants
<1>7. /\ d.call.size > 0 /\ d.call.size \in 1..Pages
      /\ d.align \in Nat /\ d.align > 0 /\ d.align % Block = 0 /\ d.skip % Block = 0
  <2>1. d.call.size > 0 /\ d.call.size <= Pages /\ d.call.align \in Nat /\ d.call.align > 0
    BY <1>5, CallIs
  <2>2. d.call.align % Block = 0 /\ Extra(d.call) % Block = 0
    BY <1>5, <1>6, ExtraIs
  <2> QED BY <1>5, <1>6, <2>1, <2>2, Fixed
<1>8. (d.lo + d.skip) % Block = 0
  <2>1. Block \in Nat /\ Block > 0 /\ d.lo \in Int /\ d.skip \in Int
    BY <1>5, Fixed
  <2>2. d.lo % Block = 0
    BY <1>4, <1>7, <2>1, MultipleOfMultiple
  <2> QED BY <1>7, <2>1, <2>2, MultiplesAdd
<1>9. d.lo + d.n <= Pages
  <2>1. d.lo + d.n - 1 \in Span(d.lo, d.n)
    BY <1>4, <1>5 DEF Span
  <2>2. d.lo + d.n - 1 \in Page
    BY <1>4, <1>5, <2>1
  <2> QED BY <1>5, <2>2, Fixed DEF Page
<1>10. d.lo \in Page /\ d.lo + d.skip \in Page /\ d.lo + d.skip + d.call.size <= Pages
  <2> DEFINE lo == d.lo
             n == d.n
             s == d.skip
             g == GoodSize(d.call.size)
             k == d.call.size
  <2>1. /\ lo \in Nat /\ n \in Nat /\ s \in Nat /\ g \in Nat /\ k \in Nat /\ k > 0 /\ k <= g
        /\ n = g + s /\ lo + n <= Pages
    BY <1>4, <1>5, <1>7, <1>9
  <2> HIDE DEF lo, n, s, g, k
  <2>2. lo \in Page /\ lo + s \in Page /\ lo + s + k <= Pages
    BY <2>1, Fixed DEF Page
  <2> QED BY <2>2 DEF lo, s, k
<1>11. Span(d.lo + d.skip, d.call.size) \subseteq Page
  <2> DEFINE p == d.lo + d.skip
             k == d.call.size
  <2>1. p \in Nat /\ p + k <= Pages /\ k \in Nat
    BY <1>5, <1>10
  <2> HIDE DEF p, k
  <2>2. Span(p, k) \subseteq Page
    BY <2>1, SpanInPage
  <2> QED BY <2>2 DEF p, k
<1>12. /\ e.id = 0 /\ e.base = d.lo /\ e.p = d.lo + d.skip /\ e.size = d.call.size
       /\ e.committed = (IF d.commit THEN Span(d.lo + d.skip, d.call.size) ELSE {})
       /\ e.req = 0
  BY DEF GotExtent
<1>13. e \in ExtentOf
  <2>1. 0 \in 0..MaxArenas /\ e.committed \in SUBSET Page
    BY <1>11, <1>12, Fixed
  <2> QED BY <1>7, <1>10, <1>12, <2>1 DEF ExtentOf, GotExtent
<1>14. Sound(e)
  BY <1>5, <1>8, <1>10, <1>12 DEF Sound
<1>15. ExtIn(mem', e)
  <2>1. d.commit => \A q \in Span(d.lo + d.skip, d.call.size) : mem[q] = "rw"
    BY <1>1 DEF Real
  <2> QED BY <1>12, <2>1 DEF ExtIn
<1>16. a \in {"enter", "commitInfo"} /\ a \in Label
  BY DEF Label
<1> HIDE DEF a
<1>17. c \in Control
  BY <1>13, <1>16, IdleIs DEF Control
<1>18. c.at = a /\ c.ext = {e} /\ c.call = NoCall /\ c.stray = NoPage /\ c.meta = NoPage /\ c.stage = "table"
  BY IdleIs DEF Control
<1>19. Set(t, c)
  BY DEF a
<1> HIDE DEF c
<1>20. Hand(c) = {} /\ Given(c) = {} /\ RealIn(mem', c) /\ Has(c) /\ ~Direct(c)
  BY <1>16, <1>18 DEF Hand, HandAt, Given, AreaAt, RealIn, AskAt, Has, Direct
<1>21. InHand(c) = Hand(d)
  <2>1. InHand(c) = Extents(e)
    BY <1>18 DEF InHand
  <2>2. Extents(e) = Span(d.lo, GoodSize(d.call.size) + ((d.lo + d.skip) - d.lo))
    <3>1. e.id = 0 /\ e.base = d.lo /\ e.p = d.lo + d.skip /\ e.size = d.call.size
      BY <1>12
    <3> QED BY <3>1, ExtentsFrom
  <2>3. (d.lo + d.skip) - d.lo = d.skip
    BY <1>5
  <2> QED BY <1>4, <1>5, <2>1, <2>2, <2>3
<1>22. Held(d) = Hand(d)
  BY <1>2, <1>4, HugePlain
<1>23. Held(c) = Hand(d) /\ Once(c)
  <2>1. Aside(c) \cap Page = {} /\ Held(c) = Page \cap (Hand(c) \cup InHand(c))
    BY <1>18, NothingAside
  <2> QED BY <1>4, <1>20, <1>21, <2>1 DEF Once
<1>24. Remaps(Held(d), Held(c))
  BY <1>22, <1>23, SameHand
<1>25. Placed(c)
  BY <1>12, <1>16, <1>18, <1>20, IdleIs DEF Placed, ExtAt, AskAt, HugeAt, AreaAt
<1>26. Settled(c)
  BY <1>14, <1>15, <1>18, <1>20, <1>25 DEF Settled
<1>27. /\ mem' \in [Page -> {"free", "none", "rw"}] /\ calls' \in 0..MaxCalls /\ Still
       /\ UNCHANGED <<tryOk, hugeStart>>
  BY <1>1 DEF TypeOK, tableVars, Still
<1>28. {d.at, c.at} \cap {"store", "retreat"} = {} /\ {x \in c.ext : x.id # 0} = {x \in d.ext : x.id # 0}
  BY <1>2, <1>12, <1>16, <1>18
<1> QED BY <1>1, <1>17, <1>19, <1>20, <1>23, <1>24, <1>26, <1>27, <1>28, StillInv

LEMMA OsGotInv ==
  ASSUME IInv, NEW t \in Thread, OsGot(t)
  PROVE  IInv'
<1>1. pc[t].at = "got" /\ UNCHANGED <<mem, tryOk, hugeStart, tableVars>>
  BY DEF OsGot
<1>2. CASE ~Direct(pc[t])
  <2>1. Set(t, [pc[t] EXCEPT !.at = "meta"])
    BY <1>2 DEF OsGot
  <2> QED BY <1>1, <1>2, <2>1, GotAreaInv
<1>3. CASE Direct(pc[t])
  <2> DEFINE e == GotExtent(pc[t])
  <2>1. Set(t, [Idle EXCEPT !.at = IF pc[t].commit THEN "enter" ELSE "commitInfo", !.ext = {e}])
    BY <1>3 DEF OsGot, GotExtent
  <2> QED BY <1>1, <1>3, <2>1, GotSegmentInv
<1> QED BY <1>2, <1>3

\* The segment of which a thread has the memory in hand.
Carried(t) == CHOOSE x \in pc[t].ext : TRUE

LEMMA CarriedIs ==
  ASSUME IInv, NEW t \in Thread, pc[t].at \in ExtAt
  PROVE  /\ TypeOK /\ ~ended /\ pc[t] \in Control /\ calls \in 0..MaxCalls
         /\ mem \in [Page -> {"free", "none", "rw"}]
         /\ pc[t].ext = {Carried(t)} /\ Carried(t) \in Memory
         /\ Carried(t) \in ExtentOf /\ Sound(Carried(t)) /\ ExtIn(mem, Carried(t))
         /\ pc[t].stray = NoPage /\ pc[t].meta = NoPage /\ ~Direct(pc[t])
         /\ Hand(pc[t]) = {} /\ Given(pc[t]) = {}
         /\ Held(pc[t]) = Page \cap Extents(Carried(t))
<1>1. TypeOK /\ pc[t] \in Control /\ Placed(pc[t]) /\ ~ended /\ calls \in 0..MaxCalls
      /\ mem \in [Page -> {"free", "none", "rw"}]
  BY ThreadIs DEF TypeOK, ExtAt
<1>2. \E e \in pc[t].ext : pc[t].ext = {e}
  BY <1>1 DEF Placed
<1>3. pc[t].ext = {Carried(t)}
  BY <1>2 DEF Carried
<1>4. Carried(t) \in Memory
  BY <1>3 DEF Memory
<1>5. Carried(t) \in ExtentOf /\ Sound(Carried(t))
  BY <1>1, <1>4, ExtentIs DEF IInv
<1>6. ExtIn(mem, Carried(t))
  BY <1>1, <1>4 DEF IInv, Accessible, Memory, ExtIn
<1>7. pc[t].stray = NoPage /\ pc[t].meta = NoPage /\ ~Direct(pc[t])
  BY <1>1 DEF Placed, ExtAt, AskAt
<1>8. Hand(pc[t]) = {} /\ Given(pc[t]) = {}
  BY DEF Hand, HandAt, Given, AreaAt, ExtAt
<1>9. InHand(pc[t]) = Extents(Carried(t))
  BY <1>3 DEF InHand
<1>10. Held(pc[t]) = Page \cap Extents(Carried(t))
  BY <1>7, <1>8, <1>9, NothingAside
<1> QED BY <1>1, <1>3, <1>4, <1>5, <1>6, <1>7, <1>8, <1>10

\* Another record for a thread that carries a segment.
LEMMA CarryPlaced ==
  ASSUME NEW c \in Control, c.at \in ExtAt, NEW e, c.ext = {e}, c.stray = NoPage, c.meta = NoPage,
         ~Direct(c), c.at = "commitInfo" => e.id = 0
  PROVE  /\ Placed(c) /\ Hand(c) = {} /\ Given(c) = {} /\ Once(c) /\ \A m : RealIn(m, c)
         /\ Held(c) = Page \cap Extents(e)
<1>1. Hand(c) = {} /\ Given(c) = {} /\ Has(c) /\ \A m : RealIn(m, c)
  BY DEF Hand, HandAt, Given, AreaAt, Has, RealIn, AskAt, ExtAt
<1>2. InHand(c) = Extents(e)
  BY DEF InHand
<1>3. Held(c) = Page \cap Extents(e) /\ Once(c)
  <2>1. Aside(c) \cap Page = {} /\ Held(c) = Page \cap (Hand(c) \cup InHand(c))
    BY NothingAside
  <2> QED BY <1>1, <1>2, <2>1 DEF Once
<1>4. Placed(c)
  BY <1>1 DEF Placed, ExtAt, AskAt, HugeAt, AreaAt
<1> QED BY <1>1, <1>3, <1>4

LEMMA CommitInfoInv ==
  ASSUME IInv, NEW t \in Thread, CommitInfo(t)
  PROVE  IInv'
<1> DEFINE d == pc[t]
           e == Carried(t)
           f == [e EXCEPT !.committed = {e.p}]
           c == [d EXCEPT !.at = "enter", !.ext = {f}]
           g == [d EXCEPT !.at = "giveBack"]
<1>1. d.at = "commitInfo" /\ d.at \in ExtAt /\ UNCHANGED <<tryOk, hugeStart, tableVars>>
  BY DEF CommitInfo, ExtAt
<1>2. /\ ~ended /\ d \in Control /\ calls \in 0..MaxCalls /\ mem \in [Page -> {"free", "none", "rw"}]
      /\ d.ext = {e} /\ e \in ExtentOf /\ Sound(e) /\ ExtIn(mem, e) /\ e \in Memory
      /\ d.stray = NoPage /\ d.meta = NoPage /\ ~Direct(d)
      /\ Given(d) = {} /\ Held(d) = Page \cap Extents(e)
  BY <1>1, CarriedIs
<1>3. e.id = 0
  <2>1. Placed(d)
    BY ThreadIs
  <2> QED BY <1>1, <1>2, <2>1 DEF Placed
<1>4. Still /\ calls' \in 0..MaxCalls
  BY <1>1, <1>2 DEF Still, tableVars
<1>5. CASE mem' = Protect({e.p}, "rw") /\ Set(t, c)
  <2> HIDE DEF e
  <2>1. e.p \in Page /\ e.p \in Nat /\ e.size \in Nat /\ e.size > 0 /\ e.base \in Page
    BY <1>2, Fixed DEF ExtentOf, Page
  <2>2. f \in ExtentOf
    BY <1>2, <2>1 DEF ExtentOf
  <2>3. f.id = 0 /\ f.base = e.base /\ f.p = e.p /\ f.size = e.size /\ f.committed = {e.p}
    BY <1>2, <1>3 DEF ExtentOf
  <2> HIDE DEF f
  <2>4. e.p \in Span(e.p, e.size)
    BY <2>1 DEF Span
  <2>5. e.p \in Held(d)
    BY <1>2, <1>3, <2>1, <2>4, OsSpan
  <2>6. mem' \in [Page -> {"free", "none", "rw"}] /\ mem'[e.p] = "rw"
        /\ \A q \in Page : q # e.p => mem'[q] = mem[q]
    BY <1>2, <1>5, <2>1 DEF Protect
  <2>7. c \in Control
    <3>1. "enter" \in Label /\ {f} \in SUBSET ExtentOf
      BY <2>2 DEF Label
    <3> QED BY <1>2, <3>1 DEF Control
  <2>8. c.at = "enter" /\ c.ext = {f} /\ c.stray = NoPage /\ c.meta = NoPage /\ c.stage = d.stage
    BY <1>2, <2>7 DEF Control
  <2>9. Set(t, c)
    BY <1>5 DEF e, f
  <2> HIDE DEF c
  <2>10. /\ Placed(c) /\ Given(c) = {} /\ Once(c) /\ RealIn(mem', c)
         /\ Held(c) = Page \cap Extents(f)
    BY <1>2, <2>7, <2>8, CarryPlaced DEF ExtAt, Direct
  <2>11. Extents(f) = Extents(e)
    BY <1>3, <2>3 DEF Extents
  <2>12. Settled(c)
    BY <1>2, <2>3, <2>4, <2>6, <2>8, <2>10 DEF Settled, Sound, ExtIn
  <2>13. Remaps(Held(d), Held(c))
    BY <1>2, <2>5, <2>6, <2>10, <2>11, HeldOnce DEF Remaps
  <2>14. {d.at, c.at} \cap {"store", "retreat"} = {} /\ {x \in c.ext : x.id # 0} = {x \in d.ext : x.id # 0}
    BY <1>1, <1>2, <1>3, <2>3, <2>8
  <2> QED BY <1>1, <1>2, <1>4, <2>6, <2>7, <2>9, <2>10, <2>12, <2>13, <2>14, StillInv
<1>6. CASE Set(t, g) /\ UNCHANGED mem
  <2>1. "giveBack" \in Label
    BY DEF Label
  <2>2. g \in Control
    BY <1>2, <2>1 DEF Control
  <2>3. g.at = "giveBack" /\ g.ext = {e} /\ g.stray = NoPage /\ g.meta = NoPage /\ g.stage = d.stage
    BY <1>2, <2>2 DEF Control
  <2>4. Set(t, g) /\ mem' = mem
    BY <1>6
  <2> HIDE DEF g
  <2>5. /\ Placed(g) /\ Given(g) = {} /\ Once(g) /\ RealIn(mem', g)
         /\ Held(g) = Page \cap Extents(e)
    BY <1>2, <2>2, <2>3, CarryPlaced DEF ExtAt, Direct
  <2>6. Settled(g)
    BY <1>2, <2>3, <2>4, <2>5 DEF Settled
  <2>7. Remaps(Held(d), Held(g))
    BY <1>2, <2>4, <2>5, SameHand
  <2>8. {d.at, g.at} \cap {"store", "retreat"} = {} /\ {x \in g.ext : x.id # 0} = {x \in d.ext : x.id # 0}
    BY <1>1, <1>2, <2>3
  <2> QED BY <1>1, <1>2, <1>4, <2>2, <2>4, <2>5, <2>6, <2>7, <2>8, StillInv
<1>7. (mem' = Protect({e.p}, "rw") /\ Set(t, c)) \/ (Set(t, g) /\ UNCHANGED mem)
  BY DEF CommitInfo, Goto, Carried
<1> QED BY <1>5, <1>6, <1>7

\* Memory from the OS goes back to it.
LEMMA FreeOsInv ==
  ASSUME IInv, NEW t \in Thread, pc[t].at \in {"free", "giveBack"}, Carried(t).id = 0,
         mem' = Unmap(Extents(Carried(t))), Set(t, Idle), UNCHANGED <<tryOk, hugeStart, tableVars>>
  PROVE  IInv'
<1>1. /\ TypeOK /\ pc[t].ext = {Carried(t)} /\ Held(pc[t]) = Page \cap Extents(Carried(t))
  BY CarriedIs DEF ExtAt
<1>2. /\ mem' \in [Page -> {"free", "none", "rw"}]
      /\ \A q \in Page : mem'[q] = IF q \in Extents(Carried(t)) THEN "free" ELSE mem[q]
  BY <1>1, UnmapIs
<1>3. Remaps(Held(pc[t]), {})
  BY <1>1, <1>2 DEF Remaps
<1>4. {e \in pc[t].ext : e.id # 0} = {}
  BY <1>1
<1> QED BY <1>2, <1>3, <1>4, ToIdle

\* The same area at another place, with or without a descriptor.
AreaNext(d, c) ==
  /\ d.at \in AreaAt \ {"store", "retreat"} /\ c.at \in AreaAt \ {"store", "retreat"}
  /\ c.call = d.call /\ c.ask = d.ask /\ c.lo = d.lo /\ c.n = d.n /\ c.stage = d.stage
  /\ c.ext = d.ext /\ c.stray = d.stray
  /\ IF c.at = "add" THEN c.meta \in Page /\ mem'[c.meta] = "rw" ELSE c.meta = NoPage
AreaGets(d, c) ==
  /\ Settled(c) /\ Hand(c) = Hand(d) /\ Given(c) = Given(d)
  /\ {d.at, c.at} \cap {"store", "retreat"} = {}
  /\ {e \in c.ext : e.id # 0} = {e \in d.ext : e.id # 0}
  /\ Held(c) = Hand(d) \cup (IF c.at = "add" THEN {c.meta} ELSE {})
  /\ c.meta \notin Hand(d) => Once(c)

LEMMA AreaStep ==
  ASSUME IInv, NEW t \in Thread, NEW c \in Control, AreaNext(pc[t], c)
  PROVE  AreaGets(pc[t], c)
<1>0. /\ pc[t].at \in AreaAt \ {"store", "retreat"} /\ c.at \in AreaAt \ {"store", "retreat"}
      /\ c.call = pc[t].call /\ c.ask = pc[t].ask /\ c.lo = pc[t].lo /\ c.n = pc[t].n
      /\ c.stage = pc[t].stage /\ c.ext = pc[t].ext /\ c.stray = pc[t].stray
      /\ IF c.at = "add" THEN c.meta \in Page /\ mem'[c.meta] = "rw" ELSE c.meta = NoPage
  BY DEF AreaNext
<1>1. /\ pc[t] \in Control /\ pc[t].ext = {} /\ pc[t].stray = NoPage /\ ~Direct(pc[t]) /\ Area1(pc[t])
      /\ Hand(pc[t]) = (IF pc[t].call.op = "manage" THEN {} ELSE Span(pc[t].lo, pc[t].n))
      /\ Given(pc[t]) = (IF pc[t].call.op = "manage" THEN Span(pc[t].lo, pc[t].ask) ELSE {})
      /\ Hand(pc[t]) \subseteq Page
  BY <1>0, AreaIs
<1>2. Area1(c) /\ ~Direct(c) /\ c.ext = {} /\ c.stray = NoPage
  BY <1>0, <1>1 DEF Area1, Direct
<1>3. IF c.at \in {"add", "retreat", "store"} THEN c.meta \in Page ELSE c.meta = NoPage
  BY <1>0 DEF AreaAt
<1>4. /\ Placed(c) /\ RealIn(mem', c)
      /\ Hand(c) = (IF c.call.op = "manage" THEN {} ELSE Span(c.lo, c.n))
      /\ Given(c) = (IF c.call.op = "manage" THEN Span(c.lo, c.ask) ELSE {})
  BY <1>0, <1>2, <1>3, AreaPlaced
<1>5. Hand(c) = Hand(pc[t]) /\ Given(c) = Given(pc[t])
  BY <1>0, <1>1, <1>4
<1>6. InHand(c) = {} /\ Held(c) = Page \cap (Hand(c) \cup Aside(c))
  BY <1>2, NoSegmentHeld
<1>7. Aside(c) = {c.meta} /\ NoPage \notin Page
  BY <1>2, Fixed DEF Aside, NoPage, Page
<1>8. Held(c) = Hand(pc[t]) \cup (IF c.at = "add" THEN {c.meta} ELSE {})
  BY <1>0, <1>1, <1>5, <1>6, <1>7
<1>9. c.meta \notin Hand(pc[t]) => Once(c)
  BY <1>0, <1>5, <1>6, <1>7 DEF Once
<1> QED BY <1>0, <1>1, <1>2, <1>4, <1>5, <1>8, <1>9 DEF Settled, AreaGets

LEMMA AllocMetaInv ==
  ASSUME IInv, NEW t \in Thread, AllocMeta(t)
  PROVE  IInv'
<1> DEFINE d == pc[t]
           u == [d EXCEPT !.at = "undo"]
<1>1. d.at = "meta" /\ d.at \in AreaAt /\ UNCHANGED <<tryOk, hugeStart, tableVars>>
  BY DEF AllocMeta, AreaAt
<1>2. /\ TypeOK /\ ~ended /\ d \in Control /\ d.ext = {} /\ d.stray = NoPage /\ d.meta = NoPage
      /\ calls \in 0..MaxCalls /\ mem \in [Page -> {"free", "none", "rw"}] /\ Hand(d) \subseteq Page
  BY <1>1, AreaIs
<1>3. Still /\ calls' \in 0..MaxCalls
  BY <1>1, <1>2 DEF Still, tableVars
<1>4. Held(d) = Hand(d)
  BY <1>2, HugePlain
<1>5. ASSUME NEW p \in Places(1), mem' = Map(p, 1, TRUE), Set(t, [d EXCEPT !.at = "add", !.meta = p])
      PROVE  IInv'
  <2> DEFINE c == [d EXCEPT !.at = "add", !.meta = p]
  <2>1. p \in Fits(1) /\ 1 \in Nat
    BY PlacesFit
  <2>2. PICK b \in BOOLEAN : b /\ mem' = Map(p, 1, b)
    BY <1>5
  <2>3. /\ mem' \in [Page -> {"free", "none", "rw"}] /\ p \in Page /\ p \in Nat
        /\ \A q \in Span(p, 1) : mem[q] = "free" /\ mem'[q] # "free" /\ mem'[q] = "rw"
        /\ \A q \in Page : q \notin Span(p, 1) => mem'[q] = mem[q]
    BY <1>2, <2>1, <2>2, MapIs
  <2>4. \A q \in Page : q \in Span(p, 1) <=> q = p
    BY <2>3, Fixed DEF Span, Page
  <2>5. mem[p] = "free" /\ mem'[p] # "free" /\ mem'[p] = "rw" /\ \A q \in Page : q # p => mem'[q] = mem[q]
    BY <2>3, <2>4
  <2>6. p \notin Hand(d)
    BY <1>4, <2>3, <2>5, HeldOnce
  <2>7. c \in Control
    <3>1. "add" \in Label
      BY DEF Label
    <3> QED BY <1>2, <2>3, <3>1 DEF Control
  <2>8. /\ c.at = "add" /\ c.meta = p /\ c.call = d.call /\ c.ask = d.ask /\ c.lo = d.lo /\ c.n = d.n
        /\ c.stage = d.stage /\ c.ext = d.ext /\ c.stray = d.stray
    BY <1>2, <2>7 DEF Control
  <2>9. Set(t, c)
    BY <1>5
  <2> HIDE DEF c
  <2>10. /\ Settled(c) /\ Given(c) = Given(d)
         /\ {d.at, c.at} \cap {"store", "retreat"} = {}
         /\ {e \in c.ext : e.id # 0} = {e \in d.ext : e.id # 0}
         /\ Held(c) = Hand(d) \cup {p} /\ Once(c)
    <3>1. AreaNext(d, c)
      BY <1>1, <2>3, <2>5, <2>8 DEF AreaAt, AreaNext
    <3>2. AreaGets(d, c)
      BY <2>3, <2>5, <2>6, <2>7, <2>8, <3>1, AreaStep
    <3> QED BY <2>3, <2>5, <2>6, <2>7, <2>8, <3>2 DEF AreaGets
  <2>11. Remaps(Held(d), Held(c))
    BY <1>4, <2>5, <2>10, HeldOnce DEF Remaps
  <2> QED BY <1>1, <1>2, <1>3, <2>3, <2>7, <2>9, <2>10, <2>11, StillInv
<1>6. CASE Set(t, u) /\ UNCHANGED mem
  <2>1. u \in Control
    <3>1. "undo" \in Label
      BY DEF Label
    <3> QED BY <1>2, <3>1 DEF Control
  <2>2. /\ u.at = "undo" /\ u.meta = NoPage /\ u.call = d.call /\ u.ask = d.ask /\ u.lo = d.lo /\ u.n = d.n
        /\ u.stage = d.stage /\ u.ext = d.ext /\ u.stray = d.stray
    BY <1>2, <2>1 DEF Control
  <2>3. Set(t, u)
    BY <1>6
  <2> HIDE DEF u
  <2>4. NoPage \notin Hand(d)
    BY <1>2, Fixed DEF NoPage, Page
  <2>5. /\ Settled(u) /\ Given(u) = Given(d)
        /\ {d.at, u.at} \cap {"store", "retreat"} = {}
        /\ {e \in u.ext : e.id # 0} = {e \in d.ext : e.id # 0}
        /\ Held(u) = Hand(d) /\ Once(u)
    <3>1. AreaNext(d, u)
      BY <1>1, <2>2 DEF AreaAt, AreaNext
    <3>2. AreaGets(d, u)
      BY <2>1, <2>2, <2>4, <3>1, AreaStep
    <3> QED BY <2>1, <2>2, <2>4, <3>2 DEF AreaGets
  <2>6. Remaps(Held(d), Held(u))
    BY <1>4, <1>6, <2>5, SameHand
  <2>7. mem' \in [Page -> {"free", "none", "rw"}]
    BY <1>2, <1>6
  <2> QED BY <1>1, <1>2, <1>3, <2>1, <2>3, <2>5, <2>6, <2>7, StillInv
<1>7. (\E p \in Places(1) : mem' = Map(p, 1, TRUE) /\ Set(t, [d EXCEPT !.at = "add", !.meta = p]))
      \/ (Set(t, u) /\ UNCHANGED mem)
  BY DEF AllocMeta, Goto
<1> QED BY <1>5, <1>6, <1>7

LEMMA UndoManageInv ==
  ASSUME IInv, NEW t \in Thread, UndoManage(t)
  PROVE  IInv'
<1>1. /\ pc[t].at = "undo" /\ pc[t].at \in AreaAt /\ pc[t].call.op = "manage" /\ Set(t, Idle)
      /\ UNCHANGED <<mem, tryOk, hugeStart, tableVars>>
  BY DEF UndoManage, AreaAt
<1>2. /\ pc[t].ext = {} /\ pc[t].stray = NoPage /\ pc[t].meta = NoPage /\ Hand(pc[t]) = {}
      /\ mem \in [Page -> {"free", "none", "rw"}]
  BY <1>1, AreaIs
<1>3. Held(pc[t]) = {}
  BY <1>2, HugePlain
<1>4. Remaps(Held(pc[t]), {})
  BY <1>1, <1>3 DEF Remaps
<1> QED BY <1>1, <1>2, <1>4, ToIdle

LEMMA UndoReserveInv ==
  ASSUME IInv, NEW t \in Thread, UndoReserve(t)
  PROVE  IInv'
<1> DEFINE d == pc[t]
           c == [d EXCEPT !.at = "fallback", !.n = 0]
<1>1. /\ d.at = "undo" /\ d.at \in AreaAt /\ d.call.op \in {"reserve", "alloc"}
      /\ mem' = Unmap(OsExtent(d.lo, d.lo, d.ask)) /\ UNCHANGED <<tryOk, hugeStart, tableVars>>
  BY DEF UndoReserve, AreaAt
<1>2. /\ TypeOK /\ ~ended /\ d \in Control /\ d.ext = {} /\ d.stray = NoPage /\ d.meta = NoPage
      /\ ~Direct(d) /\ Area1(d) /\ calls \in 0..MaxCalls
      /\ Hand(d) = Span(d.lo, d.n) /\ Given(d) = {} /\ Hand(d) \subseteq Page
  BY <1>1, AreaIs
<1>3. d.n = d.ask /\ d.n % Block = 0 /\ d.n \in Nat /\ d.lo \in Nat
  BY <1>1, <1>2, Fixed DEF Area1, Control
<1>4. OsExtent(d.lo, d.lo, d.ask) = Span(d.lo, d.n)
  <2>1. GoodSize(d.n) = d.n /\ d.lo - d.lo = 0
    BY <1>3, GoodSizeIs
  <2>2. OsExtent(d.lo, d.lo, d.ask) = Span(d.lo, GoodSize(d.ask) + (d.lo - d.lo))
    BY DEF OsExtent
  <2>3. OsExtent(d.lo, d.lo, d.ask) = Span(d.lo, d.n + 0)
    BY <1>3, <2>1, <2>2
  <2> QED BY <1>3, <2>3
<1>5. /\ mem' \in [Page -> {"free", "none", "rw"}]
      /\ \A q \in Page : mem'[q] = IF q \in Hand(d) THEN "free" ELSE mem[q]
  BY <1>1, <1>2, <1>4, UnmapIs
<1>6. Held(d) = Hand(d)
  BY <1>2, HugePlain
<1>7. Remaps(Held(d), {})
  BY <1>5, <1>6 DEF Remaps
<1>8. {e \in d.ext : e.id # 0} = {}
  BY <1>2
<1>9. CASE Set(t, Idle)
  BY <1>1, <1>5, <1>7, <1>8, <1>9, ToIdle
<1>10. CASE Set(t, c) /\ d.call.op = "alloc"
  <2>1. c \in Control
    <3>1. "fallback" \in Label /\ 0 \in 0..Pages
      BY Fixed DEF Label
    <3> QED BY <1>2, <3>1 DEF Control
  <2>2. /\ c.at = "fallback" /\ c.n = 0 /\ c.call = d.call /\ c.stage = d.stage /\ c.ext = {}
        /\ c.stray = NoPage /\ c.meta = NoPage
    BY <1>2, <2>1 DEF Control
  <2>3. Set(t, c)
    BY <1>10
  <2> HIDE DEF c
  <2>4. Hand(c) = {} /\ Has(c) /\ ~Direct(c) /\ Given(c) = {} /\ RealIn(mem', c)
    BY <1>2, <2>2 DEF Hand, HandAt, Has, Direct, Given, AreaAt, RealIn, AskAt
  <2>5. Placed(c)
    BY <1>10, <2>2, <2>4 DEF Placed, ExtAt, AskAt, HugeAt, AreaAt
  <2>6. Held(c) = {} /\ Once(c)
    BY <2>2, <2>4, HugePlain
  <2>7. Settled(c) /\ Remaps(Held(d), Held(c))
    BY <1>7, <2>2, <2>4, <2>5, <2>6 DEF Settled
  <2>8. Still /\ calls' \in 0..MaxCalls
    BY <1>1, <1>2 DEF Still, tableVars
  <2>9. {d.at, c.at} \cap {"store", "retreat"} = {} /\ {e \in c.ext : e.id # 0} = {e \in d.ext : e.id # 0}
    BY <1>1, <1>2, <2>2
  <2> QED BY <1>1, <1>2, <1>5, <2>1, <2>3, <2>4, <2>6, <2>7, <2>8, <2>9, StillInv
<1>11. Set(t, Idle) \/ (Set(t, c) /\ d.call.op = "alloc")
  BY DEF UndoReserve
<1> QED BY <1>9, <1>10, <1>11

LEMMA UndoHugeInv ==
  ASSUME IInv, NEW t \in Thread, UndoHuge(t)
  PROVE  IInv'
<1> DEFINE d == pc[t]
           c == [d EXCEPT !.at = "freeHuge"]
<1>1. UNCHANGED <<mem, tryOk, hugeStart, tableVars>>
  BY DEF UndoHuge
<1>2. TypeOK
  BY ThreadIs
<1>3. mem' \in [Page -> {"free", "none", "rw"}]
  BY <1>1, <1>2 DEF TypeOK
<1>4. CASE d.at = "freeHuge" /\ d.n = 0 /\ Set(t, Idle)
  <2>1. d.at \in HugeAt
    BY <1>4 DEF HugeAt
  <2>2. d.ext = {} /\ d.meta = NoPage /\ d.stray = NoPage /\ Hand(d) = Span(d.lo, d.n) /\ d.lo \in Nat
    BY <1>4, <2>1, HugeIs
  <2>3. Hand(d) = {}
    BY <1>4, <2>2 DEF Span
  <2>4. Held(d) = {}
    BY <2>2, <2>3, HugePlain
  <2>5. Remaps(Held(d), {}) /\ {e \in d.ext : e.id # 0} = {}
    BY <1>1, <2>2, <2>4 DEF Remaps
  <2> QED BY <1>1, <1>3, <1>4, <2>5, ToIdle
<1>5. CASE d.at = "undo" /\ d.call.op = "huge" /\ Set(t, c)
  <2>1. /\ ~ended /\ d \in Control /\ d.ext = {} /\ d.stray = NoPage /\ d.meta = NoPage
        /\ ~Direct(d) /\ Area1(d) /\ calls \in 0..MaxCalls
        /\ Hand(d) = Span(d.lo, d.n) /\ Given(d) = {} /\ Hand(d) \subseteq Page
    BY <1>5, AreaIs DEF AreaAt
  <2>2. d.lo % Block = 0 /\ d.n % Block = 0
    BY <1>5, <2>1 DEF Area1
  <2>3. c \in Control
    <3>1. "freeHuge" \in Label
      BY DEF Label
    <3> QED BY <2>1, <3>1 DEF Control
  <2>4. /\ c.at = "freeHuge" /\ c.n = d.n /\ c.lo = d.lo /\ c.call = d.call /\ c.stage = d.stage
        /\ c.ext = {} /\ c.stray = NoPage /\ c.meta = NoPage
    BY <2>1, <2>3 DEF Control
  <2>5. Set(t, c)
    BY <1>5
  <2> HIDE DEF c
  <2>6. Hand(c) = Hand(d) /\ Has(c) /\ ~Direct(c) /\ Given(c) = {} /\ RealIn(mem', c)
    BY <1>5, <2>1, <2>4 DEF Hand, HandAt, Has, Direct, Given, AreaAt, RealIn, AskAt
  <2>7. Placed(c)
    BY <1>5, <2>1, <2>2, <2>4, <2>6 DEF Placed, ExtAt, AskAt, HugeAt, AreaAt
  <2>8. Held(d) = Hand(d) /\ Held(c) = Hand(d) /\ Once(c)
    BY <2>1, <2>4, <2>6, HugePlain
  <2>9. Remaps(Held(d), Held(c))
    BY <1>1, <2>8, SameHand
  <2>10. Settled(c)
    BY <2>4, <2>6, <2>7 DEF Settled
  <2>11. Still /\ calls' \in 0..MaxCalls
    BY <1>1, <2>1 DEF Still, tableVars
  <2>12. {d.at, c.at} \cap {"store", "retreat"} = {} /\ {e \in c.ext : e.id # 0} = {e \in d.ext : e.id # 0}
    BY <1>5, <2>1, <2>4
  <2> QED BY <1>1, <1>3, <2>1, <2>3, <2>5, <2>6, <2>8, <2>9, <2>10, <2>11, <2>12, StillInv
<1>6. (d.at = "undo" /\ d.call.op = "huge" /\ Set(t, c)) \/ (d.at = "freeHuge" /\ d.n = 0 /\ Set(t, Idle))
  BY DEF UndoHuge, Goto
<1> QED BY <1>4, <1>5, <1>6

\* An area of the program's own: it is of no one else.
LEMMA ManageOsMemoryInv ==
  ASSUME IInv, NEW t \in Thread, NEW k \in Calls, ManageOsMemory(t, k)
  PROVE  IInv'
<1>1. /\ ~ended /\ pc[t] = Idle /\ pc[t].at = "idle" /\ Held(pc[t]) = {} /\ pc[t].ext = {} /\ TypeOK
      /\ calls' \in 0..MaxCalls /\ k.op = "manage"
      /\ UNCHANGED <<tryOk, hugeStart, arenas, count, live, map, lost, ended>>
  BY CallStarts DEF ManageOsMemory
<1>2. PICK p \in Places(k.size) :
         /\ p % Block = 0 /\ mem' = Map(p, k.size, TRUE)
         /\ external' = external \cup Span(p, k.size)
         /\ Set(t, [Idle EXCEPT !.call = k, !.at = "meta", !.lo = p, !.n = k.size, !.ask = k.size])
  BY DEF ManageOsMemory
<1> DEFINE c == [Idle EXCEPT !.call = k, !.at = "meta", !.lo = p, !.n = k.size, !.ask = k.size]
<1>3. k.size \in Nat /\ k.size > 0 /\ k.size <= Pages /\ k.size \in 0..Pages
  BY CallIs, Fixed
<1>4. p \in Fits(k.size) /\ \E b \in BOOLEAN : mem' = Map(p, k.size, b)
  BY <1>2, PlacesFit
<1>5. /\ mem' \in [Page -> {"free", "none", "rw"}] /\ Span(p, k.size) \subseteq Page
      /\ p \in Nat /\ p + k.size <= Pages
      /\ \A q \in Span(p, k.size) : mem[q] = "free" /\ mem'[q] # "free"
      /\ \A q \in Page : q \notin Span(p, k.size) => mem'[q] = mem[q]
  BY <1>1, <1>3, <1>4, MapIs
<1>6. c \in Control
  <2>1. "meta" \in Label
    BY DEF Label
  <2> QED BY <1>3, <1>5, <2>1, IdleIs DEF Control
<1>7. /\ c.at = "meta" /\ c.call = k /\ c.lo = p /\ c.n = k.size /\ c.ask = k.size
      /\ c.ext = {} /\ c.stray = NoPage /\ c.meta = NoPage /\ c.stage = "table"
  BY IdleIs DEF Control
<1>8. Set(t, c)
  BY <1>2
<1> HIDE DEF c
<1>9. Area1(c) /\ ~Direct(c) /\ c.at \in AreaAt
  BY <1>1, <1>2, <1>3, <1>5, <1>7 DEF Area1, AreaAt, Direct
<1>10. Placed(c) /\ RealIn(mem', c) /\ Hand(c) = {} /\ Given(c) = Span(p, k.size)
  BY <1>1, <1>6, <1>7, <1>9, AreaPlaced
<1>11. Held(c) = {} /\ Once(c) /\ Once(pc[t])
  BY <1>1, <1>7, <1>10, HugePlain, IdleHolds
<1>12. ASSUME NEW q \in Span(p, k.size) PROVE q \in Page /\ q \notin external /\ q \notin Held(pc[t])
  <2>1. q \in Page /\ mem[q] = "free"
    BY <1>5
  <2>2. ~InWorld(q)
    BY <2>1, FreePage DEF IInv
  <2> QED BY <1>1, <2>1, <2>2 DEF InWorld
<1>13. Writes(t, c)
  <2> SUFFICES ASSUME NEW q \in Page
               PROVE  /\ mem'[q] # mem[q] => mem[q] = "free" \/ Holding(pc[t], q)
                      /\ One(mem'[q] # "free") - One(mem[q] # "free")
                         = Load(c, q) - Load(pc[t], q) + One(q \in external') - One(q \in external)
    BY DEF Writes
  <2> DEFINE x == One(mem[q] # "free")
             x1 == One(mem'[q] # "free")
             y == One(q \in external)
             y1 == One(q \in external')
  <2>1. Load(c, q) = 0 /\ Load(pc[t], q) = 0
    BY <1>1, <1>11, OnceLoad DEF One
  <2>2. mem'[q] # mem[q] => mem[q] = "free"
    BY <1>5
  <2>3. x \in Nat /\ x1 \in Nat /\ y \in Nat /\ y1 \in Nat
    BY OneIs
  <2>4. x1 - x = y1 - y
    <3>1. CASE q \in Span(p, k.size)
      <4>1. x1 = 1 /\ x = 0 /\ y1 = 1 /\ y = 0
        BY <1>2, <1>5, <1>12, <3>1 DEF One
      <4> QED BY <4>1
    <3>2. CASE q \notin Span(p, k.size)
      <4>1. mem'[q] = mem[q] /\ (q \in external' <=> q \in external)
        BY <1>2, <1>5, <3>2
      <4>2. x1 = x /\ y1 = y
        BY <4>1 DEF One
      <4> QED BY <2>3, <4>2
    <3> QED BY <3>1, <3>2
  <2> HIDE DEF x, x1, y, y1
  <2>5. x1 - x = Load(c, q) - Load(pc[t], q) + y1 - y
    BY <2>1, <2>3, <2>4
  <2> QED BY <2>2, <2>5 DEF x, x1, y, y1
<1>14. external \subseteq Page /\ hugeStart % Block = 0 /\ tryOk \in 0..Retry /\ hugeStart \in Nat
  BY <1>1 DEF TypeOK, IInv
<1>15. Claims(t, c)
  BY <1>2, <1>5, <1>10, <1>12, <1>14 DEF Claims
<1>16. Moves(t, c)
  BY <1>1, <1>5, <1>6, <1>8, <1>14 DEF Moves, Set
<1>17. Settled(c)
  BY <1>7, <1>10 DEF Settled
<1>18. Quiet(t, c)
  BY <1>1, <1>7, <1>13, <1>15, <1>16, <1>17 DEF Quiet
<1> QED BY <1>18, QuietInv

-----------------------------------------------------------------------------
(* Steps that change the table, the map or the segments, but no memory.    *)

LiveCount(q) == Cardinality({e \in live : q \in Extents(e)})
AreaCount(q) == Cardinality({i \in Used : q \in Area0(i)})
MetaCount(q) == Cardinality({i \in Used : q = arenas[i].meta /\ ~ended})

LEMMA WorldParts ==
  IsFiniteSet(live) => \A q :
    /\ LiveCount(q) \in Nat /\ AreaCount(q) \in Nat /\ MetaCount(q) \in Nat
    /\ World(q) = LiveCount(q) + AreaCount(q) + MetaCount(q) + One(q \in external) + One(q \in lost)
<1> SUFFICES ASSUME IsFiniteSet(live), NEW q
             PROVE  /\ LiveCount(q) \in Nat /\ AreaCount(q) \in Nat /\ MetaCount(q) \in Nat
                    /\ World(q) = LiveCount(q) + AreaCount(q) + MetaCount(q) + One(q \in external)
                                  + One(q \in lost)
  OBVIOUS
<1>1. /\ IsFiniteSet({e \in live : q \in Extents(e)})
      /\ IsFiniteSet({i \in Used : q \in Area0(i)})
      /\ IsFiniteSet({i \in Used : q = arenas[i].meta /\ ~ended})
  BY SetsFinite
<1>2. LiveCount(q) \in Nat /\ AreaCount(q) \in Nat /\ MetaCount(q) \in Nat
  BY <1>1, FS_CardinalityType DEF LiveCount, AreaCount, MetaCount
<1>3. World(q) = LiveCount(q) + AreaCount(q) + MetaCount(q) + One(q \in external) + One(q \in lost)
  BY DEF World, LiveCount, AreaCount, MetaCount
<1> QED BY <1>2, <1>3

\* The count of a page after a step of thread t.
Recounted(t, c, q) ==
  One(mem'[q] # "free") - One(mem[q] # "free")
  = (World(q)' - World(q)) + (Load(c, q) - Load(pc[t], q))

LEMMA CountedInv ==
  ASSUME IInv, NEW t \in Thread, NEW c, pc' = [pc EXCEPT ![t] = c], TypeOK', IsFiniteSet(live)',
         \A q \in Page : Recounted(t, c, q)
  PROVE  Accounted'
<1>1. TypeOK /\ IsFiniteSet(live) /\ \A q \in Page : Holds(q) = One(mem[q] # "free")
  BY DEF IInv, Accounted
<1>2. \A q : World(q)' \in Nat /\ Holds(q)' = World(q)' + Threads(q)'
  <2>1. (\A q : World(q) \in Nat /\ Holds(q) = World(q) + Threads(q))'
    BY HoldsAre, PTL
  <2> QED BY <2>1
<1>3. ASSUME NEW q \in Page PROVE Holds(q)' = One(mem'[q] # "free")
  <2> DEFINE x == One(mem[q] # "free")
             x1 == One(mem'[q] # "free")
             w == World(q)
             w1 == World(q)'
             l == Load(pc[t], q)
             l1 == Load(c, q)
  <2>1. pc \in [Thread -> Control]
    BY <1>1 DEF TypeOK
  <2>2. /\ Threads(q) \in Nat /\ Threads(q)' \in Nat /\ l \in Nat /\ l1 \in Nat
        /\ Threads(q)' = Threads(q) - l + l1
    BY <2>1, LoadChange
  <2>3. w \in Nat /\ Holds(q) = w + Threads(q)
    BY <1>1, HoldsIs
  <2>4. w1 \in Nat /\ Holds(q)' = w1 + Threads(q)'
    BY <1>2
  <2>5. x1 - x = (w1 - w) + (l1 - l)
    BY DEF Recounted
  <2>6. x1 \in Nat /\ x \in Nat
    BY OneIs
  <2>7. Holds(q) = x
    BY <1>1
  <2> HIDE DEF x, x1, w, w1, l, l1
  <2>8. Holds(q)' = x1
    BY <2>2, <2>3, <2>4, <2>5, <2>6, <2>7
  <2> QED BY <2>8 DEF x1
<1> QED BY <1>3 DEF Accounted

\* The arenas stay what they are, but for their blocks in use.
Areas1 ==
  /\ Used' = Used
  /\ \A i \in Used : /\ arenas'[i].start = arenas[i].start /\ arenas'[i].size = arenas[i].size
                     /\ arenas'[i].meta = arenas[i].meta

LEMMA AreasKept ==
  ASSUME Areas1, ended' = ended
  PROVE  /\ \A q : AreaCount(q)' = AreaCount(q) /\ MetaCount(q)' = MetaCount(q)
         /\ \A i \in Used : Area0(i)' = Area0(i)
<1>1. \A i \in Used : Area0(i)' = Area0(i)
  BY DEF Area0, Area, Areas1
<1>2. ASSUME NEW q PROVE AreaCount(q)' = AreaCount(q) /\ MetaCount(q)' = MetaCount(q)
  <2>1. {i \in Used' : q \in Area0(i)'} = {i \in Used : q \in Area0(i)}
    BY <1>1 DEF Areas1
  <2>2. {i \in Used' : q = arenas'[i].meta /\ ~ended'} = {i \in Used : q = arenas[i].meta /\ ~ended}
    BY DEF Areas1
  <2> QED BY <2>1, <2>2 DEF AreaCount, MetaCount
<1> QED BY <1>1, <1>2

LEMMA WorldKept ==
  ASSUME IInv, Areas1, UNCHANGED <<live, external, lost, ended>>
  PROVE  \A q : World(q)' = World(q)
<1>1. IsFiniteSet(live) /\ IsFiniteSet(live)'
  BY DEF IInv
<1>2. \A q : World(q) = LiveCount(q) + AreaCount(q) + MetaCount(q) + One(q \in external) + One(q \in lost)
  BY <1>1, WorldParts
<1>3. (\A q : /\ LiveCount(q) \in Nat /\ AreaCount(q) \in Nat /\ MetaCount(q) \in Nat
              /\ World(q) = LiveCount(q) + AreaCount(q) + MetaCount(q) + One(q \in external)
                            + One(q \in lost))'
  BY <1>1, WorldParts, PTL
<1>4. \A q : LiveCount(q)' = LiveCount(q)
  BY DEF LiveCount, Extents, OsExtent
<1>5. \A q : AreaCount(q)' = AreaCount(q) /\ MetaCount(q)' = MetaCount(q)
  BY AreasKept
<1> QED BY <1>2, <1>3, <1>4, <1>5

\* A segment is entered or taken out.
LEMMA WorldLive ==
  ASSUME IInv, NEW e, live' \ {e} = live \ {e}, UNCHANGED <<arenas, external, lost, ended>>
  PROVE  /\ IsFiniteSet(live)'
         /\ \A q : World(q)' - World(q)
                   = One(e \in live' /\ q \in Extents(e)) - One(e \in live /\ q \in Extents(e))
<1>1. IsFiniteSet(live)
  BY DEF IInv
<1>2. IsFiniteSet(live)'
  <2>1. live \ {e} = live' \ {e}
    OBVIOUS
  <2> QED BY <1>1, <2>1, Recount
<1>4. (\A q : /\ LiveCount(q) \in Nat /\ AreaCount(q) \in Nat /\ MetaCount(q) \in Nat
              /\ World(q) = LiveCount(q) + AreaCount(q) + MetaCount(q) + One(q \in external)
                            + One(q \in lost))'
  BY <1>2, WorldParts, PTL
<1>3. ASSUME NEW q
      PROVE  World(q)' - World(q)
             = One(e \in live' /\ q \in Extents(e)) - One(e \in live /\ q \in Extents(e))
  <2> DEFINE A == {x \in live : q \in Extents(x)}
             B == {x \in live' : q \in Extents(x)}
  <2>1. A \ {e} = B \ {e}
    OBVIOUS
  <2>2. IsFiniteSet(A)
    BY <1>1, SetsFinite
  <2>3. Cardinality(A) \in Nat /\ Cardinality(B) = Cardinality(A) - One(e \in A) + One(e \in B)
    BY <2>1, <2>2, Recount
  <2>4. (e \in A <=> e \in live /\ q \in Extents(e)) /\ (e \in B <=> e \in live' /\ q \in Extents(e))
    OBVIOUS
  <2>5. LiveCount(q) = Cardinality(A) /\ LiveCount(q)' = Cardinality(B)
    BY DEF LiveCount, Extents, OsExtent
  <2> DEFINE a == One(e \in A)
             b == One(e \in B)
             n == Cardinality(A)
             m == Cardinality(B)
  <2>6. a = One(e \in live /\ q \in Extents(e)) /\ b = One(e \in live' /\ q \in Extents(e))
    BY <2>4 DEF One
  <2>7. a \in Nat /\ b \in Nat
    BY OneIs
  <2>8. World(q) = LiveCount(q) + AreaCount(q) + MetaCount(q) + One(q \in external) + One(q \in lost)
        /\ AreaCount(q) \in Nat /\ MetaCount(q) \in Nat
    BY <1>1, WorldParts
  <2>9. World(q)' = LiveCount(q)' + AreaCount(q)' + MetaCount(q)' + One(q \in external') + One(q \in lost')
    BY <1>4
  <2>10. AreaCount(q)' = AreaCount(q) /\ MetaCount(q)' = MetaCount(q)
    BY AreasKept DEF Areas1, Used
  <2>11. One(q \in external) \in Nat /\ One(q \in lost) \in Nat
    BY OneIs
  <2>12. World(q)' = m + AreaCount(q) + MetaCount(q) + One(q \in external) + One(q \in lost)
    BY <2>5, <2>9, <2>10
  <2>13. World(q) = n + AreaCount(q) + MetaCount(q) + One(q \in external) + One(q \in lost)
    BY <2>5, <2>8
  <2>14. n \in Nat /\ m = n - a + b
    BY <2>3
  <2> HIDE DEF a, b, n, m
  <2>15. World(q)' - World(q) = b - a
    BY <2>7, <2>8, <2>11, <2>12, <2>13, <2>14
  <2> QED BY <2>6, <2>15
<1> QED BY <1>2, <1>3

LEMMA MemoryNext ==
  ASSUME NEW D, pc \in [Thread -> D], NEW t \in Thread, NEW c, pc' = [pc EXCEPT ![t] = c]
  PROVE  Memory' = live' \cup c.ext \cup UNION {pc[u].ext : u \in Thread \ {t}}
<1>1. pc'[t] = c /\ \A u \in Thread \ {t} : pc'[u] = pc[u]
  OBVIOUS
<1>2. ASSUME NEW x PROVE x \in Memory' <=> x \in live' \/ x \in c.ext \/ \E u \in Thread \ {t} : x \in pc[u].ext
  <2>1. x \in Memory' <=> x \in live' \/ \E u \in Thread : x \in pc'[u].ext
    BY DEF Memory
  <2>2. (\E u \in Thread : x \in pc'[u].ext) <=> x \in c.ext \/ \E u \in Thread \ {t} : x \in pc[u].ext
    BY <1>1
  <2> QED BY <2>1, <2>2
<1> QED BY <1>2

\* A step of thread t that changes no memory.
TableStep(t, c) ==
  /\ ~ended /\ ended' = ended /\ mem' = mem /\ c \in Control /\ pc' = [pc EXCEPT ![t] = c]
  /\ UNCHANGED <<tryOk, hugeStart, calls>>
  /\ arenas' \in [Index -> ArenaOf \cup {NoArena}]
  /\ count' \in 0..(MaxArenas + Cardinality(Thread))
  /\ live' \subseteq ExtentOf /\ IsFiniteSet(live') /\ map' = {e.p \div Block : e \in live'}
  /\ external' \subseteq Page /\ lost' \subseteq Page

\* What it has then is sound, and so are the arenas.
TableFine(t, c) ==
  /\ Placed(c) /\ RealIn(mem, c) /\ Given(c) \subseteq external'
  /\ \A u \in Thread \ {t} : Given(pc[u]) \subseteq external' /\ Given(c) \cap Given(pc[u]) = {}
  /\ \A e \in Memory' : e \in Memory \/ (Sound(e) /\ e.committed = {})
  /\ \A i \in Used' : mem[arenas'[i].meta] = "rw"

LEMMA TableStepInv ==
  ASSUME IInv, NEW t \in Thread, NEW c, TableStep(t, c), TableFine(t, c),
         \A q \in Page : World(q)' - World(q) = Load(pc[t], q) - Load(c, q),
         TableSound', Apart', AreasFine', Indices'
  PROVE  IInv'
<1>1. /\ TypeOK /\ Accessible /\ ~ended /\ pc \in [Thread -> Control] /\ pc' = [pc EXCEPT ![t] = c]
      /\ mem' = mem /\ ended' = ended
  BY ThreadIs DEF IInv, TableStep
<1>2. map' \subseteq 0..(Pages \div Block)
  <2> SUFFICES ASSUME NEW e \in live' PROVE e.p \div Block \in 0..(Pages \div Block)
    BY DEF TableStep
  <2> DEFINE p == e.p
  <2>1. p \in Nat /\ p <= Pages
    BY Fixed DEF TableStep, ExtentOf, Page
  <2> HIDE DEF p
  <2>2. p \in Int /\ 0 \in Int /\ Pages \in Int /\ Block \in Nat /\ Block > 0 /\ 0 <= p
    BY <2>1, Fixed
  <2>3. 0 \div Block <= p \div Block /\ p \div Block <= Pages \div Block
    BY <2>1, <2>2, QuotientGrows
  <2>4. 0 \div Block = 0
    BY <2>2, Quotient
  <2>5. p \div Block \in Int /\ Pages \div Block \in Int
    BY <2>2, Euclid
  <2>6. p \div Block \in 0..(Pages \div Block)
    BY <2>3, <2>4, <2>5
  <2> QED BY <2>6 DEF p
<1>3. TypeOK'
  BY <1>1, <1>2 DEF TypeOK, TableStep
<1>4. IsFiniteSet(live)'
  BY DEF TableStep
<1>11. \A q : World(q)' \in Nat
  <2>1. (\A q : World(q) \in Nat /\ Holds(q) = World(q) + Threads(q))'
    BY <1>4, HoldsAre, PTL
  <2> QED BY <2>1
<1>5. \A q \in Page : Recounted(t, c, q)
  <2> SUFFICES ASSUME NEW q \in Page PROVE Recounted(t, c, q)
    OBVIOUS
  <2> DEFINE w == World(q)
             w1 == World(q)'
             l == Load(pc[t], q)
             l1 == Load(c, q)
             x == One(mem[q] # "free")
  <2>1. w1 - w = l - l1
    OBVIOUS
  <2>2. l \in Nat /\ l1 \in Nat /\ x \in Nat
    BY LoadIs, OneIs
  <2>3. One(mem'[q] # "free") = x
    BY <1>1
  <2>4. w \in Nat
    BY HoldsIs DEF IInv
  <2>5. w1 \in Nat
    BY <1>11
  <2> HIDE DEF w, w1, l, l1, x
  <2>6. x - x = (w1 - w) + (l1 - l)
    BY <2>1, <2>2, <2>4, <2>5
  <2> QED BY <2>3, <2>6 DEF Recounted, w, w1, l, l1, x
<1>6. Accounted'
  BY <1>1, <1>3, <1>4, <1>5, CountedInv
<1>7. ThreadsFine'
  <2>1. RealIn(mem', c)
    BY <1>1 DEF TableFine
  <2> QED BY <1>1, <2>1, FineNext DEF TableFine
<1>8. Accessible'
  <2>1. ASSUME NEW e \in Memory'
        PROVE  e.committed \subseteq Span(e.p, e.size) /\ \A q \in e.committed : mem'[q] = "rw"
    BY <1>1, <2>1 DEF TableFine, Accessible, Memory
  <2>2. \A i \in Used' : mem'[arenas'[i].meta] = "rw"
    BY <1>1 DEF TableFine
  <2> QED BY <1>1, <2>1, <2>2 DEF Accessible, Memory
<1>9. MemoryFine'
  <2>1. \A e \in Memory' : Sound(e)
    BY DEF TableFine, IInv
  <2>2. hugeStart' % Block = 0
    BY DEF IInv, TableStep
  <2> QED BY <1>1, <1>4, <2>1, <2>2 DEF MemoryFine, Sound, TableStep
<1>10. (~ended => Indices)'
  OBVIOUS
<1> QED BY <1>6, <1>7, <1>8, <1>9, <1>10, Parted, PTL

\* The table after a step.
LEMMA TableNext ==
  (\A i \in Index : TableAt(i)) /\ Counted => TableSound
BY TableIs

LEMMA TenantsAre == \A i : Tenants(i) = {e \in Memory : e.id = i + 1}
BY DEF Tenants, Memory

\* No thread takes an index or gives one back.
LEMMA CountsKept ==
  ASSUME IInv, NEW t \in Thread, NEW c, ~ended, pc' = [pc EXCEPT ![t] = c],
         Used' = Used, count' = count, {pc[t].at, c.at} \cap {"store", "retreat"} = {}
  PROVE  Counted' /\ Indices'
<1>1. pc \in [Thread -> Control] /\ TableSound /\ Indices
  BY ThreadIs DEF IInv
<1>2. pc'[t] = c /\ \A u \in Thread \ {t} : pc'[u] = pc[u]
  BY <1>1
<1>3. \A u \in Thread : pc'[u].at \in {"store", "retreat"} <=> pc[u].at \in {"store", "retreat"}
  BY <1>2
<1>4. {u \in Thread : pc'[u].at \in {"store", "retreat"}} = {u \in Thread : pc[u].at \in {"store", "retreat"}}
  BY <1>3
<1>5. Counted'
  BY <1>1, <1>4, TableIs DEF Counted
<1>6. Storing' = Storing /\ Retreating' = Retreating /\ \A u \in Storing : pc'[u] = pc[u]
  BY <1>2 DEF Storing, Retreating
<1>7. Indices'
  BY <1>1, <1>6 DEF Indices
<1> QED BY <1>5, <1>7

\* No segment gets memory and none gives it back.
LEMMA TablesKept ==
  ASSUME IInv, ~ended, Memory' = Memory, arenas' = arenas
  PROVE  \A i \in Index : TableAt(i)'
<1>3. (\A i : Tenants(i) = {e \in Memory : e.id = i + 1})'
  BY TenantsAre, PTL
<1> SUFFICES ASSUME NEW i \in Index PROVE TableAt(i)'
  OBVIOUS
<1>1. TableAt(i)
  BY TableIs DEF IInv
<1>2. Tenants(i) = {e \in Memory : e.id = i + 1}
  BY TenantsAre
<1>4. Tenants(i)' = Tenants(i)
  BY <1>2, <1>3
<1> QED BY <1>1, <1>4 DEF TableAt

\* What a thread has in hand is not yet, or no more, a segment, and no other thread has it.
LEMMA ExtNotLive ==
  ASSUME IInv, ~ended, NEW t \in Thread, NEW e \in pc[t].ext
  PROVE  e \notin live /\ \A u \in Thread \ {t} : e \notin pc[u].ext
<1>1. TypeOK /\ e \in Memory /\ Sound(e) /\ Accounted /\ IsFiniteSet(live)
  BY DEF IInv, Accounted, Memory
<1>2. CASE e.id = 0
  <2>1. e \in ExtentOf
    BY <1>1, ExtentIs
  <2>2. e.base \in Extents(e) /\ e.base \in Page
    BY <1>1, <1>2, <2>1, OsSpan, ExtentIs
  <2>3. Holding(pc[t], e.base)
    BY <2>2 DEF Holding, InHand
  <2>4. ~InWorld(e.base) /\ \A u \in Thread \ {t} : ~Holding(pc[u], e.base)
    BY <1>1, <2>2, <2>3, Holders
  <2> QED BY <2>2, <2>4 DEF InWorld, Holding, InHand
<1>3. CASE e.id # 0
  BY <1>3 DEF IInv, Apart
<1> QED BY <1>2, <1>3

\* A segment and what another one, or a thread, has lie apart.
LEMMA SpansApart ==
  ASSUME IInv, ~ended, NEW e \in live, NEW f \in Memory, e # f
  PROVE  /\ Span(e.p, e.size) \cap Span(f.p, f.size) = {}
         /\ e.id = 0 => Extents(e) \cap Span(f.p, f.size) \cap Page = {}
<1>1. TypeOK /\ Accounted /\ IsFiniteSet(live) /\ TableSound /\ e \in Memory
  BY DEF IInv, Accounted, Memory
<1>2. ASSUME e.id = 0, NEW q \in Page, q \in Extents(e), q \in Span(f.p, f.size) PROVE FALSE
  <2>1. InWorld(q) /\ Single(q) /\ \A u \in Thread : ~Holding(pc[u], q)
    BY <1>1, <1>2, Holders DEF InWorld
  <2>2. CASE f.id = 0
    <3>1. q \in Extents(f)
      BY <1>2, <2>2, SpanHeld
    <3>2. CASE f \in live
      BY <1>2, <2>1, <3>1, <3>2 DEF Single
    <3>3. CASE \E u \in Thread : f \in pc[u].ext
      BY <2>1, <3>1, <3>3 DEF Holding, InHand
    <3> QED BY <3>2, <3>3 DEF Memory
  <2>3. CASE f.id # 0
    <3>1. f.id - 1 \in Used /\ q \in Area0(f.id - 1)
      BY <1>2, <2>3, SpanHeld
    <3> QED BY <1>2, <2>1, <3>1 DEF Single
  <2> QED BY <2>2, <2>3
<1>3. ASSUME NEW q, q \in Span(e.p, e.size), q \in Span(f.p, f.size) PROVE FALSE
  <2>1. q \in Page
    BY <1>1, <1>3, SpanHeld
  <2>2. CASE e.id = 0
    <3>1. q \in Extents(e)
      BY <1>1, <1>3, <2>2, SpanHeld
    <3> QED BY <1>2, <1>3, <2>1, <2>2, <3>1
  <2>3. CASE e.id # 0
    <3>1. e.id - 1 \in Used /\ q \in Area0(e.id - 1)
      BY <1>1, <1>3, <2>3, SpanHeld
    <3>2. InWorld(q)
      BY <3>1 DEF InWorld
    <3>3. Single(q) /\ \A u \in Thread : ~Holding(pc[u], q)
      BY <1>1, <2>1, <3>2, Holders
    <3>4. CASE f.id = 0
      <4>1. q \in Extents(f)
        BY <1>3, <3>4, SpanHeld
      <4>2. CASE f \in live
        BY <3>1, <3>3, <4>1, <4>2 DEF Single
      <4>3. CASE \E u \in Thread : f \in pc[u].ext
        BY <3>3, <4>1, <4>3 DEF Holding, InHand
      <4> QED BY <4>2, <4>3 DEF Memory
    <3>5. CASE f.id # 0
      <4>1. f.id - 1 \in Used /\ q \in Area0(f.id - 1)
        BY <1>3, <3>5, SpanHeld
      <4>2. f.id - 1 = e.id - 1
        BY <3>1, <3>3, <4>1 DEF Single
      <4> DEFINE i == e.id - 1
      <4>3. e \in Tenants(i) /\ f \in Tenants(i) /\ i \in Index
        BY <1>1, <2>3, <3>1, <3>5, <4>2, InArea DEF Used
      <4>4. arenas[i] # NoArena
        BY <3>1 DEF Used
      <4>5. Bits(arenas[i], e) \cap Bits(arenas[i], f) = {}
        BY <1>1, <4>3, <4>4 DEF TableSound
      <4>6. (q - arenas[i].start) \div Block \in Bits(arenas[i], e)
            /\ (q - arenas[i].start) \div Block \in Bits(arenas[i], f)
        BY <1>3 DEF Bits
      <4> QED BY <4>5, <4>6
    <3> QED BY <3>4, <3>5
  <2> QED BY <2>2, <2>3
<1> QED BY <1>2, <1>3

\* The arenas stay.
LEMMA AreasSame ==
  ASSUME IInv, ~ended, Areas1
  PROVE  AreasFine' /\ \A i \in Used' : mem[arenas'[i].meta] = "rw"
<1>1. Accessible /\ \A i \in Used : arenas[i].start % Block = 0 /\ Area0(i) \subseteq Page
  BY DEF IInv
<1>2. \A i \in Used : Area0(i)' = Area0(i)
  BY DEF Areas1, Area0, Area
<1>3. AreasFine'
  BY <1>1, <1>2 DEF AreasFine, Areas1
<1> QED BY <1>1, <1>3 DEF Accessible, Areas1

\* What a thread's record counts for when it carries a segment.
LEMMA CarriedLoad ==
  ASSUME IInv, NEW t \in Thread, pc[t].at \in ExtAt
  PROVE  \A q \in Page : Load(pc[t], q) = One(q \in Extents(Carried(t)))
<1>1. Held(pc[t]) = Page \cap Extents(Carried(t))
  BY CarriedIs
<1>2. \A q \in Page : Load(pc[t], q) = One(q \in Held(pc[t]))
  BY HeldOnce
<1> QED BY <1>1, <1>2 DEF One

LEMMA IdleLoad == \A q \in Page : Load(Idle, q) = 0
BY IdleHolds, OnceLoad DEF One

LEMMA EnterInv ==
  ASSUME IInv, NEW t \in Thread, Enter(t)
  PROVE  IInv'
<1> DEFINE e == Carried(t)
<1>1. /\ pc[t].at = "enter" /\ pc[t].at \in ExtAt /\ Set(t, Idle)
      /\ live' = live \cup pc[t].ext /\ map' = map \cup {x.p \div Block : x \in pc[t].ext}
      /\ UNCHANGED <<mem, tryOk, hugeStart, arenas, count, external, lost, calls, ended>>
  BY DEF Enter, ExtAt
<1>2. /\ TypeOK /\ ~ended /\ pc[t].ext = {e} /\ e \in Memory /\ e \in ExtentOf
  BY <1>1, CarriedIs
<1>3. /\ e \notin live /\ \A u \in Thread \ {t} : e \notin pc[u].ext
  BY <1>2, ExtNotLive
<1>4. /\ live' = live \cup {e} /\ map' = map \cup {e.p \div Block}
  BY <1>1, <1>2
<1> HIDE DEF e
<1>5. pc \in [Thread -> Control] /\ pc' = [pc EXCEPT ![t] = Idle]
  BY <1>1, <1>2 DEF TypeOK, Set
<1>6. Memory' = Memory
  <2>1. Memory' = live' \cup Idle.ext \cup UNION {pc[u].ext : u \in Thread \ {t}}
    BY <1>5, MemoryNext
  <2>2. Idle.ext = {}
    BY IdleIs
  <2> QED BY <1>2, <1>4, <2>1, <2>2 DEF Memory
<1>7. /\ IsFiniteSet(live)'
      /\ \A q : World(q)' - World(q) = One(e \in live' /\ q \in Extents(e)) - One(e \in live /\ q \in Extents(e))
  <2>1. live' \ {e} = live \ {e}
    BY <1>4
  <2> QED BY <1>1, <2>1, WorldLive
<1>8. ASSUME NEW q \in Page PROVE World(q)' - World(q) = Load(pc[t], q) - Load(Idle, q)
  <2>1. Load(pc[t], q) = One(q \in Extents(e)) /\ Load(Idle, q) = 0
    BY <1>1, CarriedLoad, IdleLoad DEF e
  <2>2. One(e \in live' /\ q \in Extents(e)) = One(q \in Extents(e)) /\ One(e \in live /\ q \in Extents(e)) = 0
    BY <1>3, <1>4 DEF One
  <2>3. World(q)' - World(q) = One(q \in Extents(e)) - 0
    BY <1>7, <2>2
  <2> QED BY <2>1, <2>3
<1>9. Areas1 /\ Used' = Used
  BY <1>1 DEF Areas1, Used
<1>10. AreasFine' /\ \A i \in Used' : mem[arenas'[i].meta] = "rw"
  BY <1>2, <1>9, AreasSame
<1>11. TableStep(t, Idle)
  <2>1. map = {x.p \div Block : x \in live}
    BY DEF IInv
  <2>2. map' = {x.p \div Block : x \in live'}
    BY <1>4, <2>1
  <2> QED BY <1>1, <1>2, <1>4, <1>5, <1>7, <2>2, IdleIs DEF TableStep, TypeOK
<1>12. TableFine(t, Idle)
  <2>1. \A u \in Thread : Given(pc[u]) \subseteq external'
    BY <1>1 DEF IInv
  <2> QED BY <1>6, <1>10, <2>1, IdleHolds DEF TableFine
<1>13. {pc[t].at, Idle.at} \cap {"store", "retreat"} = {}
  BY <1>1, IdleIs
<1>14. Counted' /\ Indices'
  BY <1>1, <1>2, <1>5, <1>9, <1>13, CountsKept
<1>15. TableSound'
  <2>1. \A i \in Index : TableAt(i)'
    BY <1>1, <1>2, <1>6, TablesKept
  <2>2. ((\A i \in Index : TableAt(i)) /\ Counted)'
    BY <1>14, <2>1 DEF Index
  <2> QED BY <2>2, TableNext, PTL
<1>16. Apart'
  <2>1. \A x \in live' : \A y \in live' \ {x} : Span(x.p, x.size) \cap Span(y.p, y.size) = {}
    <3>1. \A x \in live : \A y \in Memory : x # y => Span(x.p, x.size) \cap Span(y.p, y.size) = {}
      BY <1>2, SpansApart
    <3>2. \A y \in live : y \in Memory
      BY DEF Memory
    <3>3. ASSUME NEW x \in live', NEW y \in live' \ {x} PROVE Span(x.p, x.size) \cap Span(y.p, y.size) = {}
      <4>1. CASE x \in live
        <5>1. y \in Memory /\ x # y
          BY <1>2, <1>4, <3>2
        <5> QED BY <3>1, <4>1, <5>1
      <4>2. CASE x \notin live
        <5>1. x = e /\ y \in live /\ x \in Memory /\ y # x
          BY <1>2, <1>4, <4>2
        <5>2. Span(y.p, y.size) \cap Span(x.p, x.size) = {}
          BY <3>1, <5>1
        <5> QED BY <5>2
      <4> QED BY <4>1, <4>2
    <3> QED BY <3>3
  <2>2. ASSUME NEW u \in Thread, NEW x \in pc'[u].ext, x.id # 0
        PROVE  x \notin live' /\ \A v \in Thread \ {u} : x \notin pc'[v].ext
    <3>1. pc'[t] = Idle /\ \A v \in Thread \ {t} : pc'[v] = pc[v]
      BY <1>5
    <3>2. u # t /\ x \in pc[u].ext
      BY <3>1, IdleIs
    <3>3. x \notin live /\ \A v \in Thread \ {u} : x \notin pc[v].ext
      BY <1>2, <3>2, ExtNotLive
    <3> QED BY <1>3, <1>4, <3>1, <3>2, <3>3, IdleIs
  <2> QED BY <2>1, <2>2 DEF Apart
<1> QED BY <1>8, <1>10, <1>11, <1>12, <1>14, <1>15, <1>16, TableStepInv

LEMMA BeginFreeInv ==
  ASSUME IInv, NEW t \in Thread, NEW e \in live, BeginFree(t, e)
  PROVE  IInv'
<1> DEFINE c == [Idle EXCEPT !.at = "free", !.ext = {e}]
<1>1. /\ pc[t].at = "idle" /\ ~ended /\ Set(t, c)
      /\ live' = live \ {e} /\ map' = map \ {e.p \div Block}
      /\ UNCHANGED <<mem, tryOk, hugeStart, arenas, count, external, lost, calls, ended>>
  BY DEF BeginFree
<1>2. /\ TypeOK /\ pc[t] = Idle /\ e \in Memory /\ e \in ExtentOf /\ Sound(e)
  BY <1>1, ThreadIs, IdleThread DEF IInv, Memory, TypeOK
<1>3. c \in Control
  <2>1. "free" \in Label /\ {e} \in SUBSET ExtentOf
    BY <1>2 DEF Label
  <2> QED BY <2>1, IdleIs DEF Control
<1>4. c.at = "free" /\ c.ext = {e} /\ c.stray = NoPage /\ c.meta = NoPage /\ c.stage = "table"
  BY IdleIs DEF Control
<1>5. pc \in [Thread -> Control] /\ pc' = [pc EXCEPT ![t] = c]
  BY <1>1, <1>2 DEF TypeOK, Set
<1> HIDE DEF c
<1>6. /\ Placed(c) /\ Given(c) = {} /\ Once(c) /\ RealIn(mem, c) /\ Held(c) = Page \cap Extents(e)
  BY <1>3, <1>4, CarryPlaced DEF ExtAt, Direct
<1>7. Memory' = Memory
  <2>1. Memory' = live' \cup c.ext \cup UNION {pc[u].ext : u \in Thread \ {t}}
    BY <1>5, MemoryNext
  <2>2. pc[t].ext = {}
    BY <1>2, IdleIs
  <2> QED BY <1>1, <1>4, <2>1, <2>2 DEF Memory
<1>8. /\ IsFiniteSet(live)'
      /\ \A q : World(q)' - World(q) = One(e \in live' /\ q \in Extents(e)) - One(e \in live /\ q \in Extents(e))
  <2>1. live' \ {e} = live \ {e}
    BY <1>1
  <2> QED BY <1>1, <2>1, WorldLive
<1>9. ASSUME NEW q \in Page PROVE World(q)' - World(q) = Load(pc[t], q) - Load(c, q)
  <2>1. Load(c, q) = One(q \in Extents(e)) /\ Load(pc[t], q) = 0
    <3>1. Load(c, q) = One(q \in Held(c))
      BY <1>6, OnceLoad
    <3> QED BY <1>2, <1>6, <3>1, IdleLoad DEF One
  <2>2. One(e \in live' /\ q \in Extents(e)) = 0 /\ One(e \in live /\ q \in Extents(e)) = One(q \in Extents(e))
    BY <1>1 DEF One
  <2>3. World(q)' - World(q) = 0 - One(q \in Extents(e))
    BY <1>8, <2>2
  <2> QED BY <2>1, <2>3
<1>10. Areas1 /\ Used' = Used
  BY <1>1 DEF Areas1, Used
<1>11. AreasFine' /\ \A i \in Used' : mem[arenas'[i].meta] = "rw"
  BY <1>1, <1>10, AreasSame
<1>12. ASSUME NEW f \in live \ {e} PROVE f.p \div Block # e.p \div Block
  <2>1. f \in Memory /\ f.p % Block = 0 /\ e.p % Block = 0
    BY <1>2 DEF IInv, Memory, Sound
  <2>2. /\ f.p \in Nat /\ f.size \in Nat /\ f.size > 0 /\ e.p \in Nat /\ e.size \in Nat /\ e.size > 0
    BY <1>2, <2>1, ExtentIs
  <2>3. Span(e.p, e.size) \cap Span(f.p, f.size) = {}
    BY <1>1, <2>1, SpansApart
  <2>4. e.p # f.p
    <3>1. e.p \in Span(e.p, e.size) /\ f.p \in Span(f.p, f.size)
      BY <2>2 DEF Span
    <3> QED BY <2>3, <3>1
  <2> DEFINE a == e.p
             b == f.p
  <2>5. a \in Int /\ b \in Int /\ a % Block = 0 /\ b % Block = 0 /\ a # b /\ Block \in Nat /\ Block > 0
    BY <2>1, <2>2, <2>4, Fixed
  <2> HIDE DEF a, b
  <2>6. a = Block * (a \div Block) + (a % Block) /\ b = Block * (b \div Block) + (b % Block)
    BY <2>5, Euclid
  <2>7. a \div Block # b \div Block
    BY <2>5, <2>6
  <2> QED BY <2>7 DEF a, b
<1>13. TableStep(t, c)
  <2>1. map = {x.p \div Block : x \in live}
    BY DEF IInv
  <2>2. map' = {x.p \div Block : x \in live'}
    BY <1>1, <1>12, <2>1
  <2> QED BY <1>1, <1>2, <1>3, <1>5, <1>8, <2>2 DEF TableStep, TypeOK
<1>14. TableFine(t, c)
  <2>1. \A u \in Thread : Given(pc[u]) \subseteq external'
    BY <1>1 DEF IInv
  <2> QED BY <1>6, <1>7, <1>11, <2>1 DEF TableFine
<1>15. {pc[t].at, c.at} \cap {"store", "retreat"} = {}
  BY <1>1, <1>4
<1>16. Counted' /\ Indices'
  BY <1>1, <1>5, <1>10, <1>15, CountsKept
<1>17. TableSound'
  <2>1. \A i \in Index : TableAt(i)'
    BY <1>1, <1>7, TablesKept
  <2>2. ((\A i \in Index : TableAt(i)) /\ Counted)'
    BY <1>16, <2>1 DEF Index
  <2> QED BY <2>2, TableNext, PTL
<1>18. Apart'
  <2>1. \A x \in live' : \A y \in live' \ {x} : Span(x.p, x.size) \cap Span(y.p, y.size) = {}
    BY <1>1 DEF IInv, Apart
  <2>2. ASSUME NEW u \in Thread, NEW x \in pc'[u].ext, x.id # 0
        PROVE  x \notin live' /\ \A v \in Thread \ {u} : x \notin pc'[v].ext
    <3>1. pc'[t] = c /\ \A v \in Thread \ {t} : pc'[v] = pc[v]
      BY <1>5
    <3>2. CASE u = t
      <4>1. x = e
        BY <1>4, <3>1, <3>2
      <4>2. \A v \in Thread : e \notin pc[v].ext
        BY <1>1, ExtNotLive
      <4> QED BY <1>1, <3>1, <3>2, <4>1, <4>2
    <3>3. CASE u # t
      <4>1. x \in pc[u].ext
        BY <3>1, <3>3
      <4>2. x \notin live /\ \A v \in Thread \ {u} : x \notin pc[v].ext
        BY <1>1, <4>1, ExtNotLive
      <4>3. x # e
        BY <4>2
      <4> QED BY <1>1, <1>4, <3>1, <4>2, <4>3
    <3> QED BY <3>2, <3>3
  <2> QED BY <2>1, <2>2 DEF Apart
<1> QED BY <1>9, <1>11, <1>13, <1>14, <1>16, <1>17, <1>18, TableStepInv

-----------------------------------------------------------------------------
(* The blocks of an arena.                                                 *)

LEMMA QuotientIn ==
  ASSUME NEW n \in Nat, NEW b \in Nat, b > 0
  PROVE  n \div b \in 0..n
<1> DEFINE d == n \div b
           r == n % b
<1>1. d \in Int /\ r \in 0..(b - 1) /\ n = b * d + r
  BY Euclid
<1> HIDE DEF d, r
<1>2. 0 <= d
  <2>1. SUFFICES ASSUME d <= -1 PROVE FALSE
    BY <1>1
  <2>2. b * d + b <= b * 0
    BY <1>1, <2>1, Steps
  <2>3. b * d \in Int
    BY <1>1
  <2> QED BY <1>1, <2>2, <2>3
<1>3. b * d = d + (b - 1) * d
  BY <1>1
<1>4. (b - 1) * d >= 0 /\ (b - 1) * d \in Int
  BY <1>1, <1>2
<1>5. d \in 0..n
  BY <1>1, <1>2, <1>3, <1>4
<1> QED BY <1>5 DEF d

\* The blocks of a range that begins with a block.
LEMMA BlocksAre ==
  ASSUME NEW s \in Int, NEW b \in Nat, NEW n \in Nat, NEW p \in Int, p = s + b * Block
  PROVE  {(q - s) \div Block : q \in Span(p, n)} = Span(b, AlignUp(n, Block) \div Block)
<1> DEFINE k == AlignUp(n, Block) \div Block
<1>0. Block \in Nat /\ Block > 0 /\ n \in Int
  BY Fixed
<1>1. /\ AlignUp(n, Block) \in Int /\ AlignUp(n, Block) % Block = 0
      /\ n <= AlignUp(n, Block) /\ AlignUp(n, Block) < n + Block
  BY <1>0, AlignUpIs
<1>2. k \in Int /\ n <= Block * k /\ Block * k < n + Block
  <2>1. k \in Int /\ AlignUp(n, Block) = Block * k + (AlignUp(n, Block) % Block)
    BY <1>0, <1>1, Euclid
  <2> HIDE DEF k
  <2>2. Block * k \in Int
    BY <1>0, <2>1
  <2> QED BY <1>1, <2>1, <2>2
<1> HIDE DEF k
<1>3. ASSUME NEW q \in Span(p, n) PROVE (q - s) \div Block \in Span(b, k)
  <2> DEFINE r == q - p
             d == r \div Block
  <2>1. r \in Int /\ 0 <= r /\ r < n /\ q - s = r + Block * b /\ q \in Int
    BY <1>0, <1>3 DEF Span
  <2>2. d \in 0..r /\ d \in Int /\ Block * d <= r
    <3>1. r \in Nat /\ r \in Int
      BY <2>1
    <3>2. d \in Int /\ r % Block \in 0..(Block - 1) /\ r = Block * d + (r % Block)
      BY <1>0, <3>1, Euclid
    <3>3. d \in 0..r
      BY <1>0, <3>1, QuotientIn
    <3> QED BY <1>0, <3>1, <3>2, <3>3
  <2>3. (r + Block * b) \div Block = d + b
    BY <1>0, <2>1, ShiftedQuotient
  <2> HIDE DEF r, d
  <2>4. ~(k <= d)
    <3>1. SUFFICES ASSUME k <= d PROVE FALSE
      OBVIOUS
    <3>2. Block * k <= Block * d
      BY <1>0, <1>2, <2>2, <3>1
    <3>3. Block * k \in Int /\ Block * d \in Int
      BY <1>0, <1>2, <2>2
    <3> QED BY <1>2, <2>1, <2>2, <3>2, <3>3
  <2>5. d + b \in b..(b + k - 1)
    BY <1>2, <2>2, <2>4
  <2> QED BY <2>1, <2>3, <2>5 DEF Span
<1>4. ASSUME NEW x \in Span(b, k) PROVE \E q \in Span(p, n) : x = (q - s) \div Block
  <2> DEFINE j == x - b
             q == p + Block * j
  <2>1. j \in Int /\ 0 <= j /\ j < k /\ x = j + b
    BY <1>2, <1>4 DEF Span
  <2> HIDE DEF j
  <2>2. Block * j + Block <= Block * k
    BY <1>0, <1>2, <2>1, Steps
  <2>3. 0 <= Block * j /\ Block * j \in Int /\ Block * k \in Int
    BY <1>0, <1>2, <2>1
  <2>4. q \in Span(p, n)
    BY <1>0, <1>2, <2>2, <2>3 DEF Span
  <2>5. q - s = Block * x /\ q - s \in Int /\ x \in Int
    BY <1>0, <2>1, <2>3
  <2>6. (q - s) \div Block = x
    BY <1>0, <2>5, Quotient
  <2> QED BY <2>4, <2>6
<1> QED BY <1>3, <1>4 DEF k

\* Where the search finds blocks they fit, and so does the memory of the segment.
LEMMA RunFits ==
  ASSUME NEW a \in ArenaOf, Area(a) \subseteq Page, NEW n \in Nat, n > 0,
         NEW k, k = AlignUp(n, Block) \div Block, NEW b \in Runs(a, k),
         NEW p, p = a.start + b * Block
  PROVE  /\ p \in Page /\ p + n <= Pages
         /\ \A e : e.p = p /\ e.size = n => Bits(a, e) = Span(b, k)
         /\ Span(b, k) \subseteq 0..(BlockCount(a) - 1) /\ Span(b, k) \subseteq 0..Pages
         /\ Span(b, k) \cap a.inuse = {} /\ Span(b, k) # {}
         /\ a.start % Block = 0 => p % Block = 0
<1> DEFINE s == a.start
           m == a.size
           h == BlockCount(a)
<1>0. Block \in Nat /\ Block > 0 /\ n \in Int /\ Pages \in Nat
  BY Fixed
<1>1. s \in Nat /\ m \in Nat /\ m > 0 /\ m <= Pages
  BY Fixed DEF ArenaOf, Page
<1>2. h \in Int /\ h = m \div Block /\ h \in 0..m
  BY <1>0, <1>1, QuotientIn DEF BlockCount
<1>3. b \in 0..(h - k) /\ Span(b, k) \cap a.inuse = {}
  BY DEF Runs
<1>4. k \in Int /\ k > 0
  <2>1. AlignUp(n, Block) \in Int /\ AlignUp(n, Block) % Block = 0 /\ n <= AlignUp(n, Block)
    BY <1>0, AlignUpIs
  <2>2. k \in Int /\ AlignUp(n, Block) = Block * k + (AlignUp(n, Block) % Block)
    BY <1>0, <2>1, Euclid
  <2>3. Block * k > 0
    BY <1>0, <2>1, <2>2
  <2>4. ~(k <= 0)
    BY <1>0, <2>2, <2>3
  <2> QED BY <2>2, <2>4
<1>5. Area(a) = Span(s, m)
  BY DEF Area
<1> HIDE DEF s, m, h
<1>6. b \in Nat /\ b + k <= h
  BY <1>2, <1>3, <1>4
<1>7. Span(b, k) \subseteq 0..(h - 1) /\ Span(b, k) \subseteq 0..Pages /\ b \in Span(b, k)
  BY <1>0, <1>1, <1>2, <1>4, <1>6 DEF Span
<1>8. p = s + b * Block /\ p \in Int
  BY <1>0, <1>1, <1>6 DEF s
<1>9. {(q - s) \div Block : q \in Span(p, n)} = Span(b, k)
  BY <1>1, <1>6, <1>8, BlocksAre
<1>10. ASSUME NEW e, e.p = p, e.size = n PROVE Bits(a, e) = Span(b, k)
  BY <1>9, <1>10 DEF Bits, s
<1>11. ASSUME NEW q \in Span(p, n) PROVE q \in Page
  <2>1. (q - s) \div Block \in Span(b, k) /\ q \in Int
    BY <1>8, <1>9 DEF Span
  <2>2. (q - s) \div Block \in 0..((m \div Block) - 1)
    BY <1>2, <1>7, <2>1
  <2>3. q \in Span(s, m)
    BY <1>1, <2>1, <2>2, BlocksIn
  <2> QED BY <1>5, <2>3
<1>12. p \in Page /\ p + n <= Pages
  <2>1. p \in Span(p, n) /\ p + n - 1 \in Span(p, n)
    BY <1>0, <1>8 DEF Span
  <2>2. p \in Page /\ p + n - 1 \in Page
    BY <1>11, <2>1
  <2> QED BY <1>0, <1>8, <2>2 DEF Page
<1>13. s % Block = 0 => p % Block = 0
  <2> SUFFICES ASSUME s % Block = 0 PROVE p % Block = 0
    OBVIOUS
  <2> DEFINE x == b * Block
  <2>1. x = Block * b /\ x \in Int /\ b \in Int /\ s \in Int /\ p = s + x
    BY <1>0, <1>1, <1>6, <1>8
  <2> HIDE DEF x
  <2>2. x % Block = 0
    BY <1>0, <2>1, Multiple
  <2>3. (s + x) % Block = 0
    BY <1>0, <2>1, <2>2, MultiplesAdd
  <2> QED BY <2>1, <2>3
<1> QED BY <1>3, <1>7, <1>10, <1>12, <1>13 DEF h, s

\* The next arena to try.
LEMMA NextArenaInv ==
  ASSUME IInv, NEW t \in Thread, pc[t].at = "try", Set(t, NextArena(t)),
         UNCHANGED <<mem, tryOk, hugeStart, tableVars>>
  PROVE  IInv'
<1> DEFINE d == pc[t]
           a == [d EXCEPT !.i = d.i + 1]
           f == [d EXCEPT !.at = "fallback"]
           r == [d EXCEPT !.at = "reserve"]
           n == [d EXCEPT !.i = 0, !.near = FALSE]
<1>1. d \in Control /\ d.at = "try" /\ d.i \in Nat /\ d.max \in 0..(MaxArenas + Cardinality(Thread))
  BY LooksIs, Fixed DEF Control
<1>2. "reserve" \in Label /\ "try" \in Label /\ "fallback" \in Label /\ 0 \in 0..(MaxArenas + Cardinality(Thread))
  BY Fixed DEF Label
<1>4. \A c \in Control : /\ Set(t, c) /\ c.at \in {"try", "reserve", "fallback"} /\ c.call = d.call
                         /\ c.stage = d.stage /\ c.ext = d.ext /\ c.stray = d.stray /\ c.meta = d.meta
                         => IInv'
  BY <1>1, LooksInv
<1>5. CASE Set(t, r)
  <2>1. r \in Control
    BY <1>1, <1>2 DEF Control
  <2>2. r.at = "reserve" /\ r.call = d.call /\ r.stage = d.stage /\ r.ext = d.ext /\ r.stray = d.stray /\ r.meta = d.meta
    BY <1>1, <2>1 DEF Control
  <2> HIDE DEF r
  <2> QED BY <1>4, <1>5, <2>1, <2>2
<1>6. CASE Set(t, f)
  <2>1. f \in Control
    BY <1>1, <1>2 DEF Control
  <2>2. f.at = "fallback" /\ f.call = d.call /\ f.stage = d.stage /\ f.ext = d.ext /\ f.stray = d.stray /\ f.meta = d.meta
    BY <1>1, <2>1 DEF Control
  <2> HIDE DEF f
  <2> QED BY <1>4, <1>6, <2>1, <2>2
<1>7. CASE Set(t, a) /\ d.i + 1 < d.max
  <2>0. d.i + 1 \in 0..(MaxArenas + Cardinality(Thread))
    BY <1>1, <1>7, Fixed
  <2>1. a \in Control
    BY <1>1, <1>2, <2>0 DEF Control
  <2>2. a.at = "try" /\ a.call = d.call /\ a.stage = d.stage /\ a.ext = d.ext /\ a.stray = d.stray /\ a.meta = d.meta
    BY <1>1, <2>1 DEF Control
  <2> HIDE DEF a
  <2> QED BY <1>4, <1>7, <2>1, <2>2
<1>8. CASE Set(t, n)
  <2>1. n \in Control
    BY <1>1, <1>2 DEF Control
  <2>2. n.at = "try" /\ n.call = d.call /\ n.stage = d.stage /\ n.ext = d.ext /\ n.stray = d.stray /\ n.meta = d.meta
    BY <1>1, <2>1 DEF Control
  <2> HIDE DEF n
  <2> QED BY <1>4, <1>8, <2>1, <2>2
<1>9. Set(t, r) \/ Set(t, f) \/ (Set(t, a) /\ d.i + 1 < d.max) \/ Set(t, n)
  <2> DEFINE x == NextArena(t)
  <2>1. x = r \/ x = f \/ (x = a /\ d.i + 1 < d.max) \/ x = n
    BY DEF NextArena
  <2>2. Set(t, x)
    OBVIOUS
  <2> HIDE DEF x, r, f, a, n
  <2> QED BY <2>1, <2>2
<1> QED BY <1>5, <1>6, <1>7, <1>8, <1>9

LEMMA TableAfter ==
  ASSUME \A j \in Index : TableAt(j)', Counted'
  PROVE  TableSound'
<1>1. ((\A i \in Index : TableAt(i)) /\ Counted)'
  BY DEF Index
<1> QED BY <1>1, TableNext, PTL

LEMMA TenantsAfter == \A j : Tenants(j)' = {x \in Memory' : x.id = j + 1}
<1>1. (\A i : Tenants(i) = {e \in Memory : e.id = i + 1})'
  BY TenantsAre, PTL
<1> QED BY <1>1

\* One arena gets a segment more, or less: e.
LEMMA TenantsNext ==
  ASSUME NEW e, Memory' \ {e} = Memory \ {e}, NEW i
  PROVE  /\ \A x : x # e => (x \in Tenants(i)' <=> x \in Tenants(i))
         /\ e \in Tenants(i)' <=> e \in Memory' /\ e.id = i + 1
         /\ e.id # i + 1 => Tenants(i)' = Tenants(i)
<1>1. Tenants(i) = {x \in Memory : x.id = i + 1} /\ Tenants(i)' = {x \in Memory' : x.id = i + 1}
  BY TenantsAre, TenantsAfter
<1>2. \A x : x # e => (x \in Memory' <=> x \in Memory)
  OBVIOUS
<1>3. \A x : x # e => (x \in Tenants(i)' <=> x \in Tenants(i))
  BY <1>1, <1>2
<1>4. e.id # i + 1 => e \notin Tenants(i) /\ e \notin Tenants(i)'
  BY <1>1
<1>5. e.id # i + 1 => Tenants(i)' = Tenants(i)
  BY <1>3, <1>4
<1> QED BY <1>1, <1>3, <1>5

\* The blocks in use, one by one.
LEMMA UnionIs ==
  ASSUME NEW S, NEW a, NEW T
  PROVE  S = UNION {Bits(a, x) : x \in T} <=> \A z : z \in S <=> \E x \in T : z \in Bits(a, x)
<1> DEFINE U == UNION {Bits(a, x) : x \in T}
<1>1. \A z : z \in U <=> \E x \in T : z \in Bits(a, x)
  OBVIOUS
<1> HIDE DEF U
<1>2. S = U <=> \A z : z \in S <=> z \in U
  OBVIOUS
<1>3. S = U <=> \A z : z \in S <=> \E x \in T : z \in Bits(a, x)
  BY <1>1, <1>2
<1> QED BY <1>3 DEF U

\* An arena whose bits in use change, and nothing else.
OnlyBits(a, a1, inuse) ==
  /\ a # NoArena /\ a1 # NoArena
  /\ a1.start = a.start /\ a1.size = a.size /\ a1.exclusive = a.exclusive
  /\ a1.inuse = inuse

LEMMA SameBits ==
  ASSUME NEW a, NEW a1, NEW s, OnlyBits(a, a1, s)
  PROVE  (\A x : Bits(a1, x) = Bits(a, x)) /\ BlockCount(a1) = BlockCount(a)
BY DEF OnlyBits, Bits, BlockCount

\* A table entry, one tenant and one block at a time.
LEMMA TableOfIs ==
  ASSUME NEW a, NEW T, a # NoArena
  PROVE  TableOf(a, T) <=>
           /\ \A z : z \in a.inuse <=> \E x \in T : z \in Bits(a, x)
           /\ \A x \in T :
                /\ Bits(a, x) \subseteq 0..(BlockCount(a) - 1)
                /\ IdSuitable(x.id, a.exclusive, x.req)
                /\ \A f \in T \ {x} : Bits(a, x) \cap Bits(a, f) = {}
<1> DEFINE S == a.inuse
<1>1. S = UNION {Bits(a, x) : x \in T} <=> \A z : z \in S <=> \E x \in T : z \in Bits(a, x)
  <2> HIDE DEF S
  <2> QED BY UnionIs
<1> QED BY <1>1 DEF TableOf

\* The blocks of e come into use: they were free.
LEMMA TableGrows ==
  ASSUME NEW a, NEW a1, NEW T, NEW e, OnlyBits(a, a1, a.inuse \cup Bits(a, e)), TableOf(a, T),
         Bits(a, e) \subseteq 0..(BlockCount(a) - 1), Bits(a, e) \cap a.inuse = {},
         IdSuitable(e.id, a.exclusive, e.req)
  PROVE  TableOf(a1, T \cup {e})
<1>1. /\ \A z : z \in a.inuse <=> \E x \in T : z \in Bits(a, x)
      /\ \A x \in T :
           /\ Bits(a, x) \subseteq 0..(BlockCount(a) - 1)
           /\ IdSuitable(x.id, a.exclusive, x.req)
           /\ \A f \in T \ {x} : Bits(a, x) \cap Bits(a, f) = {}
  BY TableOfIs DEF OnlyBits
<1>2. (\A x : Bits(a1, x) = Bits(a, x)) /\ BlockCount(a1) = BlockCount(a)
  BY SameBits
<1>3. \A z : z \in a1.inuse <=> z \in a.inuse \/ z \in Bits(a, e)
  BY DEF OnlyBits
<1>4. \A z : z \in a1.inuse <=> \E x \in T \cup {e} : z \in Bits(a1, x)
  BY <1>1, <1>2, <1>3
<1>5. \A x \in T : Bits(a, x) \cap Bits(a, e) = {}
  BY <1>1
<1>6. ASSUME NEW x \in T \cup {e}, NEW f \in (T \cup {e}) \ {x} PROVE Bits(a, x) \cap Bits(a, f) = {}
  BY <1>1, <1>5
<1>7. \A x \in T \cup {e} : Bits(a1, x) \subseteq 0..(BlockCount(a1) - 1)
  BY <1>1, <1>2
<1>8. \A x \in T \cup {e} : IdSuitable(x.id, a1.exclusive, x.req)
  BY <1>1 DEF OnlyBits
<1>9. \A x \in T \cup {e} : \A f \in (T \cup {e}) \ {x} : Bits(a1, x) \cap Bits(a1, f) = {}
  BY <1>2, <1>6
<1> QED BY <1>4, <1>7, <1>8, <1>9, TableOfIs DEF OnlyBits

\* The blocks of a tenant go out of use.
LEMMA TableShrinks ==
  ASSUME NEW a, NEW a1, NEW T, NEW e \in T, OnlyBits(a, a1, a.inuse \ Bits(a, e)), TableOf(a, T)
  PROVE  TableOf(a1, T \ {e})
<1>1. /\ \A z : z \in a.inuse <=> \E x \in T : z \in Bits(a, x)
      /\ \A x \in T :
           /\ Bits(a, x) \subseteq 0..(BlockCount(a) - 1)
           /\ IdSuitable(x.id, a.exclusive, x.req)
           /\ \A f \in T \ {x} : Bits(a, x) \cap Bits(a, f) = {}
  BY TableOfIs DEF OnlyBits
<1>2. (\A x : Bits(a1, x) = Bits(a, x)) /\ BlockCount(a1) = BlockCount(a)
  BY SameBits
<1>3. \A z : z \in a1.inuse <=> z \in a.inuse /\ z \notin Bits(a, e)
  BY DEF OnlyBits
<1>4. \A x \in T \ {e} : \A z : z \in Bits(a, x) => z \notin Bits(a, e)
  BY <1>1
<1>5. \A z : z \in a1.inuse <=> \E x \in T \ {e} : z \in Bits(a1, x)
  BY <1>1, <1>2, <1>3, <1>4
<1>6. \A x \in T \ {e} : Bits(a1, x) \subseteq 0..(BlockCount(a1) - 1)
  BY <1>1, <1>2
<1>7. \A x \in T \ {e} : IdSuitable(x.id, a1.exclusive, x.req)
  BY <1>1 DEF OnlyBits
<1>8. \A x \in T \ {e} : \A f \in (T \ {e}) \ {x} : Bits(a1, x) \cap Bits(a1, f) = {}
  BY <1>1, <1>2
<1> QED BY <1>5, <1>6, <1>7, <1>8, TableOfIs DEF OnlyBits

\* Thread t takes the blocks from b on of arena i, as the segment e.
Claiming(t, i, b, e) ==
  LET c == pc[t]
      p == arenas[i].start + b * Block
  IN  /\ c.at = "try" /\ i = c.i /\ i \in Index /\ Suitable(t, i)
      /\ b \in Runs(arenas[i], AlignUp(c.call.size, Block) \div Block)
      /\ Claimed(t, i, b)
      /\ e = [id |-> i + 1, base |-> p, p |-> p, size |-> c.call.size, req |-> c.call.id, committed |-> {}]
      /\ Set(t, [c EXCEPT !.at = "enter", !.ext = {e}])
      /\ UNCHANGED <<mem, tryOk, hugeStart, count, live, map, external, lost, calls, ended>>

LEMMA ClaimInv ==
  ASSUME IInv, NEW t \in Thread, NEW i, NEW b, NEW e, Claiming(t, i, b, e)
  PROVE  IInv'
<1> DEFINE d == pc[t]
           c == [d EXCEPT !.at = "enter", !.ext = {e}]
           a == arenas[i]
           k == AlignUp(d.call.size, Block) \div Block
           p == a.start + b * Block
           blocks == Span(b, k)
           a1 == [a EXCEPT !.inuse = a.inuse \cup blocks]
<1>0. /\ d.at = "try" /\ i = d.i /\ i \in Index /\ Suitable(t, i) /\ b \in Runs(a, k)
  BY DEF Claiming
<1>30. /\ Claimed(t, i, b) /\ Set(t, c)
      /\ UNCHANGED <<mem, tryOk, hugeStart, count, live, map, external, lost, calls, ended>>
  BY DEF Claiming
<1>1. /\ TypeOK /\ ~ended /\ d \in Control /\ Plain1(d) /\ ~Direct(d) /\ Held(d) = {}
      /\ d.call \in Calls /\ d.call.id \in 0..MaxArenas /\ i \in Index
  BY <1>0, LooksIs
<1>2. /\ d.call.size \in Nat /\ d.call.size > 0 /\ d.call.size <= Pages
  BY <1>1, CallIs
<1>3. /\ a # NoArena /\ i \in Used /\ a \in ArenaOf /\ arenas \in [Index -> ArenaOf \cup {NoArena}]
      /\ IdSuitable(i + 1, a.exclusive, d.call.id)
  BY <1>0, <1>1 DEF Suitable, TypeOK, Used
<1>4. a.start % Block = 0 /\ Area(a) \subseteq Page
  BY <1>3 DEF IInv, Area0
<1>5. e.id = i + 1 /\ e.base = p /\ e.p = p /\ e.size = d.call.size /\ e.req = d.call.id /\ e.committed = {}
  BY DEF Claiming
<1>6. /\ p \in Page /\ p + d.call.size <= Pages /\ Bits(a, e) = blocks
      /\ blocks \subseteq 0..(BlockCount(a) - 1) /\ blocks \subseteq 0..Pages
      /\ blocks \cap a.inuse = {} /\ blocks # {} /\ p % Block = 0
  <2> DEFINE n == d.call.size
  <2>1. n \in Nat /\ n > 0 /\ k = AlignUp(n, Block) \div Block /\ b \in Runs(a, k)
        /\ p = a.start + b * Block
    BY <1>0, <1>2
  <2>2. e.p = p /\ e.size = n
    BY <1>5
  <2> HIDE DEF n, a
  <2>3. /\ p \in Page /\ p + n <= Pages /\ Bits(a, e) = Span(b, k)
        /\ Span(b, k) \subseteq 0..(BlockCount(a) - 1) /\ Span(b, k) \subseteq 0..Pages
        /\ Span(b, k) \cap a.inuse = {} /\ Span(b, k) # {} /\ p % Block = 0
    BY <1>3, <1>4, <2>1, <2>2, RunFits
  <2> QED BY <2>3 DEF n
<1> HIDE DEF k, p
<1>7. i + 1 \in 0..MaxArenas /\ i + 1 # 0 /\ d.call.size \in 1..Pages /\ i \in Nat /\ p \in Nat
  BY <1>1, <1>2, <1>6, Fixed DEF Index, Page
<1>8. e \in ExtentOf
  <2>1. {} \in SUBSET Page
    OBVIOUS
  <2>2. e = [id |-> i + 1, base |-> p, p |-> p, size |-> d.call.size, req |-> d.call.id, committed |-> {}]
    BY DEF Claiming, p
  <2> QED BY <1>1, <1>6, <1>7, <2>1, <2>2 DEF ExtentOf
<1>9. Sound(e) /\ Extents(e) = {}
  <2>1. p <= p
    BY <1>7
  <2> QED BY <1>5, <1>6, <1>7, <2>1 DEF Sound, Extents
<1> DEFINE call == d.call
<1>10. c \in Control
  <2>1. "enter" \in Label /\ {e} \in SUBSET ExtentOf
    BY <1>8 DEF Label
  <2> QED BY <1>1, <2>1 DEF Control
<1>11. c.at = "enter" /\ c.ext = {e} /\ c.stray = NoPage /\ c.meta = NoPage /\ ~Direct(c)
  BY <1>1, <1>10 DEF Control, Plain1, Direct
<1>12. pc \in [Thread -> Control] /\ pc' = [pc EXCEPT ![t] = c]
  BY <1>1, <1>30 DEF TypeOK, Set
<1> HIDE DEF c
<1>13. /\ Placed(c) /\ Given(c) = {} /\ Once(c) /\ RealIn(mem, c) /\ Held(c) = {}
  BY <1>9, <1>10, <1>11, CarryPlaced DEF ExtAt
<1>14. a1 \in ArenaOf /\ a1.start = a.start /\ a1.size = a.size /\ a1.meta = a.meta
       /\ a1.exclusive = a.exclusive /\ a1.inuse = a.inuse \cup blocks
  <2>1. a.inuse \cup blocks \in SUBSET (0..Pages)
    BY <1>3, <1>6 DEF ArenaOf
  <2> HIDE DEF a, blocks
  <2> QED BY <1>3, <2>1 DEF ArenaOf
<1>15. arenas' = [arenas EXCEPT ![i] = a1]
  BY <1>30 DEF Claimed, k
<1>16. a1 # NoArena
  BY <1>14 DEF ArenaOf, NoArena, Kind
<1> HIDE DEF a1
<1>17. /\ arenas' \in [Index -> ArenaOf \cup {NoArena}] /\ arenas'[i] = a1
       /\ \A j \in Index \ {i} : arenas'[j] = arenas[j]
  BY <1>0, <1>3, <1>14, <1>15
<1>18. Areas1 /\ Used' = Used
  BY <1>1, <1>3, <1>14, <1>16, <1>17, <1>30 DEF Areas1, Used
<1>19. AreasFine' /\ \A j \in Used' : mem[arenas'[j].meta] = "rw"
  BY <1>1, <1>18, <1>30, AreasSame
<1>20. TableAt(i)
  BY <1>1, TableIs DEF IInv
<1>21. e \notin Memory
  <2>1. SUFFICES ASSUME e \in Memory PROVE FALSE
    OBVIOUS
  <2>2. e \in Tenants(i)
    BY <1>5, <2>1, TenantsAre
  <2>3. a.inuse = UNION {Bits(a, x) : x \in Tenants(i)}
    BY <1>3, <1>20 DEF TableAt, TableOf
  <2>4. blocks \subseteq a.inuse
    BY <1>6, <2>2, <2>3
  <2> QED BY <1>6, <2>4
<1>22. Memory' = Memory \cup {e}
  <2>1. Memory' = live' \cup c.ext \cup UNION {pc[u].ext : u \in Thread \ {t}}
    BY <1>12, MemoryNext
  <2>2. d.ext = {}
    BY <1>1 DEF Plain1
  <2> QED BY <1>11, <1>30, <2>1, <2>2 DEF Memory
<1>23. ASSUME NEW q \in Page PROVE World(q)' - World(q) = Load(d, q) - Load(c, q)
  <2>1. World(q)' = World(q) /\ World(q) \in Nat
    BY <1>18, <1>30, WorldKept, HoldsIs DEF IInv
  <2>2. Load(d, q) = 0
    BY <1>1, HeldOnce DEF One
  <2>3. Load(c, q) = 0
    BY <1>13, OnceLoad DEF One
  <2> QED BY <2>1, <2>2, <2>3
<1>24. TableStep(t, c)
  <2>1. map = {x.p \div Block : x \in live} /\ IsFiniteSet(live)
    BY DEF IInv
  <2> QED BY <1>1, <1>10, <1>12, <1>17, <1>30, <2>1 DEF TableStep, TypeOK
<1>25. TableFine(t, c)
  <2>1. \A u \in Thread : Given(pc[u]) \subseteq external'
    BY <1>30 DEF IInv
  <2>2. \A x \in Memory' : x \in Memory \/ (Sound(x) /\ x.committed = {})
    BY <1>5, <1>9, <1>22
  <2> QED BY <1>13, <1>19, <2>1, <2>2 DEF TableFine
<1>26. {d.at, c.at} \cap {"store", "retreat"} = {}
  BY <1>0, <1>11
<1>27. Counted' /\ Indices'
  BY <1>1, <1>12, <1>18, <1>26, <1>30, CountsKept
<1>28. TableSound'
  <2>1. Memory' \ {e} = Memory \ {e}
    BY <1>22
  <2>2. ASSUME NEW j \in Index \ {i} PROVE TableAt(j)'
    <3>1. TableAt(j)
      BY <1>1, TableIs DEF IInv
    <3>2. e.id # j + 1
      BY <1>5, <1>7 DEF Index
    <3>3. Tenants(j)' = Tenants(j)
      BY <2>1, <3>2, TenantsNext
    <3> QED BY <1>17, <3>1, <3>3 DEF TableAt
  <2>3. TableAt(i)'
    <3> DEFINE T == Tenants(i)
    <3>1. TableOf(a, T) /\ e \notin T
      BY <1>20, <1>21, TenantsAre DEF TableAt
    <3>2. Tenants(i)' = T \cup {e}
      <4>1. /\ \A x : x # e => (x \in Tenants(i)' <=> x \in Tenants(i))
            /\ e \in Tenants(i)' <=> e \in Memory' /\ e.id = i + 1
        BY <2>1, TenantsNext
      <4>2. e \in Tenants(i)'
        BY <1>5, <1>22, <4>1
      <4> QED BY <4>1, <4>2
    <3> HIDE DEF T
    <3>3. OnlyBits(a, a1, a.inuse \cup Bits(a, e))
      BY <1>3, <1>6, <1>14, <1>16 DEF OnlyBits
    <3>4. IdSuitable(e.id, a.exclusive, e.req)
      BY <1>3, <1>5
    <3> HIDE DEF a
    <3>5. TableOf(a1, T \cup {e})
      BY <1>6, <3>1, <3>3, <3>4, TableGrows
    <3> QED BY <1>17, <3>2, <3>5 DEF TableAt
  <2> QED BY <1>27, <2>2, <2>3, TableAfter
<1>29. Apart'
  <2>1. \A x \in live' : \A y \in live' \ {x} : Span(x.p, x.size) \cap Span(y.p, y.size) = {}
    BY <1>30 DEF IInv, Apart
  <2>2. ASSUME NEW u \in Thread, NEW x \in pc'[u].ext, x.id # 0
        PROVE  x \notin live' /\ \A v \in Thread \ {u} : x \notin pc'[v].ext
    <3>1. pc'[t] = c /\ \A v \in Thread \ {t} : pc'[v] = pc[v]
      BY <1>12
    <3>2. e \notin live /\ \A v \in Thread : e \notin pc[v].ext
      BY <1>21 DEF Memory
    <3>3. CASE u = t
      <4>1. x = e
        BY <1>11, <3>1, <3>3
      <4> QED BY <1>30, <3>1, <3>2, <3>3, <4>1
    <3>4. CASE u # t
      <4>1. x \in pc[u].ext
        BY <3>1, <3>4
      <4>2. x \notin live /\ \A v \in Thread \ {u} : x \notin pc[v].ext
        BY <1>1, <4>1, ExtNotLive
      <4>3. x # e
        BY <3>2, <4>1
      <4> QED BY <1>11, <1>30, <3>1, <4>2, <4>3
    <3> QED BY <3>3, <3>4
  <2> QED BY <2>1, <2>2 DEF Apart
<1> QED BY <1>19, <1>23, <1>24, <1>25, <1>27, <1>28, <1>29, TableStepInv

LEMMA TryArenaInv ==
  ASSUME IInv, NEW t \in Thread, TryArena(t)
  PROVE  IInv'
<1> DEFINE c == pc[t]
           i == c.i
           k == AlignUp(c.call.size, Block) \div Block
<1>1. c.at = "try" /\ UNCHANGED <<mem, tryOk, hugeStart, count, live, map, external, lost, calls, ended>>
  BY DEF TryArena
<1>2. CASE i \in Index /\ Suitable(t, i) /\ Runs(arenas[i], k) # {}
  <2>1. PICK b \in Runs(arenas[i], k) :
          /\ Claimed(t, i, b)
          /\ Set(t, [c EXCEPT !.at = "enter", !.ext =
                {[id |-> i + 1, base |-> arenas[i].start + b * Block, p |-> arenas[i].start + b * Block,
                  size |-> c.call.size, req |-> c.call.id, committed |-> {}]}])
    BY <1>2 DEF TryArena
  <2> DEFINE p == arenas[i].start + b * Block
             e == [id |-> i + 1, base |-> p, p |-> p, size |-> c.call.size, req |-> c.call.id, committed |-> {}]
  <2>2. Claiming(t, i, b, e)
    BY <1>1, <1>2, <2>1 DEF Claiming
  <2> HIDE DEF c, i, e
  <2> QED BY <2>2, ClaimInv
<1>3. CASE ~(i \in Index /\ Suitable(t, i) /\ Runs(arenas[i], k) # {})
  <2>1. Set(t, NextArena(t)) /\ UNCHANGED arenas
    BY <1>3 DEF TryArena
  <2> QED BY <1>1, <2>1, NextArenaInv DEF tableVars
<1> QED BY <1>2, <1>3

\* The blocks of an arena that a segment gives back.
LEMMA FreeBlocksInv ==
  ASSUME IInv, NEW t \in Thread, pc[t].at \in {"free", "giveBack"}, NEW e, e = Carried(t), e.id # 0,
         NEW i, i = e.id - 1, arenas' = [arenas EXCEPT ![i].inuse = @ \ Bits(arenas[i], e)],
         Set(t, Idle), UNCHANGED <<mem, tryOk, hugeStart, count, live, map, external, lost, calls, ended>>
  PROVE  IInv'
<1> DEFINE a == arenas[i]
           T == Tenants(i)
           a1 == [a EXCEPT !.inuse = a.inuse \ Bits(a, e)]
<1>1. /\ pc[t].at \in ExtAt /\ TypeOK /\ ~ended /\ pc[t].ext = {e} /\ e \in Memory /\ e \in ExtentOf
      /\ TableSound
  BY CarriedIs DEF ExtAt, IInv
<1>2. i \in Used /\ e \in T /\ i \in Index
  BY <1>1, InArea DEF Used
<1>3. /\ a # NoArena /\ a \in ArenaOf /\ arenas \in [Index -> ArenaOf \cup {NoArena}]
  BY <1>1, <1>2 DEF TypeOK, Used
<1>4. e \notin live /\ \A u \in Thread \ {t} : e \notin pc[u].ext
  BY <1>1, ExtNotLive
<1>5. pc \in [Thread -> Control] /\ pc' = [pc EXCEPT ![t] = Idle]
  BY <1>1 DEF TypeOK, Set
<1>6. Memory' \ {e} = Memory \ {e} /\ e \notin Memory' /\ Memory' \subseteq Memory
  <2>1. Memory' = live' \cup Idle.ext \cup UNION {pc[u].ext : u \in Thread \ {t}}
    BY <1>5, MemoryNext
  <2>2. Idle.ext = {} /\ live' = live
    BY IdleIs
  <2>3. \A x : x \in Memory' <=> x \in live \/ \E u \in Thread \ {t} : x \in pc[u].ext
    BY <2>1, <2>2
  <2>4. \A x : x \in Memory <=> x \in live \/ x = e \/ \E u \in Thread \ {t} : x \in pc[u].ext
    BY <1>1 DEF Memory
  <2>5. e \notin Memory'
    BY <1>4, <2>3
  <2>6. \A x : x # e => (x \in Memory' <=> x \in Memory)
    BY <2>3, <2>4
  <2> QED BY <2>5, <2>6
<1>7. a1 \in ArenaOf /\ a1.start = a.start /\ a1.size = a.size /\ a1.meta = a.meta
       /\ a1.exclusive = a.exclusive /\ a1.inuse = a.inuse \ Bits(a, e)
  <2>1. a.inuse \ Bits(a, e) \in SUBSET (0..Pages)
    BY <1>3 DEF ArenaOf
  <2> HIDE DEF a
  <2> QED BY <1>3, <2>1 DEF ArenaOf
<1>8. arenas' = [arenas EXCEPT ![i] = a1]
  OBVIOUS
<1>9. a1 # NoArena
  BY <1>7 DEF ArenaOf, NoArena, Kind
<1> HIDE DEF a1
<1>10. /\ arenas' \in [Index -> ArenaOf \cup {NoArena}] /\ arenas'[i] = a1
       /\ \A j \in Index \ {i} : arenas'[j] = arenas[j]
  BY <1>2, <1>3, <1>7, <1>8
<1>11. Areas1 /\ Used' = Used
  BY <1>2, <1>3, <1>7, <1>9, <1>10 DEF Areas1, Used
<1>12. AreasFine' /\ \A j \in Used' : mem[arenas'[j].meta] = "rw"
  BY <1>1, <1>11, AreasSame
<1>13. ASSUME NEW q \in Page PROVE World(q)' - World(q) = Load(pc[t], q) - Load(Idle, q)
  <2>1. World(q)' = World(q) /\ World(q) \in Nat
    BY <1>11, WorldKept, HoldsIs DEF IInv
  <2>2. Load(pc[t], q) = One(q \in Extents(e)) /\ Load(Idle, q) = 0
    BY <1>1, CarriedLoad, IdleLoad
  <2>3. Extents(e) = {}
    BY DEF Extents
  <2>4. Load(pc[t], q) = 0
    BY <2>2, <2>3 DEF One
  <2> QED BY <2>1, <2>2, <2>4
<1>14. TableStep(t, Idle)
  <2>1. map = {x.p \div Block : x \in live} /\ IsFiniteSet(live)
    BY DEF IInv
  <2> QED BY <1>1, <1>5, <1>10, <2>1, IdleIs DEF TableStep, TypeOK
<1>15. TableFine(t, Idle)
  <2>1. \A u \in Thread : Given(pc[u]) \subseteq external'
    BY DEF IInv
  <2> QED BY <1>6, <1>12, <2>1, IdleHolds DEF TableFine
<1>16. {pc[t].at, Idle.at} \cap {"store", "retreat"} = {}
  BY IdleIs
<1>17. Counted' /\ Indices'
  BY <1>1, <1>5, <1>11, <1>16, CountsKept
<1>18. TableSound'
  <2>2. ASSUME NEW j \in Index \ {i} PROVE TableAt(j)'
    <3>1. TableAt(j)
      BY <1>1, TableIs
    <3>2. e.id # j + 1
      BY <1>1, Fixed DEF Index, ExtentOf
    <3>3. Tenants(j)' = Tenants(j)
      BY <1>6, <3>2, TenantsNext
    <3> QED BY <1>10, <3>1, <3>3 DEF TableAt
  <2>3. TableAt(i)'
    <3>1. TableOf(a, T)
      BY <1>1, <1>2, TableIs DEF TableAt
    <3>2. Tenants(i)' = T \ {e}
      <4>1. /\ \A x : x # e => (x \in Tenants(i)' <=> x \in Tenants(i))
            /\ e \in Tenants(i)' <=> e \in Memory' /\ e.id = i + 1
        BY <1>6, TenantsNext
      <4>2. e \notin Tenants(i)'
        BY <1>6, <4>1
      <4> QED BY <4>1, <4>2
    <3> HIDE DEF T
    <3>3. OnlyBits(a, a1, a.inuse \ Bits(a, e))
      BY <1>3, <1>7, <1>9 DEF OnlyBits
    <3>4. e \in T
      BY <1>2 DEF T
    <3> HIDE DEF a
    <3>5. TableOf(a1, T \ {e})
      BY <3>1, <3>3, <3>4, TableShrinks
    <3> QED BY <1>10, <3>2, <3>5 DEF TableAt
  <2> QED BY <1>17, <2>2, <2>3, TableAfter
<1>19. Apart'
  <2>1. \A x \in live' : \A y \in live' \ {x} : Span(x.p, x.size) \cap Span(y.p, y.size) = {}
    BY DEF IInv, Apart
  <2>2. ASSUME NEW u \in Thread, NEW x \in pc'[u].ext, x.id # 0
        PROVE  x \notin live' /\ \A v \in Thread \ {u} : x \notin pc'[v].ext
    <3>1. pc'[t] = Idle /\ \A v \in Thread \ {t} : pc'[v] = pc[v]
      BY <1>5
    <3>2. u # t /\ x \in pc[u].ext
      BY <3>1, IdleIs
    <3>3. x \notin live /\ \A v \in Thread \ {u} : x \notin pc[v].ext
      BY <1>1, <3>2, ExtNotLive
    <3> QED BY <3>1, <3>3, IdleIs
  <2> QED BY <2>1, <2>2 DEF Apart
<1> QED BY <1>12, <1>13, <1>14, <1>15, <1>17, <1>18, <1>19, TableStepInv

LEMMA ArenaFreeInv ==
  ASSUME IInv, NEW t \in Thread, ArenaFree(t)
  PROVE  IInv'
<1> DEFINE e == Carried(t)
<1>1. /\ pc[t].at \in {"free", "giveBack"} /\ Set(t, Idle)
      /\ UNCHANGED <<tryOk, hugeStart, count, live, map, external, lost, calls, ended>>
  BY DEF ArenaFree
<1>2. \/ e.id = 0 /\ mem' = Unmap(Extents(e)) /\ UNCHANGED arenas
      \/ /\ e.id # 0
         /\ arenas' = [arenas EXCEPT ![e.id - 1].inuse = @ \ Bits(arenas[e.id - 1], e)]
         /\ UNCHANGED mem
  BY DEF ArenaFree, Carried
<1>3. CASE e.id = 0 /\ mem' = Unmap(Extents(e)) /\ UNCHANGED arenas
  BY <1>1, <1>3, FreeOsInv DEF tableVars
<1>4. CASE /\ e.id # 0
           /\ arenas' = [arenas EXCEPT ![e.id - 1].inuse = @ \ Bits(arenas[e.id - 1], e)]
           /\ UNCHANGED mem
  BY <1>1, <1>4, FreeBlocksInv
<1> QED BY <1>2, <1>3, <1>4

-----------------------------------------------------------------------------
(* Adding an arena to the table.                                           *)

\* No thread gets a segment's memory or loses it.
LEMMA ExtKept ==
  ASSUME IInv, live' = live, \A u \in Thread : pc'[u].ext = pc[u].ext
  PROVE  Memory' = Memory /\ Apart'
<1>1. \A x : x \in Memory' <=> x \in live \/ \E u \in Thread : x \in pc[u].ext
  BY DEF Memory
<1>2. Memory' = Memory
  BY <1>1 DEF Memory
<1>3. Apart'
  BY DEF IInv, Apart
<1> QED BY <1>2, <1>3

\* The count of arenas, and how far it may be above the table.
LEMMA CountIs ==
  ASSUME IInv, ~ended
  PROVE  /\ TypeOK /\ Indices /\ Counted /\ count \in Nat /\ IsFiniteSet(Retreating)
         /\ Cardinality(Retreating) \in Nat
         /\ count >= MaxArenas => count = MaxArenas + Cardinality(Retreating)
         /\ Retreating # {} => Cardinality(Retreating) > 0 /\ count = MaxArenas + Cardinality(Retreating)
         /\ \A t \in Thread : t \notin Retreating => Cardinality(Retreating) + 1 <= Cardinality(Thread)
<1>1. TypeOK /\ Indices /\ Counted
  BY TableIs DEF IInv, Accounted
<1>2. IsFiniteSet(Thread) /\ Retreating \subseteq Thread
  BY Fixed DEF Retreating
<1>3. IsFiniteSet(Retreating) /\ Cardinality(Retreating) \in Nat
      /\ (Cardinality(Retreating) = 0 <=> Retreating = {})
  <2>1. IsFiniteSet(Retreating)
    BY <1>2, FS_Subset
  <2> QED BY <2>1, CountNone
<1>4. count \in Nat
  BY <1>1, Fixed DEF TypeOK
<1>5. IF Retreating = {} THEN count <= MaxArenas ELSE count = MaxArenas + Cardinality(Retreating)
  BY <1>1 DEF Indices
<1>6. ASSUME NEW t \in Thread, t \notin Retreating PROVE Cardinality(Retreating) + 1 <= Cardinality(Thread)
  <2>1. IsFiniteSet(Retreating \cup {t}) /\ Cardinality(Retreating \cup {t}) = Cardinality(Retreating) + 1
    BY <1>3, <1>6, FS_AddElement
  <2>2. Retreating \cup {t} \subseteq Thread
    BY <1>2
  <2>3. Cardinality(Retreating \cup {t}) <= Cardinality(Thread)
    BY <1>2, <2>2, FS_Subset
  <2> QED BY <2>1, <2>3
<1>7. MaxArenas \in Nat
  BY Fixed
<1> DEFINE n == Cardinality(Retreating)
<1> HIDE DEF n
<1>8. n = Cardinality(Retreating)
  BY DEF n
<1> QED BY <1>1, <1>3, <1>4, <1>5, <1>6, <1>7

\* The threads that have an index or give one back, after a step of thread t.
LEMMA TakersNext ==
  ASSUME IInv, NEW t \in Thread, NEW c, pc' = [pc EXCEPT ![t] = c]
  PROVE  LET S == {u \in Thread : pc[u].at \in {"store", "retreat"}}
             S1 == {u \in Thread : pc'[u].at \in {"store", "retreat"}}
         IN  /\ Cardinality(S) \in Nat /\ Cardinality(S1) \in Nat
             /\ Cardinality(S1) = Cardinality(S) - One(pc[t].at \in {"store", "retreat"})
                                                 + One(c.at \in {"store", "retreat"})
<1> DEFINE S == {u \in Thread : pc[u].at \in {"store", "retreat"}}
           S1 == {u \in Thread : pc'[u].at \in {"store", "retreat"}}
<1>1. pc'[t] = c /\ \A u \in Thread \ {t} : pc'[u] = pc[u]
  BY ThreadIs
<1>2. IsFiniteSet(S)
  <2>1. S \subseteq Thread
    OBVIOUS
  <2> QED BY <2>1, Fixed, FS_Subset
<1>3. S \ {t} = S1 \ {t}
  BY <1>1
<1>4. /\ Cardinality(S) \in Nat /\ Cardinality(S1) \in Nat
      /\ Cardinality(S1) = Cardinality(S) - One(t \in S) + One(t \in S1)
  BY <1>2, <1>3, Recount
<1>5. (t \in S <=> pc[t].at \in {"store", "retreat"}) /\ (t \in S1 <=> c.at \in {"store", "retreat"})
  BY <1>1
<1>6. One(t \in S) = One(pc[t].at \in {"store", "retreat"}) /\ One(t \in S1) = One(c.at \in {"store", "retreat"})
  BY <1>5 DEF One
<1> HIDE DEF S, S1
<1>7. Cardinality(S1) = Cardinality(S) - One(pc[t].at \in {"store", "retreat"})
                                       + One(c.at \in {"store", "retreat"})
  BY <1>4, <1>6
<1> QED BY <1>4, <1>7 DEF S, S1

LEMMA CountedNext ==
  ASSUME IInv, ~ended, NEW t \in Thread, NEW c, pc' = [pc EXCEPT ![t] = c],
         IsFiniteSet(Used), NEW n, n = Cardinality(Used'), n \in Nat, Cardinality(Used) \in Nat,
         count' - count = (n - Cardinality(Used)) - One(pc[t].at \in {"store", "retreat"})
                          + One(c.at \in {"store", "retreat"}),
         count' \in Int
  PROVE  Counted'
<1> DEFINE S == {u \in Thread : pc[u].at \in {"store", "retreat"}}
           S1 == {u \in Thread : pc'[u].at \in {"store", "retreat"}}
           a == Cardinality(S)
           b == Cardinality(S1)
           x == One(pc[t].at \in {"store", "retreat"})
           y == One(c.at \in {"store", "retreat"})
           m == Cardinality(Used)
<1>1. a \in Nat /\ b \in Nat /\ b = a - x + y
  BY TakersNext
<1>2. count = m + a /\ count \in Nat
  BY CountIs DEF Counted
<1>3. x \in Nat /\ y \in Nat
  BY OneIs
<1>4. count' - count = (n - m) - x + y
  OBVIOUS
<1>5. m \in Nat /\ n \in Nat /\ count' \in Int
  OBVIOUS
<1>6. Counted' <=> count' = n + b
  BY DEF Counted
<1> HIDE DEF a, b, x, y, m
<1>7. a \in Int /\ b \in Int /\ m \in Int /\ n \in Int /\ x \in Int /\ y \in Int /\ count \in Int
  BY <1>1, <1>2, <1>3, <1>5
<1> HIDE DEF S, S1
<1>8. count' - (m + a) = ((n - m) - x) + y
  BY <1>2, <1>4
<1>9. count' = n + ((a - x) + y)
  BY <1>5, <1>7, <1>8
<1>10. b = (a - x) + y
  BY <1>1
<1>11. count' = n + b
  BY <1>9, <1>10
<1> QED BY <1>6, <1>11

\* Take the next index of the table, if there is one.
LEMMA AddIndices ==
  ASSUME IInv, ~ended, NEW t \in Thread, pc[t].at = "add", NEW c, pc' = [pc EXCEPT ![t] = c],
         Used' = Used, count' = count + 1,
         IF count < MaxArenas THEN c.at = "store" /\ c.i = count ELSE c.at = "retreat"
  PROVE  Counted' /\ Indices' /\ count' \in 0..(MaxArenas + Cardinality(Thread))
<1>1. /\ Indices /\ count \in Nat /\ IsFiniteSet(Retreating) /\ Cardinality(Retreating) \in Nat
      /\ count >= MaxArenas => count = MaxArenas + Cardinality(Retreating)
      /\ Retreating # {} => Cardinality(Retreating) > 0 /\ count = MaxArenas + Cardinality(Retreating)
      /\ \A u \in Thread : u \notin Retreating => Cardinality(Retreating) + 1 <= Cardinality(Thread)
  BY CountIs
<1>2. pc'[t] = c /\ \A u \in Thread \ {t} : pc'[u] = pc[u]
  BY ThreadIs
<1>3. MaxArenas \in Nat /\ Cardinality(Thread) \in Nat
  BY Fixed
<1>4. Counted'
  <2>1. IsFiniteSet(Used) /\ Cardinality(Used) \in Nat
    BY SetsFinite, FS_CardinalityType DEF IInv
  <2>2. One(pc[t].at \in {"store", "retreat"}) = 0 /\ One(c.at \in {"store", "retreat"}) = 1
    BY DEF One
  <2>3. count' - count = (Cardinality(Used) - Cardinality(Used)) - One(pc[t].at \in {"store", "retreat"})
                          + One(c.at \in {"store", "retreat"})
    BY <1>1, <2>1, <2>2
  <2>4. count' \in Int /\ Cardinality(Used') = Cardinality(Used)
    BY <1>1
  <2> QED BY <2>1, <2>3, <2>4, CountedNext
<1>5. t \notin Storing /\ t \notin Retreating
  BY DEF Storing, Retreating
<1>6. CASE count < MaxArenas
  <2>1. Retreating = {} /\ c.at = "store" /\ c.i = count
    <3>1. ~(Retreating # {})
      BY <1>1, <1>3, <1>6
    <3> QED BY <1>6, <3>1
  <2>2. Storing' = Storing \cup {t} /\ Retreating' = {}
    BY <1>2, <1>5, <2>1 DEF Storing, Retreating
  <2>3. /\ Used \cup {pc[u].i : u \in Storing} = {i \in Index : i < count}
        /\ \A u \in Storing : pc[u].i \in Index \ Used /\ \A v \in Storing \ {u} : pc[v].i # pc[u].i
    BY <1>1 DEF Indices
  <2>4. \A i \in Index : i \in Int
    BY <1>3 DEF Index
  <2>5. count \in Index /\ count \notin Used /\ \A u \in Storing : pc[u].i # count
    <3>1. count \in Index
      BY <1>1, <1>3, <1>6 DEF Index
    <3>2. count \notin {i \in Index : i < count}
      BY <1>1
    <3> QED BY <2>3, <3>1, <3>2
  <2>6. \A u \in Storing' : pc'[u].i = IF u = t THEN count ELSE pc[u].i
    BY <1>2, <2>1
  <2>7. ASSUME NEW u \in Storing'
        PROVE  pc'[u].i \in Index \ Used' /\ \A v \in Storing' \ {u} : pc'[v].i # pc'[u].i
    BY <1>5, <2>2, <2>3, <2>5, <2>6
  <2>8. Used' \cup {pc'[u].i : u \in Storing'} = {i \in Index : i < count'}
    <3>1. ASSUME NEW x PROVE x \in Used' \cup {pc'[u].i : u \in Storing'} <=> x \in {i \in Index : i < count'}
      <4>1. x \in Used' \cup {pc'[u].i : u \in Storing'}
            <=> x \in Used \/ (\E u \in Storing : x = pc[u].i) \/ x = count
        BY <1>5, <2>2, <2>6
      <4>2. x \in Used \/ (\E u \in Storing : x = pc[u].i) <=> x \in Index /\ x < count
        BY <2>3
      <4>3. x \in Index => (x < count' <=> x < count \/ x = count)
        BY <1>1, <2>4
      <4> QED BY <2>5, <4>1, <4>2, <4>3
    <3> QED BY <3>1
  <2>9. count' <= MaxArenas /\ count' \in 0..(MaxArenas + Cardinality(Thread))
    BY <1>1, <1>3, <1>6
  <2>10. Indices'
    BY <2>2, <2>7, <2>8, <2>9 DEF Indices, Index
  <2> QED BY <1>4, <2>9, <2>10
<1>7. CASE ~(count < MaxArenas)
  <2>1. c.at = "retreat" /\ count = MaxArenas + Cardinality(Retreating)
    BY <1>1, <1>3, <1>7
  <2>2. Storing' = Storing /\ Retreating' = Retreating \cup {t} /\ \A u \in Storing : pc'[u] = pc[u]
    BY <1>2, <1>5, <2>1 DEF Storing, Retreating
  <2>3. Cardinality(Retreating \cup {t}) = Cardinality(Retreating) + 1
    BY <1>1, <1>5, FS_AddElement
  <2>4. count' = MaxArenas + Cardinality(Retreating') /\ Retreating' # {}
    BY <1>3, <1>1, <2>1, <2>2, <2>3
  <2>5. {i \in Index : i < count'} = {i \in Index : i < count}
    BY <1>1, <1>3, <1>7 DEF Index
  <2>6. Indices'
    BY <1>1, <2>2, <2>4, <2>5 DEF Indices, Index
  <2>7. count' \in 0..(MaxArenas + Cardinality(Thread))
    BY <1>1, <1>3, <1>5, <2>1
  <2> QED BY <1>4, <2>6, <2>7
<1> QED BY <1>6, <1>7

LEMMA AddArenaInv ==
  ASSUME IInv, NEW t \in Thread, AddArena(t)
  PROVE  IInv'
<1> DEFINE d == pc[t]
           s == [d EXCEPT !.at = "store", !.i = count]
           r == [d EXCEPT !.at = "retreat"]
           c == IF count < MaxArenas THEN s ELSE r
<1>1. /\ d.at = "add" /\ d.at \in AreaAt /\ count' = count + 1 /\ Set(t, c)
      /\ UNCHANGED <<mem, tryOk, hugeStart, arenas, live, map, external, lost, calls, ended>>
  BY DEF AddArena, AreaAt
<1>2. /\ TypeOK /\ ~ended /\ d \in Control /\ d.ext = {} /\ d.stray = NoPage
      /\ ~Direct(d) /\ Area1(d) /\ d.meta \in Page
      /\ Hand(d) = (IF d.call.op = "manage" THEN {} ELSE Span(d.lo, d.n))
      /\ Given(d) = (IF d.call.op = "manage" THEN Span(d.lo, d.ask) ELSE {})
  BY <1>1, AreaIs
<1>3. count \in Nat /\ mem[d.meta] = "rw"
  <2>1. Real(d)
    BY ThreadIs
  <2> QED BY <1>1, <1>2, <2>1, CountIs DEF Real
<1>4. /\ c \in Control /\ c.call = d.call /\ c.ask = d.ask /\ c.lo = d.lo /\ c.n = d.n /\ c.stage = d.stage
      /\ c.ext = d.ext /\ c.stray = d.stray /\ c.meta = d.meta
      /\ IF count < MaxArenas THEN c.at = "store" /\ c.i = count ELSE c.at = "retreat"
  <2>1. CASE count < MaxArenas
    <3>0. count \in 0..(MaxArenas + Cardinality(Thread)) /\ "store" \in Label
      BY <1>2 DEF TypeOK, Label
    <3>1. s \in Control
      BY <1>2, <3>0 DEF Control
    <3>2. /\ s.call = d.call /\ s.ask = d.ask /\ s.lo = d.lo /\ s.n = d.n /\ s.stage = d.stage
          /\ s.ext = d.ext /\ s.stray = d.stray /\ s.meta = d.meta /\ s.at = "store" /\ s.i = count
      BY <1>2, <3>1 DEF Control
    <3>3. c = s
      BY <2>1
    <3> HIDE DEF s, c
    <3> QED BY <2>1, <3>1, <3>2, <3>3
  <2>2. CASE ~(count < MaxArenas)
    <3>0. "retreat" \in Label
      BY DEF Label
    <3>1. r \in Control
      BY <1>2, <3>0 DEF Control
    <3>2. /\ r.call = d.call /\ r.ask = d.ask /\ r.lo = d.lo /\ r.n = d.n /\ r.stage = d.stage
          /\ r.ext = d.ext /\ r.stray = d.stray /\ r.meta = d.meta /\ r.at = "retreat"
      BY <1>2, <3>1 DEF Control
    <3>3. c = r
      BY <2>2
    <3> HIDE DEF r, c
    <3> QED BY <2>2, <3>1, <3>2, <3>3
  <2> QED BY <2>1, <2>2
<1> HIDE DEF c, s, r
<1>5. pc \in [Thread -> Control] /\ pc' = [pc EXCEPT ![t] = c]
  BY <1>1, <1>2 DEF TypeOK, Set
<1>6. c.at \in AreaAt /\ c.at \in {"add", "retreat", "store"} /\ ~Direct(c) /\ Area1(c)
  BY <1>2, <1>4 DEF AreaAt, Direct, Area1
<1>7. /\ Placed(c) /\ RealIn(mem, c)
      /\ Hand(c) = (IF c.call.op = "manage" THEN {} ELSE Span(c.lo, c.n))
      /\ Given(c) = (IF c.call.op = "manage" THEN Span(c.lo, c.ask) ELSE {})
  <2>1. /\ Placed(c) /\ \A m : (c.at \in {"add", "retreat", "store"} => m[c.meta] = "rw") => RealIn(m, c)
        /\ Hand(c) = (IF c.call.op = "manage" THEN {} ELSE Span(c.lo, c.n))
        /\ Given(c) = (IF c.call.op = "manage" THEN Span(c.lo, c.ask) ELSE {})
    BY <1>2, <1>4, <1>6, AreaPlaced
  <2> QED BY <1>3, <1>4, <2>1
<1>8. Hand(c) = Hand(d) /\ Given(c) = Given(d)
  BY <1>2, <1>4, <1>7
<1>9. \A u \in Thread : pc'[u].ext = pc[u].ext
  BY <1>4, <1>5
<1>10. Memory' = Memory /\ Apart'
  BY <1>1, <1>9, ExtKept
<1>11. Areas1 /\ Used' = Used
  BY <1>1 DEF Areas1, Used
<1>12. AreasFine' /\ \A j \in Used' : mem[arenas'[j].meta] = "rw"
  BY <1>2, <1>11, AreasSame
<1>13. ASSUME NEW q \in Page PROVE World(q)' - World(q) = Load(d, q) - Load(c, q)
  <2>1. World(q)' = World(q) /\ World(q) \in Nat
    BY <1>1, <1>11, WorldKept, HoldsIs DEF IInv
  <2>2. Load(c, q) = Load(d, q) /\ Load(d, q) \in Nat
    BY <1>4, <1>8, LoadIs DEF Load, InHand, Aside
  <2> QED BY <2>1, <2>2
<1>14. Counted' /\ Indices' /\ count' \in 0..(MaxArenas + Cardinality(Thread))
  BY <1>1, <1>2, <1>4, <1>5, <1>11, AddIndices
<1>15. TableStep(t, c)
  <2>1. map = {x.p \div Block : x \in live} /\ IsFiniteSet(live)
    BY DEF IInv
  <2> QED BY <1>1, <1>2, <1>4, <1>5, <1>14, <2>1 DEF TableStep, TypeOK
<1>16. TableFine(t, c)
  <2>1. \A u \in Thread : Given(pc[u]) \subseteq external' /\ \A v \in Thread \ {u} : Given(pc[u]) \cap Given(pc[v]) = {}
    BY <1>1 DEF IInv
  <2> QED BY <1>7, <1>8, <1>10, <1>12, <2>1 DEF TableFine
<1>17. TableSound'
  BY <1>1, <1>2, <1>10, <1>14, TablesKept, TableAfter
<1> QED BY <1>10, <1>12, <1>13, <1>14, <1>15, <1>16, <1>17, TableStepInv

\* Step back from above the table.
LEMMA RetreatIndices ==
  ASSUME IInv, ~ended, NEW t \in Thread, pc[t].at = "retreat", NEW c, pc' = [pc EXCEPT ![t] = c],
         c.at = "undo", Used' = Used, count' = count - 1
  PROVE  Counted' /\ Indices' /\ count' \in 0..(MaxArenas + Cardinality(Thread))
<1>1. /\ TypeOK /\ Indices /\ count \in Nat /\ IsFiniteSet(Retreating) /\ Cardinality(Retreating) \in Nat
      /\ Retreating # {} => Cardinality(Retreating) > 0 /\ count = MaxArenas + Cardinality(Retreating)
  BY CountIs
<1>2. pc'[t] = c /\ \A u \in Thread \ {t} : pc'[u] = pc[u]
  BY ThreadIs
<1>3. MaxArenas \in Nat /\ Cardinality(Thread) \in Nat
  BY Fixed
<1>4. t \in Retreating /\ t \notin Storing
  BY DEF Storing, Retreating
<1>5. Cardinality(Retreating) > 0 /\ count = MaxArenas + Cardinality(Retreating)
  BY <1>1, <1>4
<1>6. Storing' = Storing /\ Retreating' = Retreating \ {t} /\ \A u \in Storing : pc'[u] = pc[u]
  BY <1>2, <1>4 DEF Storing, Retreating
<1>7. IsFiniteSet(Retreating') /\ Cardinality(Retreating') = Cardinality(Retreating) - 1
  <2>1. IsFiniteSet(Retreating \ {t})
        /\ Cardinality(Retreating \ {t}) = IF t \in Retreating THEN Cardinality(Retreating) - 1 ELSE Cardinality(Retreating)
    BY <1>1, FS_RemoveElement
  <2> QED BY <1>4, <1>6, <2>1
<1>8. Retreating' = {} => Cardinality(Retreating') = 0
  BY <1>7, FS_EmptySet
<1>9. count' = MaxArenas + Cardinality(Retreating') /\ count' \in Nat /\ count' >= MaxArenas
  BY <1>1, <1>3, <1>5, <1>7
<1>10. {i \in Index : i < count'} = {i \in Index : i < count}
  BY <1>1, <1>3, <1>9 DEF Index
<1>11. Indices'
  <2>1. IF Retreating' = {} THEN count' <= MaxArenas ELSE count' = MaxArenas + Cardinality(Retreating')
    BY <1>3, <1>8, <1>9
  <2> QED BY <1>1, <1>6, <1>10, <2>1 DEF Indices, Index
<1>12. count' \in 0..(MaxArenas + Cardinality(Thread))
  BY <1>1, <1>3, <1>9 DEF TypeOK
<1>13. Counted'
  <2>1. IsFiniteSet(Used) /\ Cardinality(Used) \in Nat
    BY SetsFinite, FS_CardinalityType DEF IInv
  <2>2. One(pc[t].at \in {"store", "retreat"}) = 1 /\ One(c.at \in {"store", "retreat"}) = 0
    BY DEF One
  <2>3. count' - count = (Cardinality(Used) - Cardinality(Used)) - One(pc[t].at \in {"store", "retreat"})
                          + One(c.at \in {"store", "retreat"})
    BY <1>1, <2>1, <2>2
  <2>4. count' \in Int /\ Cardinality(Used') = Cardinality(Used)
    BY <1>1
  <2> QED BY <2>1, <2>3, <2>4, CountedNext
<1> QED BY <1>11, <1>12, <1>13

\* A page is lost.
LEMMA WorldLost ==
  ASSUME IInv, UNCHANGED <<arenas, live, external, ended>>, NEW m, m \notin lost, lost' = lost \cup {m}
  PROVE  \A q : World(q)' - World(q) = One(q = m)
<1>1. IsFiniteSet(live) /\ IsFiniteSet(live)'
  BY DEF IInv
<1>2. (\A q : /\ LiveCount(q) \in Nat /\ AreaCount(q) \in Nat /\ MetaCount(q) \in Nat
              /\ World(q) = LiveCount(q) + AreaCount(q) + MetaCount(q) + One(q \in external)
                            + One(q \in lost))'
  BY <1>1, WorldParts, PTL
<1>3. ASSUME NEW q PROVE World(q)' - World(q) = One(q = m)
  <2> DEFINE a == LiveCount(q)
             b == AreaCount(q)
             n == MetaCount(q)
             x == One(q \in external)
             y == One(q \in lost)
             z == One(q = m)
  <2>1. a \in Nat /\ b \in Nat /\ n \in Nat /\ World(q) = a + b + n + x + y
    BY <1>1, WorldParts
  <2>2. LiveCount(q)' = a
    BY DEF LiveCount, Extents, OsExtent
  <2>3. AreaCount(q)' = b /\ MetaCount(q)' = n
    <3>1. Areas1
      BY DEF Areas1, Used
    <3> QED BY <3>1, AreasKept
  <2>4. One(q \in external') = x
    OBVIOUS
  <2>5. World(q)' = LiveCount(q)' + AreaCount(q)' + MetaCount(q)' + One(q \in external') + One(q \in lost')
    BY <1>2
  <2>6. One(q \in lost') = y + z /\ y \in Nat /\ z \in Nat /\ x \in Nat
    BY DEF One
  <2>7. World(q)' = a + b + n + x + (y + z)
    BY <2>2, <2>3, <2>4, <2>5, <2>6
  <2> HIDE DEF a, b, n, x, y, z
  <2>8. World(q)' - World(q) = z
    BY <2>1, <2>6, <2>7
  <2> QED BY <2>8 DEF z
<1> QED BY <1>3

LEMMA RetreatInv ==
  ASSUME IInv, NEW t \in Thread, Retreat(t)
  PROVE  IInv'
<1> DEFINE d == pc[t]
           c == [d EXCEPT !.at = "undo", !.meta = NoPage]
           m == d.meta
<1>1. /\ d.at = "retreat" /\ d.at \in AreaAt /\ count' = count - 1 /\ Set(t, c) /\ lost' = lost \cup {m}
      /\ UNCHANGED <<mem, tryOk, hugeStart, arenas, live, map, external, calls, ended>>
  BY DEF Retreat, AreaAt
<1>2. /\ TypeOK /\ ~ended /\ d \in Control /\ d.ext = {} /\ d.stray = NoPage
      /\ ~Direct(d) /\ Area1(d) /\ m \in Page
      /\ Hand(d) = (IF d.call.op = "manage" THEN {} ELSE Span(d.lo, d.n))
      /\ Given(d) = (IF d.call.op = "manage" THEN Span(d.lo, d.ask) ELSE {})
  BY <1>1, AreaIs
<1>3. NoPage \notin Page /\ m # NoPage
  BY <1>2, Fixed DEF NoPage, Page
<1>4. /\ c \in Control /\ c.call = d.call /\ c.ask = d.ask /\ c.lo = d.lo /\ c.n = d.n /\ c.stage = d.stage
      /\ c.ext = d.ext /\ c.stray = d.stray /\ c.meta = NoPage /\ c.at = "undo"
  <2>0. "undo" \in Label
    BY DEF Label
  <2>1. c \in Control
    BY <1>2, <2>0 DEF Control
  <2> QED BY <1>2, <2>1 DEF Control
<1> HIDE DEF c
<1>5. pc \in [Thread -> Control] /\ pc' = [pc EXCEPT ![t] = c]
  BY <1>1, <1>2 DEF TypeOK, Set
<1>6. c.at \in AreaAt /\ ~Direct(c) /\ Area1(c)
  BY <1>2, <1>4 DEF AreaAt, Direct, Area1
<1>7. /\ Placed(c) /\ RealIn(mem, c)
      /\ Hand(c) = (IF c.call.op = "manage" THEN {} ELSE Span(c.lo, c.n))
      /\ Given(c) = (IF c.call.op = "manage" THEN Span(c.lo, c.ask) ELSE {})
  BY <1>2, <1>4, <1>6, AreaPlaced
<1>8. Hand(c) = Hand(d) /\ Given(c) = Given(d)
  BY <1>2, <1>4, <1>7
<1>9. \A u \in Thread : pc'[u].ext = pc[u].ext
  BY <1>4, <1>5
<1>10. Memory' = Memory /\ Apart'
  BY <1>1, <1>9, ExtKept
<1>11. Areas1 /\ Used' = Used
  BY <1>1 DEF Areas1, Used
<1>12. AreasFine' /\ \A j \in Used' : mem[arenas'[j].meta] = "rw"
  BY <1>2, <1>11, AreasSame
<1>13. m \notin lost
  <2>1. Holding(d, m)
    BY <1>2 DEF Holding, Aside
  <2>2. ~InWorld(m)
    BY <1>2, <2>1, Holders DEF IInv
  <2> QED BY <2>2 DEF InWorld
<1>14. ASSUME NEW q \in Page PROVE World(q)' - World(q) = Load(d, q) - Load(c, q)
  <2>1. World(q)' - World(q) = One(q = m)
    BY <1>1, <1>13, WorldLost
  <2>2. Aside(d) = {m} /\ Aside(c) = {NoPage} /\ InHand(c) = InHand(d)
    BY <1>2, <1>4 DEF Aside, InHand
  <2>3. One(q \in Aside(d)) = One(q = m) /\ One(q \in Aside(c)) = 0
    BY <1>3, <2>2 DEF One
  <2> DEFINE x == One(q \in Hand(d))
             y == One(q \in InHand(d))
             z == One(q = m)
  <2>4. Load(d, q) = x + y + z /\ Load(c, q) = x + y + 0
    BY <1>8, <2>2, <2>3 DEF Load
  <2>5. x \in Nat /\ y \in Nat /\ z \in Nat
    BY OneIs
  <2> HIDE DEF x, y
  <2>6. Load(d, q) - Load(c, q) = z
    <3> HIDE DEF z
    <3> QED BY <2>4, <2>5
  <2> QED BY <2>1, <2>6
<1>15. Counted' /\ Indices' /\ count' \in 0..(MaxArenas + Cardinality(Thread))
  BY <1>1, <1>2, <1>4, <1>5, <1>11, RetreatIndices
<1>16. TableStep(t, c)
  <2>1. map = {x.p \div Block : x \in live} /\ IsFiniteSet(live)
    BY DEF IInv
  <2> QED BY <1>1, <1>2, <1>4, <1>5, <1>15, <2>1 DEF TableStep, TypeOK
<1>17. TableFine(t, c)
  <2>1. \A u \in Thread : Given(pc[u]) \subseteq external' /\ \A v \in Thread \ {u} : Given(pc[u]) \cap Given(pc[v]) = {}
    BY <1>1 DEF IInv
  <2> QED BY <1>7, <1>8, <1>10, <1>12, <2>1 DEF TableFine
<1>18. TableSound'
  BY <1>1, <1>2, <1>10, <1>15, TablesKept, TableAfter
<1> QED BY <1>10, <1>12, <1>14, <1>15, <1>16, <1>17, <1>18, TableStepInv

\* The table has an arena more.
ArenaAdded(i, a) ==
  /\ arenas' \in [Index -> ArenaOf \cup {NoArena}] /\ Used' = Used \cup {i} /\ arenas'[i] = a
  /\ \A j \in Index \ {i} : arenas'[j] = arenas[j]
  /\ \A q : World(q)' - World(q) = ((One(q \in Area(a)) + One(q = a.meta)) + One(q \in external'))
                                   - One(q \in external)

LEMMA WorldArena ==
  ASSUME IInv, ~ended, NEW i \in Index \ Used, NEW a \in ArenaOf, arenas' = [arenas EXCEPT ![i] = a],
         UNCHANGED <<live, lost, ended>>
  PROVE  ArenaAdded(i, a)
<1>1. IsFiniteSet(live) /\ IsFiniteSet(live)' /\ TypeOK
  BY CountIs DEF IInv
<1>2. a # NoArena
  BY DEF ArenaOf, NoArena, Kind
<1>3. /\ arenas' \in [Index -> ArenaOf \cup {NoArena}] /\ arenas'[i] = a
      /\ \A j \in Index \ {i} : arenas'[j] = arenas[j]
  BY <1>1 DEF TypeOK
<1>4. Used' = Used \cup {i} /\ i \notin Used
  BY <1>2, <1>3 DEF Used, Index
<1>5. (\A q : /\ LiveCount(q) \in Nat /\ AreaCount(q) \in Nat /\ MetaCount(q) \in Nat
              /\ World(q) = LiveCount(q) + AreaCount(q) + MetaCount(q) + One(q \in external)
                            + One(q \in lost))'
  BY <1>1, WorldParts, PTL
<1>6. ASSUME NEW q
      PROVE  World(q)' - World(q) = ((One(q \in Area(a)) + One(q = a.meta)) + One(q \in external'))
                                    - One(q \in external)
  <2> DEFINE A == {j \in Used : q \in Area0(j)}
             A1 == {j \in Used' : q \in Area0(j)'}
             M == {j \in Used : q = arenas[j].meta /\ ~ended}
             M1 == {j \in Used' : q = arenas'[j].meta /\ ~ended'}
             n == LiveCount(q)
             x == One(q \in external)
             x1 == One(q \in external')
             y == One(q \in lost)
             f == One(q \in Area(a))
             g == One(q = a.meta)
             ca == Cardinality(A)
             cm == Cardinality(M)
  <2>1. \A j \in Used : Area0(j)' = Area0(j) /\ arenas'[j] = arenas[j] /\ j # i
    BY <1>3, <1>4 DEF Area0, Area, Used
  <2>2. Area0(i)' = Area(a)
    BY <1>3 DEF Area0, Area
  <2>3. A \ {i} = A1 \ {i} /\ M \ {i} = M1 \ {i} /\ i \notin A /\ i \notin M
    BY <1>4, <2>1
  <2>4. (i \in A1 <=> q \in Area(a)) /\ (i \in M1 <=> q = a.meta)
    BY <1>3, <1>4, <2>2
  <2>5. IsFiniteSet(A) /\ IsFiniteSet(M)
    BY <1>1, SetsFinite
  <2>6. ca \in Nat /\ Cardinality(A1) = ca - One(i \in A) + One(i \in A1)
    BY <2>3, <2>5, Recount
  <2>7. cm \in Nat /\ Cardinality(M1) = cm - One(i \in M) + One(i \in M1)
    BY <2>3, <2>5, Recount
  <2>8. /\ One(i \in A) = 0 /\ One(i \in A1) = f
        /\ One(i \in M) = 0 /\ One(i \in M1) = g
    BY <2>3, <2>4 DEF One
  <2>9. f \in Nat /\ g \in Nat /\ x \in Nat /\ x1 \in Nat /\ y \in Nat
    BY OneIs
  <2>10. AreaCount(q) = ca /\ AreaCount(q)' = Cardinality(A1)
    BY DEF AreaCount
  <2>11. MetaCount(q) = cm /\ MetaCount(q)' = Cardinality(M1)
    BY DEF MetaCount
  <2>12. LiveCount(q)' = n
    BY DEF LiveCount, Extents, OsExtent
  <2>13. n \in Nat /\ World(q) = n + ca + cm + x + y
    BY <1>1, <2>10, <2>11, WorldParts
  <2>14. World(q)' = LiveCount(q)' + AreaCount(q)' + MetaCount(q)' + One(q \in external') + One(q \in lost')
    BY <1>5
  <2>15. Cardinality(A1) = ca + f /\ Cardinality(M1) = cm + g
    <3> HIDE DEF ca, cm, f, g, A, A1, M, M1
    <3> QED BY <2>6, <2>7, <2>8, <2>9
  <2>16. World(q)' = n + (ca + f) + (cm + g) + x1 + y
    BY <2>10, <2>11, <2>12, <2>14, <2>15
  <2> HIDE DEF n, ca, cm, f, g, x, x1, y
  <2>17. World(q)' - World(q) = ((f + g) + x1) - x
    BY <2>6, <2>7, <2>9, <2>13, <2>16
  <2> QED BY <2>17 DEF f, g, x, x1
<1> QED BY <1>3, <1>4, <1>6 DEF ArenaAdded

\* The index that a thread took is its arena's.
LEMMA StoreIndices ==
  ASSUME IInv, ~ended, NEW t \in Thread, pc[t].at = "store", NEW c, pc' = [pc EXCEPT ![t] = c],
         c.at \notin {"store", "retreat"}, NEW i, i = pc[t].i, Used' = Used \cup {i}, count' = count
  PROVE  Counted' /\ Indices'
<1>1. Indices /\ count \in Nat
  BY CountIs
<1>2. pc'[t] = c /\ \A u \in Thread \ {t} : pc'[u] = pc[u]
  BY ThreadIs
<1>3. t \in Storing /\ t \notin Retreating
  BY DEF Storing, Retreating
<1>4. Storing' = Storing \ {t} /\ Retreating' = Retreating /\ \A u \in Storing \ {t} : pc'[u] = pc[u]
  BY <1>2, <1>3 DEF Storing, Retreating
<1>5. /\ Used \cup {pc[u].i : u \in Storing} = {j \in Index : j < count}
      /\ \A u \in Storing : pc[u].i \in Index \ Used /\ \A v \in Storing \ {u} : pc[v].i # pc[u].i
  BY <1>1 DEF Indices
<1>6. Indices'
  <2>1. ASSUME NEW u \in Storing'
        PROVE  pc'[u].i \in Index \ Used' /\ \A v \in Storing' \ {u} : pc'[v].i # pc'[u].i
    <3>1. u \in Storing \ {t} /\ pc'[u] = pc[u]
      BY <1>4
    <3>2. pc[u].i # i
      BY <1>3, <1>5, <3>1
    <3> QED BY <1>4, <1>5, <3>1, <3>2
  <2>2. Used' \cup {pc'[u].i : u \in Storing'} = Used \cup {pc[u].i : u \in Storing}
    <3>1. ASSUME NEW x
          PROVE  x \in Used' \cup {pc'[u].i : u \in Storing'} <=> x \in Used \cup {pc[u].i : u \in Storing}
      <4>1. x \in Used' \cup {pc'[u].i : u \in Storing'}
            <=> x \in Used \/ x = i \/ \E u \in Storing \ {t} : x = pc[u].i
        BY <1>4
      <4>2. x \in Used \cup {pc[u].i : u \in Storing}
            <=> x \in Used \/ x = i \/ \E u \in Storing \ {t} : x = pc[u].i
        BY <1>3
      <4> QED BY <4>1, <4>2
    <3> QED BY <3>1
  <2>3. {j \in Index' : j < count'} = {j \in Index : j < count}
    BY DEF Index
  <2>4. IF Retreating' = {} THEN count' <= MaxArenas ELSE count' = MaxArenas + Cardinality(Retreating')
    BY <1>1, <1>4 DEF Indices
  <2> QED BY <1>5, <2>1, <2>2, <2>3, <2>4 DEF Indices, Index
<1>7. Counted'
  <2>1. IsFiniteSet(Used) /\ Cardinality(Used) \in Nat
    BY SetsFinite, FS_CardinalityType DEF IInv
  <2>2. i \notin Used
    BY <1>3, <1>5
  <2>3. Cardinality(Used') = Cardinality(Used) + 1
    BY <2>1, <2>2, FS_AddElement
  <2>4. One(pc[t].at \in {"store", "retreat"}) = 1 /\ One(c.at \in {"store", "retreat"}) = 0
    BY DEF One
  <2> DEFINE n == Cardinality(Used')
             m == Cardinality(Used)
  <2>5. n = m + 1 /\ m \in Nat /\ n \in Nat
    BY <2>1, <2>3
  <2>6. count' - count = (n - m) - 1 + 0
    <3> HIDE DEF n, m
    <3> QED BY <1>1, <2>5
  <2>7. count' - count = (n - m) - One(pc[t].at \in {"store", "retreat"}) + One(c.at \in {"store", "retreat"})
    BY <2>4, <2>6
  <2>8. count' \in Int
    BY <1>1
  <2> QED BY <2>1, <2>5, <2>7, <2>8, CountedNext
<1> QED BY <1>6, <1>7

\* A thread that goes on to try the arena it has made, or is done.
Stored(k, i) ==
  IF k.op = "alloc"
  THEN [Idle EXCEPT !.call = k, !.at = "try", !.stage = "fresh", !.i = i, !.max = i + 1]
  ELSE Idle

LEMMA StoredNext ==
  ASSUME NEW k \in Calls, NEW i \in Index, NEW c, c = Stored(k, i)
  PROVE  /\ c \in Control /\ c.at \in {"idle", "try"} /\ Placed(c) /\ Given(c) = {} /\ c.ext = {}
         /\ \A m : RealIn(m, c)
         /\ \A q \in Page : Load(c, q) = 0
<1>1. CASE k.op = "alloc"
  <2> DEFINE e == [Idle EXCEPT !.call = k, !.at = "try", !.stage = "fresh", !.i = i, !.max = i + 1]
  <2>1. /\ i \in 0..(MaxArenas + Cardinality(Thread)) /\ i + 1 \in 0..(MaxArenas + Cardinality(Thread))
        /\ "try" \in Label /\ "fresh" \in {"table", "fresh", "os"}
    BY Fixed DEF Index, Label
  <2>2. e \in Control
    BY <2>1, IdleIs DEF Control
  <2>3. e.at = "try" /\ e.call = k /\ e.ext = {} /\ e.stray = NoPage /\ e.meta = NoPage /\ e.stage = "fresh"
    BY <2>2, IdleIs DEF Control
  <2> HIDE DEF e
  <2>4. Hand(e) = {} /\ Has(e) /\ ~Direct(e) /\ Given(e) = {} /\ \A m : RealIn(m, e)
    BY <2>3 DEF Hand, HandAt, Has, Direct, Given, AreaAt, RealIn, AskAt
  <2>5. Placed(e)
    BY <1>1, <2>3, <2>4 DEF Placed, ExtAt, AskAt, HugeAt, AreaAt
  <2>6. Once(e) /\ Held(e) = {}
    BY <2>3, <2>4, HugePlain
  <2>7. \A q \in Page : Load(e, q) = 0
    BY <2>6, OnceLoad DEF One
  <2>8. c = e
    BY <1>1 DEF e, Stored
  <2> QED BY <2>2, <2>3, <2>4, <2>5, <2>7, <2>8
<1>2. CASE k.op # "alloc"
  <2>1. c = Idle
    BY <1>2 DEF Stored
  <2> QED BY <2>1, IdleIs, IdleHolds, IdleLoad
<1> QED BY <1>1, <1>2

\* What is stored.
NewArena(c) ==
  [kind |-> IF c.call.op = "huge" THEN "huge" ELSE IF c.call.op = "manage" THEN "external" ELSE "os",
   start |-> c.lo, size |-> c.ask, meta |-> c.meta, pinned |-> c.pinned, exclusive |-> c.call.exclusive,
   node |-> IF c.call.op \in {"huge", "manage"} THEN c.call.node ELSE -1, inuse |-> {}]

LEMMA NewArenaIs ==
  ASSUME NEW d \in Control, d.call \in Calls, Area1(d), d.meta \in Page
  PROVE  /\ NewArena(d) \in ArenaOf /\ NewArena(d).start = d.lo /\ NewArena(d).size = d.ask
         /\ NewArena(d).meta = d.meta /\ NewArena(d).inuse = {} /\ NewArena(d) # NoArena
         /\ Area(NewArena(d)) = Span(d.lo, d.ask) /\ Span(d.lo, d.ask) \subseteq Page
<1> DEFINE k == IF d.call.op = "huge" THEN "huge" ELSE IF d.call.op = "manage" THEN "external" ELSE "os"
           n == IF d.call.op \in {"huge", "manage"} THEN d.call.node ELSE -1
           a == NewArena(d)
<1>1. k \in Kind
  BY DEF Kind
<1>2. d.call \in Call
  BY CallIs
<1>3. n \in {-1, 0, 1} /\ d.call.exclusive \in BOOLEAN
  BY <1>2 DEF Call
<1>4. d.ask \in Nat /\ d.ask > 0 /\ d.lo \in Nat /\ d.lo + d.ask <= Pages
  BY DEF Control, Area1
<1>5. d.lo \in Page /\ d.ask \in 1..Pages /\ Span(d.lo, d.ask) \subseteq Page
  BY <1>4, Fixed, SpanInPage DEF Page
<1>6. {} \in SUBSET (0..Pages) /\ d.pinned \in BOOLEAN
  BY DEF Control
<1>7. a = [kind |-> k, start |-> d.lo, size |-> d.ask, meta |-> d.meta, pinned |-> d.pinned,
           exclusive |-> d.call.exclusive, node |-> n, inuse |-> {}]
  BY DEF NewArena
<1> HIDE DEF k, n, a
<1>8. a \in ArenaOf
  BY <1>1, <1>3, <1>5, <1>6, <1>7 DEF ArenaOf
<1>9. a.start = d.lo /\ a.size = d.ask /\ a.meta = d.meta /\ a.inuse = {}
  BY <1>7
<1>10. a # NoArena
  BY <1>8 DEF ArenaOf, NoArena, Kind
<1>11. Area(a) = Span(d.lo, d.ask)
  BY <1>9 DEF Area
<1> QED BY <1>5, <1>8, <1>9, <1>10, <1>11 DEF a

LEMMA StoreAtInv ==
  ASSUME IInv, NEW t \in Thread, StoreArena(t), NEW i, i = pc[t].i
  PROVE  IInv'
<1> DEFINE d == pc[t]
           op == d.call.op
           a == NewArena(d)
           c == Stored(d.call, i)
           area == Span(d.lo, d.ask)
<1>1. /\ d.at = "store" /\ d.at \in AreaAt /\ Set(t, c) /\ arenas' = [arenas EXCEPT ![i] = a]
      /\ external' = IF op = "manage" THEN external \ area ELSE external
      /\ UNCHANGED <<mem, tryOk, hugeStart, count, live, map, lost, calls, ended>>
  BY DEF StoreArena, AreaAt, IndexOf, NewArena, Stored
<1>2. /\ TypeOK /\ ~ended /\ d \in Control /\ d.ext = {} /\ d.stray = NoPage
      /\ ~Direct(d) /\ Area1(d) /\ d.meta \in Page
      /\ Hand(d) = (IF op = "manage" THEN {} ELSE Span(d.lo, d.n))
      /\ Given(d) = (IF op = "manage" THEN area ELSE {})
      /\ Given(d) \subseteq external
  BY <1>1, AreaIs
<1>3. d.call \in Calls
  BY <1>2 DEF Control, Area1, NoCall
<1>4. /\ a \in ArenaOf /\ a.start = d.lo /\ a.size = d.ask /\ a.meta = d.meta /\ a.inuse = {} /\ a # NoArena
      /\ Area(a) = area /\ area \subseteq Page
  BY <1>2, <1>3, NewArenaIs
<1>5. mem[d.meta] = "rw"
  <2>1. Real(d)
    BY ThreadIs
  <2> QED BY <1>1, <2>1 DEF Real
<1>6. i \in Index /\ i \notin Used
  <2>1. t \in Storing
    BY <1>1 DEF Storing
  <2> QED BY <1>2, <2>1, CountIs DEF Indices
<1> HIDE DEF c, a
<1>7. /\ c \in Control /\ c.at \in {"idle", "try"} /\ Placed(c) /\ Given(c) = {} /\ c.ext = {}
      /\ RealIn(mem, c) /\ \A q \in Page : Load(c, q) = 0
  BY <1>3, <1>6, StoredNext DEF c
<1>8. pc \in [Thread -> Control] /\ pc' = [pc EXCEPT ![t] = c]
  BY <1>1, <1>2 DEF TypeOK, Set
<1>9. /\ arenas' \in [Index -> ArenaOf \cup {NoArena}] /\ Used' = Used \cup {i} /\ arenas'[i] = a
      /\ \A j \in Index \ {i} : arenas'[j] = arenas[j]
      /\ \A q : World(q)' - World(q) = ((One(q \in Area(a)) + One(q = a.meta)) + One(q \in external'))
                                       - One(q \in external)
  <2>1. ArenaAdded(i, a)
    BY <1>1, <1>2, <1>4, <1>6, WorldArena
  <2> QED BY <2>1 DEF ArenaAdded
<1>10. \A u \in Thread : pc'[u].ext = pc[u].ext
  BY <1>2, <1>7, <1>8
<1>11. Memory' = Memory /\ Apart'
  BY <1>1, <1>10, ExtKept
<1>12. ASSUME NEW q \in Page PROVE World(q)' - World(q) = Load(d, q) - Load(c, q)
  <2> DEFINE x == One(q \in external)
             x1 == One(q \in external')
             f == One(q \in area)
             g == One(q = d.meta)
             h == One(q \in Hand(d))
  <2>1. World(q)' - World(q) = ((f + g) + x1) - x
    BY <1>4, <1>9
  <2>2. f \in Nat /\ g \in Nat /\ x \in Nat /\ x1 \in Nat /\ h \in Nat
    BY OneIs
  <2>3. (f + x1) - x = h
    <3>1. CASE op = "manage"
      <4>1. h = 0 /\ area \subseteq external /\ external' = external \ area
        BY <1>1, <1>2, <3>1 DEF One
      <4>2. f + x1 = x
        BY <4>1 DEF One
      <4> HIDE DEF f, x1, x, h
      <4> QED BY <2>2, <4>1, <4>2
    <3>2. CASE op # "manage"
      <4>1. Hand(d) = area /\ external' = external
        BY <1>1, <1>2, <3>2 DEF Area1
      <4>2. h = f /\ x1 = x
        BY <4>1
      <4> HIDE DEF f, x1, x, h
      <4> QED BY <2>2, <4>2
    <3> QED BY <3>1, <3>2
  <2>4. Load(d, q) = h + g
    <3>1. Aside(d) = {d.meta} /\ InHand(d) = {}
      BY <1>2 DEF Aside, InHand
    <3>2. One(q \in InHand(d)) = 0 /\ One(q \in Aside(d)) = g
      BY <3>1 DEF One
    <3>3. Load(d, q) = h + 0 + g
      BY <3>2 DEF Load
    <3> HIDE DEF h, g
    <3> QED BY <2>2, <3>3
  <2>5. Load(c, q) = 0
    BY <1>7
  <2> HIDE DEF x, x1, f, g, h
  <2>6. ((f + g) + x1) - x = h + g
    BY <2>2, <2>3
  <2>7. h + g \in Nat
    BY <2>2
  <2> QED BY <2>1, <2>4, <2>5, <2>6, <2>7
<1>13. Counted' /\ Indices'
  <2>1. c.at \notin {"store", "retreat"}
    BY <1>7
  <2> QED BY <1>1, <1>2, <1>8, <1>9, <2>1, StoreIndices
<1>14. AreasFine' /\ \A j \in Used' : mem[arenas'[j].meta] = "rw"
  <2>1. Accessible /\ \A j \in Used : arenas[j].start % Block = 0 /\ Area0(j) \subseteq Page
    BY DEF IInv
  <2>2. \A j \in Used : arenas'[j] = arenas[j] /\ Area0(j)' = Area0(j)
    BY <1>6, <1>9 DEF Area0, Area, Used
  <2>3. Area0(i)' = area
    BY <1>4, <1>9 DEF Area0, Area
  <2>4. a.start % Block = 0
    BY <1>2, <1>4 DEF Area1
  <2>5. AreasFine'
    BY <1>4, <1>9, <2>1, <2>2, <2>3, <2>4 DEF AreasFine
  <2>6. \A j \in Used' : mem[arenas'[j].meta] = "rw"
    BY <1>2, <1>4, <1>5, <1>9, <2>1, <2>2 DEF Accessible
  <2> QED BY <2>5, <2>6
<1>15. TableStep(t, c)
  <2>1. map = {x.p \div Block : x \in live} /\ IsFiniteSet(live)
    BY DEF IInv
  <2>2. external' \subseteq Page
    BY <1>1, <1>2 DEF TypeOK
  <2> QED BY <1>1, <1>2, <1>7, <1>8, <1>9, <2>1, <2>2 DEF TableStep, TypeOK
<1>16. TableFine(t, c)
  <2>1. \A u \in Thread : Given(pc[u]) \subseteq external /\ \A v \in Thread \ {u} : Given(pc[u]) \cap Given(pc[v]) = {}
    BY DEF IInv
  <2>2. external' = external \ Given(d)
    BY <1>1, <1>2
  <2>3. \A u \in Thread \ {t} : Given(pc[u]) \subseteq external'
    BY <2>1, <2>2
  <2> QED BY <1>7, <1>11, <1>14, <2>3 DEF TableFine
<1>17. TableSound'
  <2>1. \A j : Tenants(j)' = Tenants(j)
    <3>1. ASSUME NEW j PROVE Tenants(j)' = Tenants(j)
      BY <1>11, TenantsAre, TenantsAfter
    <3> QED BY <3>1
  <2>2. \A j \in Index : TableAt(j)
    BY <1>2, TableIs DEF IInv
  <2>3. ASSUME NEW j \in Index \ {i} PROVE TableAt(j)'
    BY <1>9, <2>1, <2>2 DEF TableAt
  <2>4. TableAt(i)'
    <3>1. arenas[i] = NoArena
      BY <1>6 DEF Used
    <3>2. Tenants(i) = {}
      BY <1>6, <2>2, <3>1 DEF TableAt, TableOf
    <3>3. a.inuse = UNION {Bits(a, e) : e \in {}}
      BY <1>4
    <3>4. TableOf(a, {})
      BY <1>4, <3>3 DEF TableOf
    <3>5. Tenants(i)' = {}
      BY <2>1, <3>2
    <3> QED BY <1>9, <3>4, <3>5 DEF TableAt
  <2> QED BY <1>13, <2>3, <2>4, TableAfter
<1> QED BY <1>11, <1>12, <1>13, <1>14, <1>15, <1>16, <1>17, TableStepInv

LEMMA StoreArenaInv ==
  ASSUME IInv, NEW t \in Thread, StoreArena(t)
  PROVE  IInv'
BY StoreAtInv

-----------------------------------------------------------------------------
(* A segment commits or decommits a part of its memory.                    *)

\* Segment e becomes f, with K committed.
Recommits(e, f, K) ==
  /\ f = [e EXCEPT !.committed = K] /\ K \subseteq Span(e.p, e.size)
  /\ live' = (live \ {e}) \cup {f}
  /\ mem' \in [Page -> {"free", "none", "rw"}]
  /\ \A q \in Page : /\ mem'[q] # mem[q] => q \in Span(e.p, e.size)
                     /\ mem'[q] = "free" <=> mem[q] = "free"
  /\ \A q \in K : mem'[q] = "rw"
  /\ UNCHANGED <<tryOk, hugeStart, pc, arenas, count, map, external, lost, calls, ended>>

\* What is the same of both.
LEMMA RecommitIs ==
  ASSUME IInv, ~ended, NEW e \in live, e.id = 0, NEW f, NEW K, Recommits(e, f, K)
  PROVE  /\ f \in ExtentOf /\ Sound(f) /\ f.id = 0 /\ f.p = e.p /\ f.size = e.size /\ f.committed = K
         /\ Extents(f) = Extents(e) /\ (f # e => f \notin live)
         /\ e \in Memory /\ \A u \in Thread : e \notin pc[u].ext
<1>1. TypeOK /\ e \in Memory /\ e \in ExtentOf /\ Sound(e)
  BY CountIs DEF IInv, Memory, TypeOK
<1>2. Span(e.p, e.size) \subseteq Page
  BY <1>1, SpanHeld
<1>3. K \in SUBSET Page
  BY <1>2 DEF Recommits
<1>4. f \in ExtentOf /\ f.id = e.id /\ f.base = e.base /\ f.p = e.p /\ f.size = e.size /\ f.committed = K
  BY <1>1, <1>3 DEF Recommits, ExtentOf
<1>5. Sound(f) /\ Extents(f) = Extents(e)
  BY <1>1, <1>4 DEF Sound, Extents
<1>6. f # e => f \notin live
  <2>1. SUFFICES ASSUME f # e, f \in live PROVE FALSE
    OBVIOUS
  <2>2. Span(e.p, e.size) \cap Span(f.p, f.size) = {}
    BY <2>1, SpansApart DEF Memory
  <2>3. e.p \in Span(e.p, e.size)
    BY <1>1, ExtentIs DEF Span
  <2> QED BY <1>4, <2>2, <2>3
<1>7. \A u \in Thread : e \notin pc[u].ext
  BY ExtNotLive
<1> QED BY <1>1, <1>4, <1>5, <1>6, <1>7

LEMMA RecommitWorld ==
  ASSUME IInv, ~ended, NEW e \in live, e.id = 0, NEW f, NEW K, Recommits(e, f, K)
  PROVE  IsFiniteSet(live)' /\ \A q : World(q)' = World(q)
<1>1. /\ Extents(f) = Extents(e) /\ (f # e => f \notin live) /\ live' = (live \ {e}) \cup {f}
      /\ UNCHANGED <<arenas, external, lost, ended>>
  BY RecommitIs DEF Recommits
<1>2. IsFiniteSet(live)
  BY DEF IInv
<1>3. IsFiniteSet(live)'
  <2>1. IsFiniteSet(live \ {e})
    BY <1>2, FS_RemoveElement
  <2>2. IsFiniteSet((live \ {e}) \cup {f})
    BY <2>1, FS_AddElement
  <2> QED BY <1>1, <2>2
<1>4. (\A q : /\ LiveCount(q) \in Nat /\ AreaCount(q) \in Nat /\ MetaCount(q) \in Nat
              /\ World(q) = LiveCount(q) + AreaCount(q) + MetaCount(q) + One(q \in external)
                            + One(q \in lost))'
  BY <1>3, WorldParts, PTL
<1>5. ASSUME NEW q PROVE World(q)' = World(q)
  <2> DEFINE A == {x \in live : q \in Extents(x)}
             C == A \ {e}
             B == {x \in live' : q \in Extents(x)}
  <2>1. IsFiniteSet(A) /\ IsFiniteSet(C)
    <3>1. IsFiniteSet(A)
      BY <1>2, SetsFinite
    <3> QED BY <3>1, FS_RemoveElement
  <2>2. A \ {e} = C \ {e} /\ e \notin C /\ (e \in A <=> q \in Extents(e))
    OBVIOUS
  <2>3. C \ {f} = B \ {f} /\ f \notin C /\ (f \in B <=> q \in Extents(e))
    BY <1>1
  <2>4. Cardinality(A) \in Nat /\ Cardinality(C) = Cardinality(A) - One(e \in A) + One(e \in C)
    BY <2>1, <2>2, Recount
  <2>5. Cardinality(C) \in Nat /\ Cardinality(B) = Cardinality(C) - One(f \in C) + One(f \in B)
    BY <2>1, <2>3, Recount
  <2>6. One(e \in A) = One(f \in B) /\ One(e \in C) = 0 /\ One(f \in C) = 0 /\ One(f \in B) \in Nat
    BY <2>2, <2>3 DEF One
  <2>7. LiveCount(q) = Cardinality(A) /\ LiveCount(q)' = Cardinality(B)
    BY DEF LiveCount, Extents, OsExtent
  <2> HIDE DEF A, B, C
  <2>8. Cardinality(B) = Cardinality(A)
    BY <2>4, <2>5, <2>6
  <2>9. Areas1
    BY <1>1 DEF Areas1, Used
  <2>10. AreaCount(q)' = AreaCount(q) /\ MetaCount(q)' = MetaCount(q)
    BY <1>1, <2>9, AreasKept
  <2>11. World(q)' = LiveCount(q)' + AreaCount(q)' + MetaCount(q)' + One(q \in external') + One(q \in lost')
    BY <1>4
  <2>12. World(q) = LiveCount(q) + AreaCount(q) + MetaCount(q) + One(q \in external) + One(q \in lost)
    BY <1>2, WorldParts
  <2> QED BY <1>1, <2>7, <2>8, <2>10, <2>11, <2>12
<1> QED BY <1>3, <1>5

LEMMA RecommitInv ==
  ASSUME IInv, ~ended, NEW e \in live, e.id = 0, NEW f, NEW K, Recommits(e, f, K)
  PROVE  IInv'
<1> DEFINE S == Span(e.p, e.size)
<1>1. /\ f \in ExtentOf /\ Sound(f) /\ f.id = 0 /\ f.p = e.p /\ f.size = e.size /\ f.committed = K
      /\ Extents(f) = Extents(e) /\ (f # e => f \notin live)
      /\ e \in Memory /\ \A u \in Thread : e \notin pc[u].ext
  BY RecommitIs
<1>2. /\ K \subseteq S /\ live' = (live \ {e}) \cup {f}
      /\ mem' \in [Page -> {"free", "none", "rw"}]
      /\ \A q \in Page : mem'[q] # mem[q] => q \in S
      /\ \A q \in Page : mem'[q] = "free" <=> mem[q] = "free"
      /\ \A q \in K : mem'[q] = "rw"
      /\ UNCHANGED <<tryOk, hugeStart, pc, arenas, count, map, external, lost, calls, ended>>
  BY DEF Recommits
<1>3. /\ TypeOK /\ Accounted /\ Accessible /\ Apart /\ IsFiniteSet(live) /\ Indices /\ Counted
      /\ map = {x.p \div Block : x \in live} /\ pc \in [Thread -> Control]
  BY CountIs DEF IInv, TypeOK
<1>4. IsFiniteSet(live)' /\ \A q : World(q)' = World(q)
  BY RecommitWorld
<1>5. TypeOK'
  BY <1>1, <1>2, <1>3 DEF TypeOK
<1>6. Accounted'
  <2>1. (\A q : World(q) \in Nat /\ Holds(q) = World(q) + Threads(q))'
    BY <1>4, HoldsAre, PTL
  <2>2. \A q : Threads(q)' = Threads(q)
    BY <1>2 DEF Threads, Hand, InHand, Aside, Extents, OsExtent
  <2>3. ASSUME NEW q \in Page PROVE Holds(q)' = One(mem'[q] # "free")
    <3>1. Holds(q) = One(mem[q] # "free") /\ Holds(q) = World(q) + Threads(q)
      BY <1>3, HoldsIs DEF Accounted
    <3>2. Holds(q)' = World(q)' + Threads(q)'
      BY <2>1
    <3>3. One(mem'[q] # "free") = One(mem[q] # "free")
      BY <1>2 DEF One
    <3> QED BY <1>4, <2>2, <3>1, <3>2, <3>3
  <2> QED BY <1>5, <2>3 DEF Accounted
<1>7. \A x : x \in Memory' <=> (x \in Memory /\ x # e) \/ x = f
  <2>1. \A x : x \in Memory' <=> x \in live' \/ \E u \in Thread : x \in pc[u].ext
    BY <1>2 DEF Memory
  <2>2. \A x : x \in Memory <=> x \in live \/ \E u \in Thread : x \in pc[u].ext
    BY DEF Memory
  <2> QED BY <1>1, <1>2, <2>1, <2>2
<1>8. ASSUME NEW q \in Page, q \in S
      PROVE  InWorld(q) /\ (\A u \in Thread : ~Holding(pc[u], q)) /\ \A i \in Used : q # arenas[i].meta
  <2>1. q \in Extents(e)
    BY <1>1, <1>8, SpanHeld
  <2>2. InWorld(q)
    BY <2>1 DEF InWorld
  <2>3. Single(q) /\ \A u \in Thread : ~Holding(pc[u], q)
    BY <1>3, <2>2, Holders
  <2> QED BY <2>1, <2>2, <2>3 DEF Single
<1>9. Accessible'
  <2>1. ASSUME NEW x \in Memory' PROVE ExtIn(mem', x)
    <3>1. CASE x = f
      BY <1>1, <1>2, <3>1 DEF ExtIn
    <3>2. CASE x # f
      <4>1. x \in Memory /\ x # e
        BY <1>7, <3>2
      <4>2. x.committed \subseteq Span(x.p, x.size) /\ \A q \in x.committed : mem[q] = "rw"
        BY <1>3, <4>1 DEF Accessible, Memory
      <4>3. x.committed \subseteq Page /\ S \cap Span(x.p, x.size) = {}
        BY <1>3, <4>1, ExtentIs, SpansApart
      <4> QED BY <1>2, <4>2, <4>3 DEF ExtIn
    <3> QED BY <3>1, <3>2
  <2>2. ASSUME NEW i \in Used' PROVE mem'[arenas'[i].meta] = "rw"
    <3>1. i \in Used /\ arenas'[i] = arenas[i] /\ mem[arenas[i].meta] = "rw"
      BY <1>2, <1>3 DEF Used, Index, Accessible
    <3>2. arenas[i] \in ArenaOf
      BY <1>3, <3>1 DEF TypeOK, Used
    <3>3. arenas[i].meta \in Page
      BY <3>2 DEF ArenaOf
    <3> QED BY <1>2, <1>8, <3>1, <3>3
  <2> QED BY <2>1, <2>2 DEF Accessible, Memory, ExtIn
<1>10. ThreadsFine'
  <2>1. ASSUME NEW u \in Thread PROVE RealIn(mem', pc[u])
    <3>1. Placed(pc[u]) /\ Real(pc[u]) /\ pc[u] \in Control /\ Hand(pc[u]) \subseteq Page
      BY ThreadIs
    <3>2. \A q \in Hand(pc[u]) : mem'[q] = mem[q]
      BY <1>2, <1>8, <3>1 DEF Holding
    <3>3. pc[u].at = "got" /\ Direct(pc[u])
          => Span(pc[u].lo + pc[u].skip, pc[u].call.size) \subseteq Hand(pc[u])
      BY <3>1, GotInHand
    <3>4. pc[u].at \in {"add", "retreat", "store"} => mem'[pc[u].meta] = mem[pc[u].meta]
      <4>1. SUFFICES ASSUME pc[u].at \in {"add", "retreat", "store"} PROVE mem'[pc[u].meta] = mem[pc[u].meta]
        OBVIOUS
      <4>2. pc[u].meta \in Page
        BY <3>1, <4>1 DEF Placed
      <4>3. Holding(pc[u], pc[u].meta)
        BY DEF Holding, Aside
      <4> QED BY <1>2, <1>8, <4>2, <4>3
    <3> QED BY <3>1, <3>2, <3>3, <3>4 DEF Real, RealIn
  <2>2. \A u \in Thread : /\ Placed(pc[u]) /\ Given(pc[u]) \subseteq external
                          /\ \A v \in Thread \ {u} : Given(pc[u]) \cap Given(pc[v]) = {}
    BY DEF IInv
  <2>3. \A u \in Thread : /\ Placed(pc'[u]) /\ RealIn(mem', pc'[u]) /\ Given(pc'[u]) \subseteq external'
                          /\ \A v \in Thread \ {u} : Given(pc'[u]) \cap Given(pc'[v]) = {}
    BY <1>2, <2>1, <2>2
  <2> QED BY <2>3 DEF ThreadsFine, Real, RealIn, Placed, Given, Direct, Has, Hand, Wants, Area1
<1>11. MemoryFine'
  <2>1. \A x \in Memory' : Sound(x)
    BY <1>1, <1>7 DEF IInv
  <2>2. map' = {x.p \div Block : x \in live'}
    BY <1>1, <1>2, <1>3
  <2>3. hugeStart' % Block = 0
    BY <1>2 DEF IInv
  <2> QED BY <1>2, <1>4, <2>1, <2>2, <2>3 DEF MemoryFine, Sound
<1>12. AreasFine'
  <2>1. Areas1
    BY <1>2 DEF Areas1, Used
  <2> QED BY <2>1, AreasSame
<1>13. TableSound'
  <2>1. ASSUME NEW j \in Index PROVE TableAt(j)'
    <3>1. TableAt(j)
      BY <1>3, TableIs DEF IInv
    <3>2. Tenants(j) = {x \in Memory : x.id = j + 1} /\ Tenants(j)' = {x \in Memory' : x.id = j + 1}
      BY TenantsAre, TenantsAfter
    <3>3. j + 1 # 0
      BY Fixed DEF Index
    <3>4. \A x : x \in Tenants(j)' <=> x \in Tenants(j)
      BY <1>1, <1>7, <3>2, <3>3
    <3>5. Tenants(j)' = Tenants(j)
      BY <3>4
    <3> QED BY <1>2, <3>1, <3>5 DEF TableAt
  <2>2. Counted'
    BY <1>2, <1>3 DEF Counted, Used, Index
  <2> QED BY <2>1, <2>2, TableAfter
<1>14. Indices'
  BY <1>2, <1>3 DEF Indices, Storing, Retreating, Used, Index
<1>15. Apart'
  <2>1. ASSUME NEW x \in live', NEW y \in live' \ {x} PROVE Span(x.p, x.size) \cap Span(y.p, y.size) = {}
    <3>1. \A a \in live : \A b \in live \ {a} : Span(a.p, a.size) \cap Span(b.p, b.size) = {}
      BY <1>3 DEF Apart
    <3>2. CASE x = f
      <4>1. y \in live \ {e}
        BY <1>2, <3>2
      <4> QED BY <1>1, <3>1, <3>2, <4>1
    <3>3. CASE y = f
      <4>1. x \in live \ {e}
        BY <1>2, <3>3
      <4>2. Span(e.p, e.size) \cap Span(x.p, x.size) = {}
        BY <3>1, <4>1
      <4> QED BY <1>1, <3>3, <4>2
    <3>4. CASE x # f /\ y # f
      BY <1>2, <3>1, <3>4
    <3> QED BY <3>2, <3>3, <3>4
  <2>2. ASSUME NEW u \in Thread, NEW x \in pc'[u].ext, x.id # 0
        PROVE  x \notin live' /\ \A v \in Thread \ {u} : x \notin pc'[v].ext
    BY <1>1, <1>2, <1>3, <2>2 DEF Apart
  <2> QED BY <2>1, <2>2 DEF Apart
<1>16. (~ended => Indices)'
  BY <1>14
<1> QED BY <1>6, <1>9, <1>10, <1>11, <1>12, <1>13, <1>15, <1>16, Parted, PTL

\* The part lies in the segment, and all of the segment is mapped.
LEMMA PartOf ==
  ASSUME IInv, ~ended, NEW e \in live, e.id = 0
  PROVE  /\ Span(e.p + 1, e.size - 1) \subseteq Span(e.p, e.size)
         /\ Span(e.p, e.size) \subseteq Page /\ e.committed \subseteq Span(e.p, e.size)
         /\ \A q \in Span(e.p, e.size) : mem[q] # "free"
         /\ \A q \in e.committed : mem[q] = "rw"
         /\ mem \in [Page -> {"free", "none", "rw"}]
<1>1. TypeOK /\ Accounted /\ Accessible /\ IsFiniteSet(live) /\ e \in Memory
  BY CountIs DEF IInv, Memory
<1>2. e.p \in Nat /\ e.size \in Nat
  BY <1>1, ExtentIs
<1>3. Span(e.p + 1, e.size - 1) \subseteq Span(e.p, e.size)
  BY <1>2 DEF Span
<1>4. ASSUME NEW q \in Span(e.p, e.size) PROVE q \in Page /\ mem[q] # "free"
  <2>1. q \in Page /\ q \in Extents(e)
    BY <1>1, SpanHeld
  <2>2. InWorld(q)
    BY <2>1 DEF InWorld
  <2> QED BY <1>1, <2>1, <2>2, Holders
<1>5. e.committed \subseteq Span(e.p, e.size) /\ \A q \in e.committed : mem[q] = "rw"
  BY <1>1 DEF Accessible, Memory
<1> QED BY <1>1, <1>3, <1>4, <1>5 DEF TypeOK

LEMMA CommitPartInv ==
  ASSUME IInv, NEW t \in Thread, NEW e \in live, CommitPart(t, e)
  PROVE  IInv'
<1> DEFINE S == Span(e.p + 1, e.size - 1)
           K == e.committed \cup S
           f == [e EXCEPT !.committed = K]
<1>1. /\ ~ended /\ e.id = 0 /\ mem' = Protect(S, "rw") /\ live' = (live \ {e}) \cup {f}
      /\ UNCHANGED <<tryOk, hugeStart, pc, arenas, count, map, external, lost, calls, ended>>
  BY DEF CommitPart
<1>2. /\ S \subseteq Span(e.p, e.size) /\ e.committed \subseteq Span(e.p, e.size)
      /\ Span(e.p, e.size) \subseteq Page /\ \A q \in Span(e.p, e.size) : mem[q] # "free"
      /\ \A q \in e.committed : mem[q] = "rw"
      /\ mem \in [Page -> {"free", "none", "rw"}]
  BY <1>1, PartOf
<1>3. mem' = [q \in Page |-> IF q \in S THEN "rw" ELSE mem[q]]
  BY <1>1 DEF Protect
<1> HIDE DEF S
<1>4. mem' \in [Page -> {"free", "none", "rw"}]
  BY <1>2, <1>3
<1>5. \A q \in Page : /\ mem'[q] # mem[q] => q \in Span(e.p, e.size)
                      /\ mem'[q] = "free" <=> mem[q] = "free"
  BY <1>2, <1>3
<1>6. \A q \in K : mem'[q] = "rw"
  BY <1>2, <1>3
<1>7. Recommits(e, f, K)
  BY <1>1, <1>2, <1>4, <1>5, <1>6 DEF Recommits
<1> QED BY <1>1, <1>7, RecommitInv

LEMMA DecommitPartInv ==
  ASSUME IInv, NEW t \in Thread, NEW e \in live, DecommitPart(t, e)
  PROVE  IInv'
<1> DEFINE S == Span(e.p + 1, e.size - 1)
           K == IF DEBUG THEN e.committed \ S ELSE e.committed
           f == [e EXCEPT !.committed = K]
<1>1. /\ ~ended /\ e.id = 0 /\ mem' = Decommit(e.p + 1, e.size - 1) /\ live' = (live \ {e}) \cup {f}
      /\ UNCHANGED <<tryOk, hugeStart, pc, arenas, count, map, external, lost, calls, ended>>
  BY DEF DecommitPart
<1>2. /\ S \subseteq Span(e.p, e.size) /\ e.committed \subseteq Span(e.p, e.size)
      /\ Span(e.p, e.size) \subseteq Page /\ \A q \in Span(e.p, e.size) : mem[q] # "free"
      /\ \A q \in e.committed : mem[q] = "rw"
      /\ mem \in [Page -> {"free", "none", "rw"}]
  BY <1>1, PartOf
<1>3. mem' = (IF DEBUG THEN [q \in Page |-> IF q \in S THEN "none" ELSE mem[q]] ELSE mem)
  BY <1>1 DEF Decommit, Protect
<1> HIDE DEF S
<1>4. mem' \in [Page -> {"free", "none", "rw"}]
  BY <1>2, <1>3
<1>5. \A q \in Page : /\ mem'[q] # mem[q] => q \in Span(e.p, e.size)
                      /\ mem'[q] = "free" <=> mem[q] = "free"
  BY <1>2, <1>3
<1>6. \A q \in K : mem'[q] = "rw"
  BY <1>2, <1>3
<1>7. K \subseteq Span(e.p, e.size)
  BY <1>2
<1> HIDE DEF K
<1>8. Recommits(e, f, K)
  BY <1>1, <1>4, <1>5, <1>6, <1>7 DEF Recommits
<1> QED BY <1>1, <1>8, RecommitInv

-----------------------------------------------------------------------------
(* The end of the process.                                                 *)

WorldSound == \A q : World(q) \in Nat /\ (World(q) > 0 <=> InWorld(q))

LEMMA WorldsAre == IsFiniteSet(live) => WorldSound
BY WorldIs DEF WorldSound

\* What is freed in the end.
Doomed(q) == (\E i \in Owned : q \in Area0(i)) \/ (\E i \in Used : q = arenas[i].meta)

\* Nothing else has a page that is freed.
LEMMA DoomedOnce ==
  ASSUME IInv, ~ended, NEW q \in Page, Doomed(q)
  PROVE  /\ \A e \in live : q \notin Extents(e)
         /\ \A i \in Used \ Owned : q \notin Area0(i)
         /\ q \notin external /\ q \notin lost
<1>1. Accounted /\ IsFiniteSet(live)
  BY DEF IInv
<1>2. Single(q)
  BY <1>1, Holders
<1>3. Owned \subseteq Used
  BY DEF Owned
<1> QED BY <1>2, <1>3 DEF Single, Doomed

LEMMA DestroyWorld ==
  ASSUME IInv, UnsafeDestroy, NEW q \in Page
  PROVE  World(q)' = (IF Doomed(q) THEN 0 ELSE World(q))
<1>1. ~ended /\ ended' /\ UNCHANGED <<live, external, lost>>
      /\ arenas' = [i \in Index |-> IF i \in Owned THEN NoArena ELSE arenas[i]]
  BY DEF UnsafeDestroy
<1>2. IsFiniteSet(live)
  BY DEF IInv
<1>3. IsFiniteSet(live)'
  BY <1>1, <1>2
<1>4. Owned \subseteq Used /\ Used \subseteq Index
  BY DEF Owned, Used
<1>5. Used' = Used \ Owned /\ \A i \in Used' : arenas'[i] = arenas[i]
  BY <1>1, <1>4 DEF Used
<1>6. \A i \in Used' : Area0(i)' = Area0(i)
  BY <1>5 DEF Area0, Area
<1>7. CASE Doomed(q)
  <2>1. /\ \A e \in live : q \notin Extents(e)
        /\ \A i \in Used \ Owned : q \notin Area0(i)
        /\ q \notin external /\ q \notin lost
    BY <1>1, <1>7, DoomedOnce
  <2>2. WorldSound'
    BY <1>3, WorldsAre, PTL
  <2>3. ~InWorld(q)'
    BY <1>1, <1>5, <1>6, <2>1 DEF InWorld, Extents, OsExtent
  <2>4. World(q)' \in Nat /\ ~(World(q)' > 0)
    BY <2>2, <2>3 DEF WorldSound
  <2> QED BY <1>7, <2>4
<1>8. CASE ~Doomed(q)
  <2>1. {e \in live' : q \in Extents(e)} = {e \in live : q \in Extents(e)}
    BY <1>1
  <2>2. {i \in Used' : q \in Area0(i)'} = {i \in Used : q \in Area0(i)}
    BY <1>4, <1>5, <1>6, <1>8 DEF Doomed
  <2>3. {i \in Used' : q = arenas'[i].meta /\ ~ended'} = {i \in Used : q = arenas[i].meta /\ ~ended}
    BY <1>1, <1>8 DEF Doomed
  <2>4. World(q)' = Cardinality({e \in live' : q \in Extents(e)})
                    + Cardinality({i \in Used' : q \in Area0(i)'})
                    + Cardinality({i \in Used' : q = arenas'[i].meta /\ ~ended'})
                    + One(q \in external') + One(q \in lost')
    BY DEF World, Extents, OsExtent, One
  <2>5. World(q)' = World(q)
    BY <1>1, <2>1, <2>2, <2>3, <2>4 DEF World
  <2> QED BY <1>8, <2>5
<1> QED BY <1>7, <1>8

LEMMA UnsafeDestroyInv ==
  ASSUME IInv, UnsafeDestroy
  PROVE  IInv'
<1> DEFINE F == (UNION {Area0(i) : i \in Owned}) \cup {arenas[i].meta : i \in Used}
<1>1. /\ ~ended /\ ended' = TRUE /\ \A t \in Thread : pc[t].at = "idle"
      /\ mem' = Unmap(F) /\ count' = Max({0} \cup (Used \ Owned))
      /\ arenas' = [i \in Index |-> IF i \in Owned THEN NoArena ELSE arenas[i]]
      /\ UNCHANGED <<tryOk, hugeStart, pc, live, map, external, lost, calls>>
  BY DEF UnsafeDestroy
<1>2. /\ TypeOK /\ Accounted /\ Accessible /\ Apart /\ IsFiniteSet(live)
      /\ map = {x.p \div Block : x \in live} /\ hugeStart % Block = 0
  BY DEF IInv, Accounted
<1>3. \A q : q \in F <=> Doomed(q)
  <2>1. \A q : q \in UNION {Area0(i) : i \in Owned} <=> \E i \in Owned : q \in Area0(i)
    OBVIOUS
  <2> QED BY <2>1 DEF Doomed
<1> HIDE DEF F
<1>4. /\ mem' \in [Page -> {"free", "none", "rw"}]
      /\ \A q \in Page : mem'[q] = IF Doomed(q) THEN "free" ELSE mem[q]
  BY <1>1, <1>2, <1>3, UnmapIs
<1>5. Owned \subseteq Used /\ Used \subseteq Index
  BY DEF Owned, Used
<1>6. Used' = Used \ Owned /\ \A i \in Used' : arenas'[i] = arenas[i]
  BY <1>1, <1>5 DEF Used
<1>7. \A t \in Thread : pc[t] = Idle
  BY <1>1 DEF IInv, Placed
<1>8. TypeOK'
  <2>1. count' \in 0..(MaxArenas + Cardinality(Thread))
    <3> DEFINE U == {0} \cup (Used \ Owned)
    <3>1. U \in SUBSET Nat /\ U # {} /\ \A x \in U : x <= MaxArenas
      BY <1>5, Fixed DEF Index
    <3>2. Max(U) \in U
      BY <3>1, Fixed, MaxIs
    <3> QED BY <1>1, <3>1, <3>2, Fixed
  <2>2. arenas' \in [Index -> ArenaOf \cup {NoArena}]
    BY <1>1, <1>2 DEF TypeOK
  <2> QED BY <1>1, <1>2, <1>4, <2>1, <2>2 DEF TypeOK
<1>9. Accounted'
  <2>1. IsFiniteSet(live)'
    BY <1>1, <1>2
  <2>2. (\A q : World(q) \in Nat /\ Holds(q) = World(q) + Threads(q))'
    BY <2>1, HoldsAre, PTL
  <2>3. ASSUME NEW q \in Page PROVE Holds(q)' = One(mem'[q] # "free")
    <3>1. Threads(q)' = Threads(q)
      BY <1>1 DEF Threads, Hand, InHand, Aside, Extents, OsExtent
    <3>2. World(q)' = (IF Doomed(q) THEN 0 ELSE World(q))
      BY DestroyWorld
    <3>3. Holds(q) = One(mem[q] # "free") /\ World(q) \in Nat /\ Threads(q) \in Nat
          /\ Holds(q) = World(q) + Threads(q)
      BY <1>2, HoldsIs DEF Accounted
    <3>4. Holds(q)' = World(q)' + Threads(q)'
      BY <2>2
    <3>5. CASE Doomed(q)
      <4>1. InWorld(q)
        BY <1>1, <1>5, <3>5 DEF InWorld, Doomed
      <4>2. World(q) > 0
        BY <1>2, <4>1, WorldIs
      <4>3. One(mem[q] # "free") <= 1 /\ One(mem[q] # "free") \in Nat
        BY OneIs
      <4>4. Threads(q) = 0
        BY <3>3, <4>2, <4>3
      <4>5. One(mem'[q] # "free") = 0
        BY <1>4, <3>5 DEF One
      <4> QED BY <3>1, <3>2, <3>4, <3>5, <4>4, <4>5
    <3>6. CASE ~Doomed(q)
      <4>1. One(mem'[q] # "free") = One(mem[q] # "free")
        BY <1>4, <3>6
      <4> QED BY <3>1, <3>2, <3>3, <3>4, <3>6, <4>1
    <3> QED BY <3>5, <3>6
  <2> QED BY <1>8, <2>3 DEF Accounted
<1>10. Memory' = Memory /\ Apart'
  BY <1>1, ExtKept
<1>11. Accessible'
  <2>1. ASSUME NEW e \in Memory
        PROVE  e.committed \subseteq Span(e.p, e.size)
               /\ (e.id = 0 => \A q \in e.committed : mem'[q] = "rw")
    <3>1. e.committed \subseteq Span(e.p, e.size) /\ \A q \in e.committed : mem[q] = "rw"
      BY <1>1, <1>2 DEF Accessible, Memory
    <3>2. ASSUME e.id = 0, NEW q \in e.committed PROVE mem'[q] = "rw"
      <4>1. q \in Page /\ q \in Extents(e)
        BY <1>1, <3>1, <3>2, SpanHeld
      <4>2. e \in live
        BY <1>7 DEF Memory, Idle
      <4>3. ~Doomed(q)
        BY <1>1, <4>1, <4>2, DoomedOnce
      <4> QED BY <1>4, <3>1, <4>1, <4>3
    <3> QED BY <3>1, <3>2
  <2> QED BY <1>1, <1>10, <2>1 DEF Accessible, Memory
<1>12. ThreadsFine'
  <2>1. \A t \in Thread : /\ Placed(pc[t]) /\ Given(pc[t]) \subseteq external
                          /\ \A u \in Thread \ {t} : Given(pc[t]) \cap Given(pc[u]) = {}
    BY DEF IInv
  <2>2. \A t \in Thread : RealIn(mem', pc[t])
    BY <1>1 DEF RealIn, AskAt
  <2>3. \A t \in Thread : /\ Placed(pc'[t]) /\ RealIn(mem', pc'[t]) /\ Given(pc'[t]) \subseteq external'
                          /\ \A u \in Thread \ {t} : Given(pc'[t]) \cap Given(pc'[u]) = {}
    BY <1>1, <2>1, <2>2
  <2> QED BY <2>3 DEF ThreadsFine, Real, RealIn, Placed, Given, Direct, Has, Hand, Wants, Area1
<1>13. MemoryFine'
  <2>1. \A x \in Memory' : Sound(x)
    BY <1>10 DEF IInv
  <2>2. IsFiniteSet(live)' /\ map' = {x.p \div Block : x \in live'} /\ hugeStart' % Block = 0
    BY <1>1, <1>2
  <2>3. \A t \in Thread : pc'[t].at = "idle"
    BY <1>1
  <2> QED BY <2>1, <2>2, <2>3 DEF MemoryFine, Sound
<1>14. AreasFine'
  <2>1. \A i \in Used : arenas[i].start % Block = 0 /\ Area0(i) \subseteq Page
    BY DEF IInv
  <2> QED BY <1>5, <1>6, <2>1 DEF AreasFine, Area0, Area
<1>15. TableSound'
  BY <1>1 DEF TableSound
<1>16. (~ended => Indices)'
  BY <1>1
<1> QED BY <1>9, <1>10, <1>11, <1>12, <1>13, <1>14, <1>15, <1>16, Parted, PTL

-----------------------------------------------------------------------------
(* The invariant.                                                          *)

LEMMA InitInv == Init => IInv
<1> SUFFICES ASSUME Init PROVE IInv
  OBVIOUS
<1>1. /\ mem = [q \in Page |-> "free"] /\ tryOk = 0 /\ hugeStart = 0
      /\ pc = [t \in Thread |-> Idle] /\ arenas = [i \in Index |-> NoArena] /\ count = 0
      /\ live = {} /\ map = {} /\ external = {} /\ lost = {} /\ calls = 0 /\ ended = FALSE
  BY DEF Init
<1>2. Used = {} /\ Storing = {} /\ Retreating = {} /\ Memory = {}
  BY <1>1, IdleIs DEF Used, Storing, Retreating, Memory
<1>3. TypeOK
  <2>1. Idle \in Control /\ pc \in [Thread -> Control]
    BY <1>1, IdleIs
  <2>2. arenas \in [Index -> ArenaOf \cup {NoArena}] /\ mem \in [Page -> {"free", "none", "rw"}]
    BY <1>1
  <2>3. 0 \in 0..Retry /\ 0 \in 0..(MaxArenas + Cardinality(Thread)) /\ 0 \in 0..MaxCalls /\ 0 \in Nat
    BY Fixed
  <2> QED BY <1>1, <2>1, <2>2, <2>3 DEF TypeOK
<1>4. Accounted
  <2>1. ASSUME NEW q \in Page PROVE Holds(q) = One(mem[q] # "free")
    <3>1. ~Holding(Idle, q)
      BY IdleHolds DEF Held
    <3>2. /\ {e \in live : q \in Extents(e)} = {} /\ {t \in Thread : q \in Hand(pc[t])} = {}
          /\ {t \in Thread : q \in InHand(pc[t])} = {} /\ {t \in Thread : q \in Aside(pc[t])} = {}
          /\ {i \in Used : q \in Area0(i)} = {} /\ {i \in Used : q = arenas[i].meta /\ ~ended} = {}
          /\ One(q \in external) = 0 /\ One(q \in lost) = 0 /\ One(mem[q] # "free") = 0
      BY <1>1, <1>2, <3>1 DEF One, Holding
    <3>3. Cardinality({}) = 0
      BY FS_EmptySet
    <3>4. Holds(q) = 0 + 0 + 0 + 0 + 0 + 0 + 0 + 0
      BY <3>2, <3>3, Zenon DEF Holds
    <3> QED BY <3>2, <3>4
  <2> QED BY <1>3, <2>1 DEF Accounted
<1>5. Accessible
  BY <1>2 DEF Accessible, Memory
<1>6. TableSound
  <2>1. \A i \in Index : TableAt(i)
    BY <1>1, <1>2, TenantsAre DEF TableAt, TableOf
  <2>2. Counted
    <3>1. {t \in Thread : pc[t].at \in {"store", "retreat"}} = {}
      BY <1>1, IdleIs
    <3>2. Cardinality({}) = 0
      BY FS_EmptySet
    <3> QED BY <1>1, <1>2, <3>1, <3>2 DEF Counted
  <2> QED BY <2>1, <2>2, TableNext
<1>7. Apart
  BY <1>1, IdleIs DEF Apart
<1>8. ThreadsFine
  <2>1. \A t \in Thread : pc[t] = Idle
    BY <1>1
  <2>2. Placed(Idle) /\ Given(Idle) = {} /\ Real(Idle)
    BY IdleHolds DEF Real, RealIn
  <2> QED BY <2>1, <2>2 DEF ThreadsFine
<1>9. MemoryFine
  <2>1. IsFiniteSet(live)
    BY <1>1, FS_EmptySet
  <2>2. hugeStart % Block = 0
    BY <1>1, Fixed
  <2> QED BY <1>1, <1>2, <2>1, <2>2 DEF MemoryFine
<1>10. AreasFine
  BY <1>2 DEF AreasFine
<1>11. Indices
  <2>1. {i \in Index : i < count} = {}
    BY <1>1, Fixed DEF Index
  <2> QED BY <1>1, <1>2, <2>1, Fixed DEF Indices
<1> QED BY <1>4, <1>5, <1>6, <1>7, <1>8, <1>9, <1>10, <1>11, Parted

LEMMA StepInv ==
  ASSUME IInv, NEW t \in Thread, Step(t)
  PROVE  IInv'
<1>1. CASE OsStep(t) /\ UNCHANGED tableVars
  BY <1>1, OsStepInv
<1>2. CASE \E c \in Calls : \/ Alloc(t, c) \/ ReserveOsMemory(t, c)
                            \/ ReserveHugePages(t, c) \/ ManageOsMemory(t, c)
  BY <1>2, AllocInv, ReserveOsMemoryInv, ReserveHugePagesInv, ManageOsMemoryInv
<1>3. CASE CountArenas(t) \/ TryArena(t) \/ ReserveArena(t) \/ Fallback(t)
  BY <1>3, CountArenasInv, TryArenaInv, ReserveArenaInv, FallbackInv
<1>4. CASE OsFailed(t) \/ OsGot(t) \/ CommitInfo(t) \/ Enter(t)
  BY <1>4, OsFailedInv, OsGotInv, CommitInfoInv, EnterInv
<1>5. CASE \E e \in live : CommitPart(t, e) \/ DecommitPart(t, e) \/ BeginFree(t, e)
  BY <1>5, CommitPartInv, DecommitPartInv, BeginFreeInv
<1>6. CASE ArenaFree(t) \/ AllocMeta(t) \/ AddArena(t) \/ Retreat(t) \/ StoreArena(t)
  BY <1>6, ArenaFreeInv, AllocMetaInv, AddArenaInv, RetreatInv, StoreArenaInv
<1>7. CASE UndoManage(t) \/ UndoReserve(t) \/ UndoHuge(t)
  BY <1>7, UndoManageInv, UndoReserveInv, UndoHugeInv
<1> QED BY <1>1, <1>2, <1>3, <1>4, <1>5, <1>6, <1>7 DEF Step

LEMMA StutterInv ==
  ASSUME IInv, UNCHANGED vars
  PROVE  IInv'
<1>1. UNCHANGED <<mem, tryOk, hugeStart, pc, arenas, count, live, map, external, lost, calls, ended>>
  BY DEF vars, osVars, tableVars
<1>2. Used' = Used /\ Memory' = Memory
  BY <1>1 DEF Used, Memory
<1>3. TypeOK'
  BY <1>1 DEF IInv, Accounted, TypeOK
<1>4. Accounted'
  <2>1. \A q : Holds(q)' = Holds(q)
    BY <1>1 DEF Holds, Hand, InHand, Aside, Extents, OsExtent, Used, Area0, Area
  <2> QED BY <1>1, <1>3, <2>1 DEF IInv, Accounted
<1>5. Accessible'
  BY <1>1, <1>2 DEF IInv, Accessible
<1>6. TableSound'
  <2>1. \A i : Tenants(i)' = Tenants(i)
    BY <1>1 DEF Tenants
  <2>2. CASE ended
    BY <1>1, <2>2 DEF TableSound
  <2>3. CASE ~ended
    <3>1. (\A i \in Index : TableAt(i)) /\ Counted
      BY <2>3, TableIs DEF IInv
    <3>2. \A i \in Index : TableAt(i)'
      BY <1>1, <2>1, <3>1 DEF TableAt
    <3>3. Counted'
      BY <1>1, <1>2, <3>1 DEF Counted
    <3> QED BY <3>2, <3>3, TableAfter
  <2> QED BY <2>2, <2>3
<1>7. Apart'
  BY <1>1 DEF IInv, Apart
<1>8. ThreadsFine'
  <2>1. \A t \in Thread : /\ Placed(pc[t]) /\ RealIn(mem, pc[t]) /\ Given(pc[t]) \subseteq external
                          /\ \A u \in Thread \ {t} : Given(pc[t]) \cap Given(pc[u]) = {}
    BY DEF IInv, Real, RealIn
  <2>2. \A t \in Thread : /\ Placed(pc'[t]) /\ RealIn(mem', pc'[t]) /\ Given(pc'[t]) \subseteq external'
                          /\ \A u \in Thread \ {t} : Given(pc'[t]) \cap Given(pc'[u]) = {}
    BY <1>1, <2>1
  <2> QED BY <2>2 DEF ThreadsFine, Real, RealIn, Placed, Given, Direct, Has, Hand, Wants, Area1
<1>9. MemoryFine'
  BY <1>1, <1>2 DEF IInv, MemoryFine, Sound
<1>10. AreasFine'
  BY <1>1, <1>2 DEF IInv, AreasFine, Area0, Area
<1>11. (~ended => Indices)'
  BY <1>1, <1>2 DEF IInv, Indices, Storing, Retreating
<1> QED BY <1>4, <1>5, <1>6, <1>7, <1>8, <1>9, <1>10, <1>11, Parted, PTL

LEMMA NextInv == IInv /\ [Next]_vars => IInv'
BY StepInv, UnsafeDestroyInv, StutterInv DEF Next

(***************************************************************************)
(* Every state has the inductive invariant.                                *)
(***************************************************************************)
THEOREM Invariance == Spec => []IInv
BY InitInv, NextInv, PTL DEF Spec

(***************************************************************************)
(* Accounted always: whatever threads map, over-allocate, trim, reserve or *)
(* register, and whichever call of the OS fails, every mapped page has one *)
(* holder and every free page has none.                                    *)
(***************************************************************************)
THEOREM MemoryAccounted == Spec => []Accounted
<1>1. IInv => Accounted
  BY DEF IInv
<1> QED BY Invariance, <1>1, PTL

(***************************************************************************)
(* Accessible always: a segment never takes a page for committed that it   *)
(* cannot access, and no arena is published before its descriptor is.      *)
(***************************************************************************)
THEOREM MemoryAccessible == Spec => []Accessible
<1>1. IInv => Accessible
  BY DEF IInv
<1> QED BY Invariance, <1>1, PTL

(***************************************************************************)
(* TableSound always: with any number of threads that add arenas to a      *)
(* table of any size, a segment lies in blocks of the arena its memid      *)
(* names, no two segments share a block, and the count of arenas is that   *)
(* of the entries and of the threads with an index in hand.                *)
(***************************************************************************)
THEOREM TableAlwaysSound == Spec => []TableSound
<1>1. IInv => TableSound
  BY DEF IInv
<1> QED BY Invariance, <1>1, PTL

-----------------------------------------------------------------------------
(* The search in the segment map.                                          *)

\* The part a segment begins in, and how many it has.
First(e) == e.p \div Block
Need(e) == AlignUp(e.size, Block) \div Block

LEMMA PartsOf ==
  ASSUME IInv, NEW e \in live
  PROVE  /\ First(e) \in 0..(Pages \div Block) /\ First(e) \in Nat /\ First(e) \in map
         /\ Need(e) \in Nat /\ Need(e) > 0
         /\ \A s \in Nat : s * Block \in Span(e.p, e.size) <=> First(e) <= s /\ s < First(e) + Need(e)
<1>1. TypeOK /\ Sound(e) /\ map = {x.p \div Block : x \in live} /\ e \in Memory
  BY DEF IInv, Accounted, Memory
<1>2. e.p \in Nat /\ e.size \in Nat /\ e.size > 0 /\ e.p % Block = 0 /\ e.p < Pages
  BY <1>1, ExtentIs, Fixed DEF Sound, Page
<1>3. Block \in Nat /\ Block > 0 /\ Pages \in Nat
  BY Fixed
<1> DEFINE f == First(e)
           k == Need(e)
           a == AlignUp(e.size, Block)
<1>4. f \in Int /\ e.p = Block * f
  BY <1>2, <1>3, Euclid DEF First
<1>5. f \in Nat
  <2>1. ASSUME f < 0 PROVE FALSE
    <3>1. Block * f + Block <= Block * 0
      BY <1>3, <1>4, <2>1, Steps
    <3> QED BY <1>2, <1>3, <1>4, <3>1
  <2> QED BY <1>4, <2>1
<1>6. f <= Pages \div Block /\ Pages \div Block \in Int
  BY <1>2, <1>3, QuotientGrows, Euclid DEF First
<1>7. a \in Int /\ a % Block = 0 /\ e.size <= a /\ a < e.size + Block
  <2>1. e.size \in Int
    BY <1>2
  <2> QED BY <1>3, <2>1, AlignUpIs
<1>8. k \in Int /\ a = Block * k
  BY <1>3, <1>7, Euclid DEF Need
<1> HIDE DEF a
<1>9. k > 0
  <2>1. ASSUME k < 1 PROVE FALSE
    <3>1. Block * k + Block <= Block * 1
      BY <1>3, <1>8, <2>1, Steps
    <3> QED BY <1>2, <1>3, <1>7, <1>8, <3>1
  <2> QED BY <1>8, <2>1
<1> HIDE DEF f, k
<1>10. ASSUME NEW s \in Nat
       PROVE  s * Block \in Span(e.p, e.size) <=> f <= s /\ s < f + k
  <2> DEFINE d == s - f
  <2>1. d \in Int /\ s = f + d /\ s * Block = e.p + Block * d
    BY <1>3, <1>4
  <2> HIDE DEF d
  <2>2. s * Block \in Span(e.p, e.size) <=> 0 <= Block * d /\ Block * d < e.size
    <3>1. Block * d \in Int
      BY <1>3, <2>1
    <3> QED BY <1>2, <2>1, <3>1 DEF Span
  <2>3. CASE d < 0
    <3>1. Block * d + Block <= Block * 0
      BY <1>3, <2>1, <2>3, Steps
    <3>2. Block * d < 0
      BY <1>3, <2>1, <3>1
    <3>3. ~(f <= s)
      BY <1>4, <2>1, <2>3
    <3> QED BY <1>3, <2>1, <2>2, <3>2, <3>3
  <2>4. CASE 0 <= d /\ d < k
    <3>1. Block * d + Block <= Block * k
      BY <1>3, <1>8, <2>1, <2>4, Steps
    <3>2. 0 <= Block * d
      BY <1>3, <2>1, <2>4
    <3>5. Block * d \in Int /\ Block * k \in Int
      BY <1>3, <1>8, <2>1
    <3>3. Block * d < e.size
      BY <1>2, <1>3, <1>7, <1>8, <3>1, <3>5
    <3>4. f <= s /\ s < f + k
      BY <1>4, <1>8, <2>1, <2>4
    <3> QED BY <2>2, <3>2, <3>3, <3>4
  <2>5. CASE k <= d
    <3>1. Block * k <= Block * d
      <4>1. k < d => Block * k + Block <= Block * d
        BY <1>3, <1>8, <2>1, Steps
      <4>2. k = d => Block * k = Block * d
        OBVIOUS
      <4> QED BY <1>3, <1>8, <2>1, <2>5, <4>1, <4>2
    <3>2. Block * d \in Int /\ Block * k \in Int
      BY <1>3, <1>8, <2>1
    <3>3. ~(Block * d < e.size)
      BY <1>2, <1>7, <1>8, <3>1, <3>2
    <3>4. ~(s < f + k)
      BY <1>4, <1>8, <2>1, <2>5
    <3> QED BY <2>2, <3>3, <3>4
  <2> QED BY <1>8, <2>1, <2>3, <2>4, <2>5
<1>11. f \in map
  BY <1>1 DEF f, First
<1> QED BY <1>4, <1>5, <1>6, <1>8, <1>9, <1>10, <1>11 DEF f, k

\* No two segments have a part in common.
LEMMA PartsApart ==
  ASSUME IInv, NEW e \in live, NEW g \in live, NEW s \in Nat,
         First(e) <= s, s < First(e) + Need(e), First(g) <= s, s < First(g) + Need(g)
  PROVE  e = g
<1>1. s * Block \in Span(e.p, e.size) /\ s * Block \in Span(g.p, g.size)
  BY PartsOf
<1> QED BY <1>1 DEF IInv, Apart

LEMMA BitsAre ==
  ASSUME IInv
  PROVE  /\ map \subseteq 0..(Pages \div Block) /\ map \in SUBSET Nat /\ Pages \div Block \in Nat
         /\ \A b \in map : \E e \in live : b = First(e) /\ Parts[b] = Need(e)
<1>1. map = {First(x) : x \in live}
  BY DEF IInv, First
<1>2. map \subseteq 0..(Pages \div Block) /\ map \in SUBSET Nat
  BY <1>1, PartsOf
<1>3. Pages \div Block \in Nat
  <2>1. Pages \div Block \in 0..Pages
    BY Fixed, QuotientIn
  <2> QED BY <2>1, Fixed
<1>4. ASSUME NEW b \in map PROVE \E e \in live : b = First(e) /\ Parts[b] = Need(e)
  <2> DEFINE e == CHOOSE x \in live : x.p \div Block = b
  <2>1. e \in live /\ e.p \div Block = b
    BY <1>1 DEF First
  <2>2. Parts[b] = AlignUp(e.size, Block) \div Block
    BY DEF Parts
  <2> QED BY <2>1, <2>2 DEF First, Need
<1> QED BY <1>2, <1>3, <1>4

\* A bound on a set of bits, and its highest bit.
LEMMA MaxBit ==
  ASSUME IInv, NEW S \in SUBSET map, S # {}
  PROVE  Max(S) \in S /\ \A b \in S : b <= Max(S)
<1>1. S \in SUBSET Nat /\ \A b \in S : b <= Pages \div Block
  BY BitsAre
<1> QED BY <1>1, BitsAre, MaxIs

\* The search never ends above the part it began in.
LEMMA CandidateIs ==
  ASSUME IInv, NEW s \in Nat
  PROVE  /\ Candidate(map, s) = NoSegment
            \/ (Candidate(map, s) \in map /\ Candidate(map, s) <= s)
         /\ \A b \in map : b <= s /\ WordOf(b) = WordOf(s) =>
              Candidate(map, s) \in map /\ b <= Candidate(map, s)
<1> DEFINE w == WordOf(s)
           lobits == {b \in WordBits(map, w) : b < s}
           v == LowIndex(map, w)
           lomask == WordBits(map, v)
<1>1. Width \in Nat /\ Width > 0 /\ w \in Nat
  <2>1. Width \in Nat /\ Width > 0
    BY WidthAssumption
  <2>2. w \in 0..s
    BY <2>1, QuotientIn DEF WordOf
  <2> QED BY <2>1, <2>2
<1>2. map \in SUBSET Nat /\ lobits \subseteq map /\ lomask \subseteq map
  BY BitsAre DEF WordBits
<1>3. Candidate(map, s) = (IF s \in map THEN s
                           ELSE IF lobits # {} THEN Max(lobits)
                           ELSE IF w = 0 \/ lomask = {} THEN NoSegment
                           ELSE Max(lomask))
  BY DEF Candidate
<1>4. lobits # {} => Max(lobits) \in lobits /\ \A b \in lobits : b <= Max(lobits)
  BY <1>2, MaxBit
<1>5. w # 0 /\ lomask # {} => Max(lomask) \in map /\ Max(lomask) < s
  <2>1. SUFFICES ASSUME w # 0, lomask # {} PROVE Max(lomask) \in map /\ Max(lomask) < s
    OBVIOUS
  <2>2. v \in Nat /\ v < w
    <3> DEFINE V == {0} \cup {x \in 0..(w - 1) : WordBits(map, x) = {}}
    <3>1. V \in SUBSET Nat /\ V # {} /\ \A x \in V : x <= w
      BY <1>1
    <3>2. Max(V) \in V
      BY <1>1, <3>1, MaxIs
    <3>3. v = Max(V)
      BY DEF LowIndex
    <3> QED BY <1>1, <2>1, <3>2, <3>3
  <2> HIDE DEF v
  <2>3. Max(lomask) \in lomask
    BY <1>2, <2>1, MaxBit
  <2> DEFINE m == Max(lomask)
  <2>4. m \in map /\ WordOf(m) = v
    BY <2>3 DEF WordBits
  <2> HIDE DEF m
  <2>5. m \in Nat /\ m \in Int /\ s \in Int
    BY <1>2, <2>4
  <2>6. ~(s <= m)
    <3>1. SUFFICES ASSUME s <= m PROVE FALSE
      OBVIOUS
    <3>2. s \div Width <= m \div Width
      BY <1>1, <2>5, <3>1, QuotientGrows
    <3>3. w <= v
      BY <2>4, <3>2 DEF WordOf
    <3> QED BY <1>1, <2>2, <3>3
  <2>7. m \in map /\ m < s
    BY <2>4, <2>5, <2>6
  <2> QED BY <2>7 DEF m
<1>6. \A b \in map : b < s /\ WordOf(b) = WordOf(s) => b \in lobits
  BY DEF WordBits
<1>7. \A b \in lobits : b \in map /\ b < s
  BY <1>2
<1> HIDE DEF w, lobits, v, lomask
<1>8. CASE s \in map
  BY <1>2, <1>3, <1>8
<1>9. CASE s \notin map /\ lobits # {}
  <2>1. Candidate(map, s) \in lobits /\ \A b \in lobits : b <= Candidate(map, s)
    BY <1>3, <1>4, <1>9
  <2>2. Candidate(map, s) \in map /\ Candidate(map, s) < s
    BY <1>7, <2>1
  <2>4. Candidate(map, s) \in Nat
    BY <1>2, <2>2
  <2>3. ASSUME NEW b \in map, b <= s, WordOf(b) = WordOf(s) PROVE b <= Candidate(map, s)
    <3>1. b < s
      BY <1>2, <1>9, <2>3
    <3> QED BY <1>6, <2>1, <2>3, <3>1
  <2> QED BY <2>2, <2>3, <2>4
<1>10. CASE s \notin map /\ lobits = {}
  <2>1. \A b \in map : ~(b <= s /\ WordOf(b) = WordOf(s))
    BY <1>2, <1>6, <1>10
  <2>2. Candidate(map, s) = NoSegment \/ (Candidate(map, s) \in map /\ Candidate(map, s) <= s)
    <3>1. Candidate(map, s) = (IF w = 0 \/ lomask = {} THEN NoSegment ELSE Max(lomask))
      BY <1>3, <1>10
    <3>2. Max(lomask) \in map => Max(lomask) \in Nat
      BY <1>2
    <3>3. CASE w = 0 \/ lomask = {}
      <4>1. Candidate(map, s) = NoSegment
        BY <3>1, <3>3, Zenon
      <4> QED BY <4>1
    <3>4. CASE w # 0 /\ lomask # {}
      <4> DEFINE m == Max(lomask)
      <4>1. m \in map /\ m < s /\ m \in Nat /\ Candidate(map, s) = m
        BY <1>5, <3>1, <3>2, <3>4
      <4> HIDE DEF m
      <4>2. m <= s
        BY <4>1
      <4> QED BY <4>1, <4>2
    <3> QED BY <3>3, <3>4
  <2> QED BY <2>1, <2>2
<1> QED BY <1>8, <1>9, <1>10

\* What the search finds is a segment that has the part.
LEMMA FoundIs ==
  ASSUME IInv, NEW s \in Nat, SegmentOf(map, Parts, s) # NoSegment
  PROVE  \E e \in live : SegmentOf(map, Parts, s) = First(e) /\ First(e) <= s /\ s < First(e) + Need(e)
<1> DEFINE c == Candidate(map, s)
<1>1. c # NoSegment /\ ~(c + Parts[c] <= s) /\ SegmentOf(map, Parts, s) = c
  BY DEF SegmentOf
<1>2. c \in map /\ c <= s
  BY <1>1, CandidateIs
<1>3. PICK e \in live : c = First(e) /\ Parts[c] = Need(e)
  BY <1>2, BitsAre
<1>4. First(e) \in Nat /\ Need(e) \in Nat
  BY PartsOf
<1> HIDE DEF c
<1> QED BY <1>1, <1>2, <1>3, <1>4

\* And the segment that has the part is found, if its bit is in the same word.
LEMMA FindsIt ==
  ASSUME IInv, NEW s \in Nat, NEW e \in live, First(e) <= s, s < First(e) + Need(e),
         WordOf(s) = WordOf(First(e))
  PROVE  SegmentOf(map, Parts, s) = First(e)
<1> DEFINE c == Candidate(map, s)
<1>1. First(e) \in map /\ First(e) \in Nat /\ Need(e) \in Nat
  BY PartsOf
<1>2. c \in map /\ First(e) <= c
  BY <1>1, CandidateIs
<1>3. c # NoSegment /\ c \in Nat /\ c <= s
  BY <1>2, CandidateIs, BitsAre DEF NoSegment
<1>4. PICK g \in live : c = First(g) /\ Parts[c] = Need(g)
  BY <1>2, BitsAre
<1>5. First(g) \in Nat /\ Need(g) \in Nat /\ Need(g) > 0
  BY PartsOf
<1> HIDE DEF c
<1>6. g = e
  <2>1. First(e) <= c /\ c < First(e) + Need(e)
    BY <1>1, <1>2, <1>3
  <2>2. First(g) <= c /\ c < First(g) + Need(g)
    BY <1>3, <1>4, <1>5
  <2> QED BY <1>3, <2>1, <2>2, PartsApart
<1>7. ~(c + Parts[c] <= s)
  BY <1>1, <1>3, <1>4, <1>6
<1>8. SegmentOf(map, Parts, s) = c
  BY <1>3, <1>7 DEF SegmentOf, c
<1> QED BY <1>4, <1>6, <1>8

LEMMA FindsAll == IInv => MapFinds
<1> SUFFICES ASSUME IInv PROVE MapFinds
  OBVIOUS
<1>1. map = {e.p \div Block : e \in live}
  BY DEF IInv
<1>2. 0..(Pages \div Block) \subseteq Nat
  BY BitsAre
<1>3. ASSUME NEW e \in live, NEW s \in In(e)
      PROVE  SegmentOf(map, Parts, s) \in
               (IF WordOf(s) = WordOf(First(e)) THEN {First(e)} ELSE {First(e), NoSegment})
  <2>1. s \in Nat /\ First(e) <= s /\ s < First(e) + Need(e)
    BY <1>2, PartsOf DEF In
  <2>2. CASE WordOf(s) = WordOf(First(e))
    BY <2>1, <2>2, FindsIt
  <2>3. CASE SegmentOf(map, Parts, s) # NoSegment
    <3>1. PICK g \in live : SegmentOf(map, Parts, s) = First(g) /\ First(g) <= s
                            /\ s < First(g) + Need(g)
      BY <2>1, <2>3, FoundIs
    <3>2. g = e
      BY <2>1, <3>1, PartsApart
    <3> QED BY <3>1, <3>2
  <2> QED BY <2>2, <2>3
<1>4. ASSUME NEW s \in 0..(Pages \div Block), \A e \in live : s \notin In(e)
      PROVE  SegmentOf(map, Parts, s) = NoSegment
  <2>1. SUFFICES ASSUME SegmentOf(map, Parts, s) # NoSegment PROVE FALSE
    OBVIOUS
  <2>2. s \in Nat
    BY <1>2
  <2>3. PICK e \in live : First(e) <= s /\ s < First(e) + Need(e)
    BY <2>1, <2>2, FoundIs
  <2>4. s \in In(e)
    BY <2>2, <2>3, PartsOf DEF In
  <2> QED BY <1>4, <2>4
<1> QED BY <1>1, <1>3, <1>4 DEF MapFinds, First

(***************************************************************************)
(* MapFinds always: the bits of the map are the segments' and, for words   *)
(* of any width, the search for a pointer's segment takes no segment for   *)
(* another and finds each from the parts in the word of its bit.           *)
(***************************************************************************)
THEOREM MapAlwaysFinds == Spec => []MapFinds
BY Invariance, FindsAll, PTL
=============================================================================

--------------------------- MODULE SATrackerProofs ---------------------------
(***************************************************************************)
(* Proofs about the tracked allocators, for any threads, allocators and    *)
(* addresses: IInv is inductive, so that no tracked address dangles and    *)
(* the mallocator knows what it must free, and a shared object outlives    *)
(* all its owners but the last.                                            *)
(***************************************************************************)
EXTENDS SATrackerProps, SequenceTheorems, FiniteSetTheorems,
        WellFoundedInduction, TLAPS

-----------------------------------------------------------------------------
(***************************************************************************)
(* Sequences.                                                              *)
(***************************************************************************)

\* A set of indices has a least element, and Min names it.
LEMMA Least ==
    ASSUME NEW I \in SUBSET Nat, I # {}
    PROVE  Min(I) \in I
<1> DEFINE R == OpToRel(<, Nat)
<1>1. IsWellFoundedOn(R, Nat)
  BY NatLessThanWellFounded
<1>2. \A x, y \in Nat : y < x => <<y, x>> \in R
  BY DEF OpToRel
<1> HIDE DEF R
<1>3. PICK x \in I : \A y \in I : <<y, x>> \notin R
  BY <1>1, WFMin
<1>4. \A y \in I : x =< y
  <2> SUFFICES ASSUME NEW y \in I PROVE x =< y
    OBVIOUS
  <2>1. x \in Nat /\ y \in Nat /\ ~(y < x)
    BY <1>2, <1>3
  <2> QED
    BY <2>1
<1> QED
  BY <1>4 DEF Min

\* The sequence without its i-th element.
LEMMA RemoveAtIs ==
    ASSUME NEW S, NEW s \in Seq(S), NEW i \in DOMAIN s
    PROVE  /\ RemoveAt(s, i) \in Seq(S)
           /\ Len(RemoveAt(s, i)) = Len(s) - 1
           /\ \A j \in 1 .. Len(s) - 1 :
                 RemoveAt(s, i)[j] = IF j < i THEN s[j] ELSE s[j + 1]
<1> DEFINE a == SubSeq(s, 1, i - 1)
           b == SubSeq(s, i + 1, Len(s))
<1>1. /\ Len(s) \in Nat /\ i \in 1 .. Len(s)
      /\ \A j \in 1 .. Len(s) : s[j] \in S
  BY LenProperties, ElementOfSeq
<1>2. /\ a \in Seq(S) /\ Len(a) = i - 1
      /\ \A j \in 1 .. i - 1 : a[j] = s[j]
  <2>1. \A j \in 1 .. i - 1 : s[j] \in S
    BY <1>1
  <2> QED
    BY <1>1, <2>1, SubSeqProperties
<1>3. /\ b \in Seq(S) /\ Len(b) = Len(s) - i
      /\ \A j \in 1 .. Len(s) - i : b[j] = s[i + j]
  <2>1. \A j \in i + 1 .. Len(s) : s[j] \in S
    BY <1>1
  <2>2. /\ SubSeq(s, i + 1, Len(s)) \in Seq(S)
        /\ Len(SubSeq(s, i + 1, Len(s)))
               = IF i + 1 <= Len(s) THEN Len(s) - (i + 1) + 1 ELSE 0
        /\ \A j \in 1 .. Len(s) - (i + 1) + 1 :
              SubSeq(s, i + 1, Len(s))[j] = s[i + 1 + j - 1]
    BY <1>1, <2>1, SubSeqProperties
  <2> QED
    BY <1>1, <2>2
<1>4. RemoveAt(s, i) = a \o b
  BY DEF RemoveAt
<1> HIDE DEF a, b
<1>5. /\ a \o b \in Seq(S)
      /\ Len(a \o b) = Len(a) + Len(b)
      /\ \A j \in 1 .. Len(a) + Len(b) :
            (a \o b)[j] = IF j <= Len(a) THEN a[j] ELSE b[j - Len(a)]
  BY <1>2, <1>3, ConcatProperties
<1> DEFINE c == a \o b
<1>6. Len(c) = Len(a) + Len(b) /\ Len(a) + Len(b) = Len(s) - 1
  BY <1>1, <1>2, <1>3, <1>5
<1>7. /\ c \in Seq(S)
      /\ \A j \in 1 .. Len(a) + Len(b) :
            c[j] = IF j <= Len(a) THEN a[j] ELSE b[j - Len(a)]
  BY <1>5, Zenon
<1> HIDE DEF c
<1>8. /\ c \in Seq(S) /\ Len(c) = Len(s) - 1
      /\ \A j \in 1 .. Len(s) - 1 :
            c[j] = IF j <= Len(a) THEN a[j] ELSE b[j - Len(a)]
  BY <1>6, <1>7
<1>9. ASSUME NEW j \in 1 .. Len(s) - 1
      PROVE  c[j] = IF j < i THEN s[j] ELSE s[j + 1]
  <2>1. CASE j < i
    BY <2>1, <1>1, <1>2, <1>3, <1>8
  <2>2. CASE ~(j < i)
    <3>1. j - Len(a) \in 1 .. Len(s) - i /\ i + (j - Len(a)) = j + 1
      BY <2>2, <1>1, <1>2
    <3>2. c[j] = b[j - Len(a)]
      BY <2>2, <1>1, <1>2, <1>3, <1>8
    <3> QED
      BY <2>2, <3>1, <3>2, <1>3
  <2> QED
    BY <2>1, <2>2
<1> QED
  BY <1>4, <1>8, <1>9 DEF c

\* What stays of a sequence with one element taken out.
LEMMA RemoveAtKeeps ==
    ASSUME NEW S, NEW s \in Seq(S), NEW i \in DOMAIN s
    PROVE  /\ \A j \in DOMAIN RemoveAt(s, i) :
                 \E k \in DOMAIN s : k # i /\ RemoveAt(s, i)[j] = s[k]
           /\ \A k \in DOMAIN s : k # i =>
                 \E j \in DOMAIN RemoveAt(s, i) : RemoveAt(s, i)[j] = s[k]
           /\ IsInjective(s) => IsInjective(RemoveAt(s, i))
<1> DEFINE r == RemoveAt(s, i)
<1>1. /\ Len(s) \in Nat /\ i \in 1 .. Len(s) /\ DOMAIN s = 1 .. Len(s)
      /\ r \in Seq(S) /\ Len(r) = Len(s) - 1
      /\ \A j \in 1 .. Len(s) - 1 : r[j] = IF j < i THEN s[j] ELSE s[j + 1]
  BY RemoveAtIs, LenProperties
<1>2. DOMAIN r = 1 .. Len(s) - 1
  BY <1>1, LenProperties
<1> HIDE DEF r
<1>3. \A j \in DOMAIN r : \E k \in DOMAIN s : k # i /\ r[j] = s[k]
  <2> SUFFICES ASSUME NEW j \in DOMAIN r
               PROVE  \E k \in DOMAIN s : k # i /\ r[j] = s[k]
    OBVIOUS
  <2>1. CASE j < i
    BY <2>1, <1>1, <1>2
  <2>2. CASE ~(j < i)
    <3>1. j + 1 \in DOMAIN s /\ j + 1 # i /\ r[j] = s[j + 1]
      BY <2>2, <1>1, <1>2
    <3> QED
      BY <3>1
  <2> QED
    BY <2>1, <2>2
<1>4. \A k \in DOMAIN s : k # i => \E j \in DOMAIN r : r[j] = s[k]
  <2> SUFFICES ASSUME NEW k \in DOMAIN s, k # i
               PROVE  \E j \in DOMAIN r : r[j] = s[k]
    OBVIOUS
  <2>1. CASE k < i
    <3>1. k \in DOMAIN r /\ r[k] = s[k]
      BY <2>1, <1>1, <1>2
    <3> QED
      BY <3>1
  <2>2. CASE ~(k < i)
    <3>1. k - 1 \in DOMAIN r /\ r[k - 1] = s[k]
      BY <2>2, <1>1, <1>2
    <3> QED
      BY <3>1
  <2> QED
    BY <2>1, <2>2
<1>5. ASSUME IsInjective(s) PROVE IsInjective(r)
  <2> SUFFICES ASSUME NEW j \in DOMAIN r, NEW k \in DOMAIN r, r[j] = r[k]
               PROVE  j = k
    BY DEF IsInjective
  <2>1. \A x, y \in DOMAIN s : s[x] = s[y] => x = y
    BY <1>5 DEF IsInjective
  <2> DEFINE at(x) == IF x < i THEN x ELSE x + 1
  <2>2. /\ at(j) \in DOMAIN s /\ r[j] = s[at(j)]
        /\ at(k) \in DOMAIN s /\ r[k] = s[at(k)]
    BY <1>1, <1>2
  <2>3. at(j) = at(k)
    BY <2>1, <2>2
  <2> QED
    BY <2>3, <1>1, <1>2
<1> QED
  BY <1>3, <1>4, <1>5 DEF r

\* RemoveFirst takes one e out, if there is one, and leaves the others.
LEMMA RemoveFirstIs ==
    ASSUME NEW S, NEW s \in Seq(S), NEW e
    PROVE  /\ RemoveFirst(s, e) \in Seq(S)
           /\ s # <<>> /\ Len(s) # 1 => RemoveFirst(s, e) # <<>>
           /\ \A q : q # e /\ Contains(s, q) => Contains(RemoveFirst(s, e), q)
           /\ \A q : Contains(RemoveFirst(s, e), q) => Contains(s, q)
           /\ IsInjective(s) => IsInjective(RemoveFirst(s, e))
<1> DEFINE I == {i \in 1 .. Len(s) : s[i] = e}
           k == Min(I)
<1>1. Len(s) \in Nat /\ DOMAIN s = 1 .. Len(s)
  BY LenProperties
<1>2. CASE I = {}
  <2>1. RemoveFirst(s, e) = s
    BY <1>2 DEF RemoveFirst
  <2> QED
    BY <2>1
<1>3. CASE I # {}
  <2>1. k \in I
    <3>1. I \in SUBSET Nat
      BY <1>1
    <3> HIDE DEF I
    <3> QED
      BY <3>1, <1>3, Least
  <2>2. RemoveFirst(s, e) = RemoveAt(s, k)
    BY <1>3 DEF RemoveFirst, SelectInSeq
  <2>3. k \in DOMAIN s /\ s[k] = e
    BY <1>1, <2>1
  <2> HIDE DEF k
  <2> DEFINE r == RemoveAt(s, k)
  <2>4. /\ r \in Seq(S) /\ Len(r) = Len(s) - 1
        /\ \A j \in DOMAIN r : \E x \in DOMAIN s : x # k /\ r[j] = s[x]
        /\ \A x \in DOMAIN s : x # k => \E j \in DOMAIN r : r[j] = s[x]
        /\ IsInjective(s) => IsInjective(r)
    BY <2>3, RemoveAtIs, RemoveAtKeeps
  <2>5. DOMAIN r = 1 .. Len(r)
    BY <2>4, LenProperties
  <2> HIDE DEF r
  <2>6. /\ \A q : q # e /\ Contains(s, q) => Contains(r, q)
        /\ \A q : Contains(r, q) => Contains(s, q)
    BY <1>1, <2>3, <2>4, <2>5 DEF Contains
  <2>7. s # <<>> /\ Len(s) # 1 => r # <<>>
    <3>1. s # <<>> => Len(s) # 0
      BY EmptySeq
    <3>2. Len(<<>>) = 0
      BY EmptySeq
    <3> QED
      BY <1>1, <2>4, <3>1, <3>2
  <2> QED
    BY <2>2, <2>4, <2>6, <2>7 DEF r
<1> QED
  BY <1>2, <1>3

\* Contains speaks of the range of a sequence.
LEMMA ContainsIs ==
    ASSUME NEW S, NEW s \in Seq(S), NEW e
    PROVE  Contains(s, e) <=> \E i \in DOMAIN s : s[i] = e
BY LenProperties DEF Contains

\* find_or_add: e is added once.
LEMMA FindOrAddIs ==
    ASSUME NEW S, NEW s \in Seq(S), IsInjective(s), NEW e \in S
    PROVE  /\ FindOrAddPointer(s, e) \in Seq(S)
           /\ FindOrAddPointer(s, e) # <<>>
           /\ IsInjective(FindOrAddPointer(s, e))
<1>1. Len(s) \in Nat /\ DOMAIN s = 1 .. Len(s)
  BY LenProperties
<1>2. CASE Contains(s, e)
  <2>1. s # <<>>
    <3>1. \E i \in 1 .. Len(s) : s[i] = e
      BY <1>2 DEF Contains
    <3>2. Len(s) # 0
      BY <3>1, <1>1
    <3> QED
      BY <3>2, EmptySeq
  <2> QED
    BY <1>2, <2>1 DEF FindOrAddPointer, FindPointer
<1>3. CASE ~Contains(s, e)
  <2> DEFINE r == Append(s, e)
  <2>1. /\ r \in Seq(S) /\ r # <<>> /\ Len(r) = Len(s) + 1
        /\ \A i \in 1 .. Len(s) : r[i] = s[i]
        /\ r[Len(s) + 1] = e
    BY AppendProperties
  <2>2. DOMAIN r = 1 .. Len(s) + 1
    BY <2>1, LenProperties
  <2> HIDE DEF r
  <2>3. IsInjective(r)
    <3> SUFFICES ASSUME NEW i \in DOMAIN r, NEW j \in DOMAIN r, r[i] = r[j]
                 PROVE  i = j
      BY DEF IsInjective
    <3>1. \A k \in 1 .. Len(s) : r[k] # e
      BY <1>3, <2>1 DEF Contains
    <3>2. CASE i = Len(s) + 1 \/ j = Len(s) + 1
      BY <3>1, <3>2, <1>1, <2>1, <2>2
    <3>3. CASE i # Len(s) + 1 /\ j # Len(s) + 1
      <4>1. i \in DOMAIN s /\ j \in DOMAIN s /\ s[i] = s[j]
        BY <3>3, <1>1, <2>1, <2>2
      <4> QED
        BY <4>1 DEF IsInjective
    <3> QED
      BY <3>2, <3>3
  <2> QED
    BY <1>3, <2>1, <2>3 DEF FindOrAddPointer, FindPointer, r
<1> QED
  BY <1>2, <1>3

\* remove_all_pointers_except e, of a list that holds e.
LEMMA RemoveAllExceptIs ==
    ASSUME NEW S, NEW s \in Seq(S), IsInjective(s), NEW e, Contains(s, e)
    PROVE  RemoveAllPointersExcept(s, e) = <<e>> /\ e \in S
<1>1. Len(s) \in Nat /\ DOMAIN s = 1 .. Len(s)
  BY LenProperties
<1>2. PICK i \in DOMAIN s : s[i] = e
  BY <1>1 DEF Contains
<1>3. {j \in DOMAIN s : s[j] = e} = {i}
  BY <1>2 DEF IsInjective
<1>4. Cardinality({i}) = 1
  BY FS_Singleton
<1>5. RemoveAllPointersExcept(s, e) = [k \in 1 .. 1 |-> e]
  BY <1>3, <1>4 DEF RemoveAllPointersExcept
<1>6. [k \in 1 .. 1 |-> e] = <<e>>
  OBVIOUS
<1> QED
  BY <1>1, <1>2, <1>5, <1>6, ElementOfSeq

-----------------------------------------------------------------------------
(***************************************************************************)
(* The list of tracked pointers, apart from the rest of IInv.              *)
(***************************************************************************)
ListSound ==
    /\ tracked \in Seq(PointerInfo)
    /\ \A i, j \in DOMAIN tracked :
          tracked[i].pointer = tracked[j].pointer => i = j
    /\ \A i \in DOMAIN tracked :
          /\ heap[tracked[i].pointer] # "free"
          /\ tracked[i].deleter # "none"
          /\ tracked[i].refs # <<>> /\ IsInjective(tracked[i].refs)
    /\ \A i \in DOMAIN tracked :
          tracked[i].deleter = "mallocator" => Contains(pointers, tracked[i].pointer)

\* What the threads between the two locks of alloc_internal hold.
FlightSound ==
    \A t \in InFlight :
        /\ heap[pc[t].ptr] = "calloc"
        /\ pc[t].ptr \notin TrackedAddrs
        /\ \A u \in InFlight \ {t} : pc[u].ptr # pc[t].ptr
        /\ Contains(pointers, pc[t].ptr)

LEMMA Parts == IInv <=> TypeOK /\ ListSound /\ FlightSound
BY DEF IInv, NoDangling, MallocatorKnows, EntrySound, ListSound, FlightSound, TypeOK

LEMMA PartsAfter == TypeOK' /\ ListSound' /\ FlightSound' => IInv'
BY DEF IInv, NoDangling, MallocatorKnows, EntrySound, ListSound, FlightSound, TypeOK

\* No address that stays tracked is freed or forgotten.
Spared(addrs) ==
    \A a \in addrs :
        /\ heap'[a] # "free"
        /\ Contains(pointers, a) => Contains(pointers', a)

\* An entry for a new address is added.
LEMMA AppendEntry ==
    ASSUME ListSound, NEW e \in PointerInfo,
           tracked' = Append(tracked, e),
           e.pointer \notin TrackedAddrs,
           Spared(TrackedAddrs), heap'[e.pointer] # "free",
           e.deleter # "none", e.refs # <<>>, IsInjective(e.refs),
           e.deleter = "mallocator" => Contains(pointers', e.pointer)
    PROVE  ListSound' /\ TrackedAddrs' = TrackedAddrs \cup {e.pointer}
<1>1. /\ tracked \in Seq(PointerInfo) /\ Len(tracked) \in Nat
      /\ DOMAIN tracked = 1 .. Len(tracked)
  BY LenProperties DEF ListSound
<1>2. /\ tracked' \in Seq(PointerInfo) /\ Len(tracked') = Len(tracked) + 1
      /\ \A i \in DOMAIN tracked : tracked'[i] = tracked[i]
      /\ tracked'[Len(tracked) + 1] = e
  BY <1>1, AppendProperties
<1>3. /\ DOMAIN tracked' = DOMAIN tracked \cup {Len(tracked) + 1}
      /\ Len(tracked) + 1 \notin DOMAIN tracked
  <2>1. DOMAIN tracked' = 1 .. Len(tracked) + 1
    BY <1>2, LenProperties
  <2> QED
    BY <1>1, <2>1
<1>4. \A i \in DOMAIN tracked : tracked[i].pointer \in TrackedAddrs
  BY DEF TrackedAddrs
<1>5. TrackedAddrs' = TrackedAddrs \cup {e.pointer}
  BY <1>2, <1>3 DEF TrackedAddrs
<1>6. \A i, j \in DOMAIN tracked' :
         tracked'[i].pointer = tracked'[j].pointer => i = j
  BY <1>2, <1>3, <1>4 DEF ListSound
<1>7. \A i \in DOMAIN tracked' :
         /\ heap'[tracked'[i].pointer] # "free"
         /\ tracked'[i].deleter # "none"
         /\ tracked'[i].refs # <<>> /\ IsInjective(tracked'[i].refs)
         /\ tracked'[i].deleter = "mallocator" =>
               Contains(pointers', tracked'[i].pointer)
  BY <1>2, <1>3, <1>4 DEF ListSound, Spared
<1> QED
  BY <1>2, <1>5, <1>6, <1>7 DEF ListSound

\* An entry is replaced by one for the same address.
LEMMA ReplaceEntry ==
    ASSUME ListSound, NEW i \in DOMAIN tracked, NEW e \in PointerInfo,
           tracked' = [tracked EXCEPT ![i] = e],
           e.pointer = tracked[i].pointer,
           Spared(TrackedAddrs),
           e.deleter # "none", e.refs # <<>>, IsInjective(e.refs),
           e.deleter = "mallocator" => Contains(pointers', e.pointer)
    PROVE  ListSound' /\ TrackedAddrs' = TrackedAddrs
<1>1. /\ tracked \in Seq(PointerInfo) /\ Len(tracked) \in Nat
      /\ DOMAIN tracked = 1 .. Len(tracked)
  BY LenProperties DEF ListSound
<1>2. /\ tracked' \in Seq(PointerInfo)
      /\ Len(tracked') = Len(tracked)
      /\ \A j \in 1 .. Len(tracked) :
            tracked'[j] = IF j = i THEN e ELSE tracked[j]
  BY <1>1, ExceptSeq
<1>3. DOMAIN tracked' = DOMAIN tracked
  BY <1>1, <1>2, LenProperties
<1>4. \A j \in DOMAIN tracked :
         /\ tracked[j].pointer \in TrackedAddrs
         /\ tracked'[j] = IF j = i THEN e ELSE tracked[j]
  BY <1>1, <1>2 DEF TrackedAddrs
<1>5. \A j \in DOMAIN tracked : tracked'[j].pointer = tracked[j].pointer
  BY <1>4
<1>6. TrackedAddrs' = TrackedAddrs
  BY <1>3, <1>5 DEF TrackedAddrs
<1>7. \A j, k \in DOMAIN tracked' :
         tracked'[j].pointer = tracked'[k].pointer => j = k
  BY <1>3, <1>5 DEF ListSound
<1>8. \A j \in DOMAIN tracked' :
         /\ heap'[tracked'[j].pointer] # "free"
         /\ tracked'[j].deleter # "none"
         /\ tracked'[j].refs # <<>> /\ IsInjective(tracked'[j].refs)
         /\ tracked'[j].deleter = "mallocator" =>
               Contains(pointers', tracked'[j].pointer)
  BY <1>3, <1>4, <1>5 DEF ListSound, Spared
<1> QED
  BY <1>2, <1>6, <1>7, <1>8 DEF ListSound

\* An entry is taken out.
LEMMA DropEntry ==
    ASSUME ListSound, NEW i \in DOMAIN tracked,
           tracked' = RemoveAt(tracked, i),
           Spared(TrackedAddrs \ {tracked[i].pointer})
    PROVE  ListSound' /\ TrackedAddrs' = TrackedAddrs \ {tracked[i].pointer}
<1>1. tracked \in Seq(PointerInfo)
  BY DEF ListSound
<1>2. /\ tracked' \in Seq(PointerInfo)
      /\ \A j \in DOMAIN tracked' :
            \E k \in DOMAIN tracked : k # i /\ tracked'[j] = tracked[k]
      /\ \A k \in DOMAIN tracked : k # i =>
            \E j \in DOMAIN tracked' : tracked'[j] = tracked[k]
  BY <1>1, RemoveAtIs, RemoveAtKeeps
<1>3. \A k \in DOMAIN tracked : k # i =>
         tracked[k].pointer \in TrackedAddrs \ {tracked[i].pointer}
  BY DEF TrackedAddrs, ListSound
<1>4. TrackedAddrs' = TrackedAddrs \ {tracked[i].pointer}
  BY <1>2, <1>3 DEF TrackedAddrs
<1>5. \A j \in DOMAIN tracked' :
         /\ heap'[tracked'[j].pointer] # "free"
         /\ tracked'[j].deleter # "none"
         /\ tracked'[j].refs # <<>> /\ IsInjective(tracked'[j].refs)
         /\ tracked'[j].deleter = "mallocator" =>
               Contains(pointers', tracked'[j].pointer)
  BY <1>2, <1>3 DEF ListSound, Spared
<1>6. \A j, k \in DOMAIN tracked' :
         tracked'[j].pointer = tracked'[k].pointer => j = k
  <2>1. /\ Len(tracked) \in Nat /\ DOMAIN tracked = 1 .. Len(tracked)
        /\ DOMAIN tracked' = 1 .. Len(tracked) - 1
        /\ \A j \in 1 .. Len(tracked) - 1 :
              tracked'[j] = IF j < i THEN tracked[j] ELSE tracked[j + 1]
    BY <1>1, RemoveAtIs, LenProperties
  <2> SUFFICES ASSUME NEW j \in DOMAIN tracked', NEW k \in DOMAIN tracked',
                      tracked'[j].pointer = tracked'[k].pointer
               PROVE  j = k
    OBVIOUS
  <2> DEFINE at(x) == IF x < i THEN x ELSE x + 1
  <2>2. /\ at(j) \in DOMAIN tracked /\ tracked'[j] = tracked[at(j)]
        /\ at(k) \in DOMAIN tracked /\ tracked'[k] = tracked[at(k)]
    BY <2>1
  <2>3. at(j) = at(k)
    BY <2>2 DEF ListSound
  <2> QED
    BY <2>1, <2>3
<1> QED
  BY <1>2, <1>4, <1>5, <1>6 DEF ListSound

\* find_node over the tracked pointers.
LEMMA IndexIs ==
    ASSUME tracked \in Seq(PointerInfo), NEW a
    PROVE  /\ IsTracked(a) <=> a \in TrackedAddrs
           /\ a \in TrackedAddrs => /\ IndexOf(a) \in DOMAIN tracked
                                    /\ tracked[IndexOf(a)].pointer = a
           /\ a \notin TrackedAddrs => IndexOf(a) = 0
<1> DEFINE I == {i \in 1 .. Len(tracked) : tracked[i].pointer = a}
<1>1. Len(tracked) \in Nat /\ DOMAIN tracked = 1 .. Len(tracked)
  BY LenProperties
<1>2. IndexOf(a) = IF I # {} THEN Min(I) ELSE 0
  BY DEF IndexOf, SelectInSeq
<1>3. a \in TrackedAddrs <=> I # {}
  BY <1>1 DEF TrackedAddrs
<1>4. I \in SUBSET Nat
  BY <1>1
<1> HIDE DEF I
<1>5. CASE I = {}
  BY <1>2, <1>3, <1>5 DEF IsTracked
<1>6. CASE I # {}
  <2>1. IndexOf(a) \in I
    BY <1>2, <1>4, <1>6, Least
  <2>2. /\ IndexOf(a) \in DOMAIN tracked /\ IndexOf(a) # 0
        /\ tracked[IndexOf(a)].pointer = a
    BY <1>1, <2>1 DEF I
  <2> QED
    BY <1>3, <1>6, <2>2 DEF IsTracked
<1> QED
  BY <1>5, <1>6

\* The entry whose count and destructor its only owner has set.
LEMMA SetByOwner ==
    ASSUME NEW x \in PointerInfo, NEW d \in {"mallocator", "user"},
           NEW y, y = [x EXCEPT !.count = 1, !.deleter = d]
    PROVE  /\ y \in PointerInfo /\ y.pointer = x.pointer
           /\ y.refs = x.refs /\ y.deleter = d
<1> DEFINE z == [x EXCEPT !.count = 1]
<1>1. z \in PointerInfo /\ z.pointer = x.pointer /\ z.refs = x.refs
  BY DEF PointerInfo
<1>2. y = [z EXCEPT !.deleter = d]
  OBVIOUS
<1> HIDE DEF z
<1>3. /\ y \in PointerInfo /\ y.pointer = z.pointer
      /\ y.refs = z.refs /\ y.deleter = d
  BY <1>1, <1>2 DEF PointerInfo
<1> QED
  BY <1>1, <1>3

\* ref() leaves a sound list, with the address in it.
LEMMA RefIs ==
    ASSUME ListSound, NEW a \in Addr, NEW o \in Owner,
           NEW d \in {"mallocator", "user"}, Ref(a, o, d),
           UNCHANGED <<heap, pointers>>,
           heap[a] # "free",
           d = "mallocator" => Contains(pointers, a)
    PROVE  ListSound' /\ TrackedAddrs' = TrackedAddrs \cup {a}
<1> DEFINE fresh    == [pointer |-> a, count |-> 0, refs |-> <<>>,
                        deleter |-> "none"]
           added(e) == [e EXCEPT !.refs = FindOrAddPointer(e.refs, o)]
           done(e)  == IF added(e).refs # <<o>> THEN added(e)
                       ELSE [added(e) EXCEPT !.count = 1, !.deleter = d]
           i == IndexOf(a)
<1>1. /\ tracked \in Seq(PointerInfo)
      /\ Spared(TrackedAddrs)
  BY DEF ListSound, Spared, TrackedAddrs
<1>2. tracked' = IF i = 0 THEN Append(tracked, done(fresh))
                 ELSE [tracked EXCEPT ![i] = done(tracked[i])]
  BY DEF Ref
<1>3. /\ a \in TrackedAddrs => i \in DOMAIN tracked /\ tracked[i].pointer = a
      /\ a \notin TrackedAddrs => i = 0
      /\ 0 \notin DOMAIN tracked
  <2>1. 0 \notin DOMAIN tracked
    BY <1>1, LenProperties
  <2> QED
    BY <1>1, <2>1, IndexIs
<1> HIDE DEF i
<1>4. ASSUME NEW e \in PointerInfo, IsInjective(e.refs), e.pointer = a,
             \/ e.deleter # "none" /\ (e.deleter = "mallocator" => Contains(pointers, a))
             \/ e.refs = <<>>
      PROVE  /\ done(e) \in PointerInfo /\ done(e).pointer = a
             /\ done(e).deleter # "none"
             /\ done(e).refs # <<>> /\ IsInjective(done(e).refs)
             /\ done(e).deleter = "mallocator" => Contains(pointers, a)
  <2> DEFINE r == FindOrAddPointer(e.refs, o)
  <2>1. /\ e.refs \in Seq(Owner) /\ e.count \in Nat
        /\ e.deleter \in {"none", "mallocator", "user"}
    BY <1>4 DEF PointerInfo
  <2>2. r \in Seq(Owner) /\ r # <<>> /\ IsInjective(r)
    BY <1>4, <2>1, FindOrAddIs
  <2>3. e.refs = <<>> => r = <<o>>
    <3>1. ASSUME e.refs = <<>> PROVE r = Append(<<>>, o)
      BY <3>1, EmptySeq DEF FindOrAddPointer, FindPointer, Contains
    <3> QED
      BY <3>1
  <2> HIDE DEF r
  <2>4. /\ added(e) \in PointerInfo /\ added(e).pointer = a
        /\ added(e).refs = r /\ added(e).deleter = e.deleter
    BY <1>4, <2>1, <2>2 DEF PointerInfo, r
  <2>5. CASE r # <<o>>
    <3>1. done(e) = added(e)
      BY <2>4, <2>5
    <3> HIDE DEF done, added
    <3> QED
      BY <1>4, <2>2, <2>3, <2>4, <2>5, <3>1
  <2>6. CASE r = <<o>>
    <3>1. done(e) = [added(e) EXCEPT !.count = 1, !.deleter = d]
      BY <2>4, <2>6
    <3> HIDE DEF done, added
    <3> DEFINE x == added(e)
    <3>2. x \in PointerInfo /\ x.pointer = a /\ x.refs = r
      BY <2>4 DEF added
    <3>3. done(e) = [x EXCEPT !.count = 1, !.deleter = d]
      BY <3>1
    <3> DEFINE y == done(e)
    <3> HIDE DEF x
    <3>4. y = [x EXCEPT !.count = 1, !.deleter = d]
      BY <3>3
    <3> HIDE DEF y
    <3>5. y \in PointerInfo /\ y.pointer = a /\ y.refs = r /\ y.deleter = d
      BY <3>2, <3>4, SetByOwner
    <3> QED
      BY <2>2, <3>5 DEF y
  <2> QED
    BY <2>5, <2>6
<1>5. CASE a \in TrackedAddrs
  <2> DEFINE e == tracked[i]
  <2>1. i \in DOMAIN tracked /\ e.pointer = a /\ i # 0
    BY <1>3, <1>5
  <2>2. /\ e \in PointerInfo /\ IsInjective(e.refs) /\ e.deleter # "none"
        /\ e.deleter = "mallocator" => Contains(pointers, a)
    BY <1>1, <2>1, LenProperties, ElementOfSeq DEF ListSound
  <2> HIDE DEF e
  <2>3. /\ done(e) \in PointerInfo /\ done(e).pointer = a
        /\ done(e).deleter # "none"
        /\ done(e).refs # <<>> /\ IsInjective(done(e).refs)
        /\ done(e).deleter = "mallocator" => Contains(pointers, a)
    BY <1>4, <2>1, <2>2
  <2> HIDE DEF done
  <2>4. tracked' = [tracked EXCEPT ![i] = done(e)] /\ done(e).pointer = tracked[i].pointer
    BY <1>2, <2>1, <2>3 DEF e
  <2>5. ListSound' /\ TrackedAddrs' = TrackedAddrs
    BY <1>1, <2>1, <2>3, <2>4, ReplaceEntry
  <2> QED
    BY <1>5, <2>5
<1>6. CASE a \notin TrackedAddrs
  <2>1. /\ fresh \in PointerInfo /\ IsInjective(fresh.refs)
        /\ fresh.pointer = a /\ fresh.refs = <<>>
    <3>1. /\ <<>> \in Seq(Owner) /\ IsInjective(<<>>)
      BY EmptySeq DEF IsInjective
    <3> QED
      BY <3>1 DEF PointerInfo
  <2> HIDE DEF fresh
  <2>2. /\ done(fresh) \in PointerInfo /\ done(fresh).pointer = a
        /\ done(fresh).deleter # "none"
        /\ done(fresh).refs # <<>> /\ IsInjective(done(fresh).refs)
        /\ done(fresh).deleter = "mallocator" => Contains(pointers, a)
    BY <1>4, <2>1
  <2> HIDE DEF done
  <2>3. tracked' = Append(tracked, done(fresh))
    BY <1>2, <1>3, <1>6
  <2> QED
    BY <1>1, <1>6, <2>2, <2>3, AppendEntry
<1> QED
  BY <1>5, <1>6

\* ~PointerInfo frees at most the memory of its entry, and forgets no other
\* address.
LEMMA DestroyIs ==
    ASSUME TypeOK, NEW e \in PointerInfo, Destroy(e)
    PROVE  /\ heap' \in [Addr -> {"free", "calloc", "user"}]
           /\ pointers' \in Seq(Addr)
           /\ memUsage' \in 0 .. Word - 1
           /\ \A a \in Addr \ {e.pointer} :
                 /\ heap'[a] = heap[a]
                 /\ Contains(pointers, a) => Contains(pointers', a)
<1>1. e.pointer \in Addr /\ e.count \in Nat
  BY DEF PointerInfo
<1>2. /\ heap' \in [Addr -> {"free", "calloc", "user"}]
      /\ \A a \in Addr \ {e.pointer} : heap'[a] = heap[a]
  BY <1>1 DEF TypeOK, Destroy
<1>3. pointers' = pointers \/ pointers' = RemoveFirst(pointers, e.pointer)
  BY DEF Destroy, RemovePointer
<1>4. /\ pointers' \in Seq(Addr)
      /\ \A a : a # e.pointer /\ Contains(pointers, a) => Contains(pointers', a)
  <2>1. pointers \in Seq(Addr)
    BY DEF TypeOK
  <2> QED
    BY <1>3, <2>1, RemoveFirstIs
<1>5. memUsage' \in 0 .. Word - 1
  <2>1. PICK n \in Nat : memUsage' = (memUsage - n) % Word
    BY <1>1 DEF Destroy, Minus
  <2> QED
    BY <2>1, TrackerAssumption DEF TypeOK
<1> QED
  BY <1>2, <1>4, <1>5

\* Steps that leave the list, its memory and its shared objects alone.
LEMMA ListKept ==
    ASSUME ListSound, UNCHANGED tracked, Spared(TrackedAddrs)
    PROVE  ListSound' /\ TrackedAddrs' = TrackedAddrs
<1>1. \A i \in DOMAIN tracked : tracked[i].pointer \in TrackedAddrs
  BY DEF TrackedAddrs
<1>2. TrackedAddrs' = TrackedAddrs
  BY DEF TrackedAddrs
<1> QED
  BY <1>1, <1>2 DEF ListSound, Spared

LEMMA NothingTaken ==
    ASSUME Spared(TrackedAddrs), TrackedAddrs \subseteq TrackedAddrs'
    PROVE  KeptWhileShared
<1>1. \A i \in DOMAIN tracked : tracked[i].pointer \in TrackedAddrs
  BY DEF TrackedAddrs
<1> QED
  BY <1>1 DEF KeptWhileShared, Spared

LEMMA FlightKept ==
    ASSUME FlightSound,
           \A t \in InFlight' :
               /\ t \in InFlight /\ pc'[t] = pc[t]
               /\ heap'[pc[t].ptr] = "calloc"
               /\ Contains(pointers', pc[t].ptr)
               /\ pc[t].ptr \notin TrackedAddrs'
    PROVE  FlightSound'
BY DEF FlightSound

\* What a thread in the middle of a call works on.
LEMMA BusyIs ==
    ASSUME TypeOK, NEW t \in Thread
    PROVE  /\ pc[t].at \in {"idle", "ref", "mutex", "base"}
           /\ pc[t].at = "ref" => /\ pc[t].ptr \in Addr /\ pc[t].owner \in Owner
                                 /\ pc[t].n \in Count
           /\ pc[t].at \in {"mutex", "base"} =>
                 /\ pc[t].owner \in Owner
                 /\ pc[t] \in [at : {"mutex", "base"}, owner : Owner]
<1>1. pc[t] = Idle \/ pc[t] \in Busy
  BY DEF TypeOK
<1>2. CASE pc[t] = Idle
  <2>1. pc[t].at = "idle"
    BY <1>2 DEF Idle
  <2> QED
    BY <2>1
<1>3. CASE pc[t] \in [at : {"ref"}, ptr : Addr, owner : Owner, n : Count]
  BY <1>3
<1>4. CASE pc[t] \in [at : {"mutex", "base"}, owner : Owner]
  BY <1>4
<1> QED
  BY <1>1, <1>2, <1>3, <1>4 DEF Busy

-----------------------------------------------------------------------------
(***************************************************************************)
(* PTRINFO_LL::unref, which dealloc and the destructors share.             *)
(***************************************************************************)
\* What unref does to the rest of the program.
UnrefSafe ==
    /\ ListSound' /\ TrackedAddrs' \subseteq TrackedAddrs
    /\ heap' \in [Addr -> {"free", "calloc", "user"}]
    /\ pointers' \in Seq(Addr)
    /\ memUsage' \in 0 .. Word - 1
    /\ \A a \in Addr \ TrackedAddrs :
          /\ heap'[a] = heap[a]
          /\ Contains(pointers, a) => Contains(pointers', a)
    /\ KeptWhileShared

\* The list did not change.
LEMMA UntouchedSafe ==
    ASSUME IInv, UNCHANGED <<heap, tracked, pointers, memUsage>>
    PROVE  UnrefSafe
<1>1. TypeOK /\ ListSound
  BY Parts
<1>2. Spared(TrackedAddrs)
  BY <1>1 DEF Spared, ListSound, TrackedAddrs
<1>3. ListSound' /\ TrackedAddrs' = TrackedAddrs
  BY <1>1, <1>2, ListKept
<1>4. KeptWhileShared
  BY <1>2, <1>3, NothingTaken
<1> QED
  BY <1>1, <1>3, <1>4 DEF UnrefSafe, TypeOK

LEMMA UnrefIs ==
    ASSUME IInv, NEW i \in DOMAIN tracked, NEW o \in Owner, Unref(i, o)
    PROVE  UnrefSafe
<1> DEFINE e == tracked[i]
<1>1. TypeOK /\ ListSound
  BY Parts
<1>2. /\ tracked \in Seq(PointerInfo)
      /\ e \in PointerInfo /\ e.pointer \in Addr /\ e.refs \in Seq(Owner)
      /\ e.pointer \in TrackedAddrs
      /\ e.deleter \in {"mallocator", "user"}
      /\ e.deleter = "mallocator" => Contains(pointers, e.pointer)
      /\ e.refs # <<>> /\ IsInjective(e.refs)
  <2>1. tracked \in Seq(PointerInfo) /\ e \in PointerInfo
    BY <1>1, LenProperties, ElementOfSeq DEF ListSound
  <2> QED
    BY <1>1, <2>1 DEF ListSound, TrackedAddrs, PointerInfo
<1>3. \A j \in DOMAIN tracked :
         /\ tracked[j].pointer \in TrackedAddrs
         /\ tracked[j].pointer = e.pointer => j = i
         /\ heap[tracked[j].pointer] # "free"
  BY <1>1 DEF ListSound, TrackedAddrs
<1>4. TrackedAddrs \subseteq Addr
  <2> SUFFICES ASSUME NEW j \in DOMAIN tracked
               PROVE  tracked[j].pointer \in Addr
    BY DEF TrackedAddrs
  <2>1. tracked[j] \in PointerInfo
    BY <1>2, LenProperties, ElementOfSeq
  <2> QED
    BY <2>1 DEF PointerInfo
<1>5. Spared(TrackedAddrs) \/ ~(UNCHANGED <<heap, pointers>>)
  BY <1>3 DEF Spared, TrackedAddrs
<1>6. CASE e.refs = <<o>> /\ tracked' = RemoveAt(tracked, i) /\ Destroy(e)
  <2>1. /\ heap' \in [Addr -> {"free", "calloc", "user"}]
        /\ pointers' \in Seq(Addr)
        /\ memUsage' \in 0 .. Word - 1
        /\ \A a \in Addr \ {e.pointer} :
              /\ heap'[a] = heap[a]
              /\ Contains(pointers, a) => Contains(pointers', a)
    BY <1>1, <1>2, <1>6, DestroyIs
  <2>2. Spared(TrackedAddrs \ {e.pointer})
    BY <1>3, <1>4, <2>1 DEF Spared, TrackedAddrs
  <2>3. ListSound' /\ TrackedAddrs' = TrackedAddrs \ {e.pointer}
    BY <1>1, <1>6, <2>2, DropEntry
  <2>4. heap'[e.pointer] = "free"
    BY <1>1, <1>2, <1>6 DEF Destroy, FindPointer, TypeOK
  <2>5. KeptWhileShared
    <3> SUFFICES ASSUME NEW j \in DOMAIN tracked
                 PROVE  /\ heap'[tracked[j].pointer] = "free" =>
                              Len(tracked[j].refs) = 1
                        /\ /\ Contains(tracked[j].refs, Global)
                           /\ tracked[j].pointer \notin TrackedAddrs'
                           => /\ heap'[tracked[j].pointer] = "free"
                              /\ tracked[j].refs = <<Global>>
      BY DEF KeptWhileShared
    <3>1. CASE j = i
      <4>1. Len(<<o>>) = 1 /\ <<o>>[1] = o
        OBVIOUS
      <4>2. Contains(<<o>>, Global) => o = Global
        BY <4>1 DEF Contains
      <4> QED
        BY <1>6, <2>4, <3>1, <4>1, <4>2
    <3>2. CASE j # i
      <4>1. tracked[j].pointer \in TrackedAddrs \ {e.pointer}
        BY <1>3, <3>2
      <4> HIDE DEF e
      <4> QED
        BY <2>2, <2>3, <4>1 DEF Spared
    <3> QED
      BY <3>1, <3>2
  <2> QED
    BY <1>2, <2>1, <2>3, <2>5 DEF UnrefSafe
<1>7. CASE /\ tracked' = [tracked EXCEPT ![i].refs = RemovePointer(tracked[i].refs, o)]
           /\ Len(e.refs) # 1
           /\ UNCHANGED <<heap, pointers, memUsage>>
  <2> DEFINE r == RemovePointer(e.refs, o)
             f == [e EXCEPT !.refs = r]
  <2>1. r \in Seq(Owner) /\ r # <<>> /\ IsInjective(r)
    BY <1>2, <1>7, RemoveFirstIs DEF RemovePointer
  <2>2. tracked' = [tracked EXCEPT ![i] = f]
    BY <1>7
  <2> HIDE DEF r
  <2>3. /\ f \in PointerInfo /\ f.pointer = e.pointer
        /\ f.deleter = e.deleter /\ f.refs = r
    BY <1>2, <2>1 DEF PointerInfo
  <2> HIDE DEF f
  <2>4. Spared(TrackedAddrs)
    BY <1>5, <1>7
  <2>5. f.deleter = "mallocator" => Contains(pointers', f.pointer)
    BY <1>2, <1>7, <2>3
  <2>6. ListSound' /\ TrackedAddrs' = TrackedAddrs
    BY <1>1, <1>2, <2>1, <2>2, <2>3, <2>4, <2>5, ReplaceEntry
  <2>7. KeptWhileShared
    BY <2>4, <2>6, NothingTaken
  <2> QED
    BY <1>1, <1>7, <2>6, <2>7 DEF UnrefSafe, TypeOK
<1>8. CASE UNCHANGED <<heap, tracked, pointers, memUsage>>
  BY <1>8, UntouchedSafe
<1> QED
  BY <1>6, <1>7, <1>8 DEF Unref

LEMMA DeallocAllIs ==
    ASSUME IInv, NEW o \in Owner, DeallocAll(o)
    PROVE  UnrefSafe
<1>1. CASE tracked = <<>>
  BY <1>1, UntouchedSafe DEF DeallocAll
<1>2. CASE tracked # <<>>
  <2>1. 1 \in DOMAIN tracked
    <3>1. tracked \in Seq(PointerInfo)
      BY DEF IInv, NoDangling, TypeOK
    <3> QED
      BY <1>2, <3>1, EmptySeq, LenProperties
  <2> QED
    BY <1>2, <2>1, UnrefIs DEF DeallocAll
<1> QED
  BY <1>1, <1>2

\* Nothing that a thread between the locks holds is touched by an unref.
LEMMA FlightSpared ==
    ASSUME IInv, UnrefSafe,
           \A t \in InFlight' : t \in InFlight /\ pc'[t] = pc[t]
    PROVE  FlightSound'
<1>1. TypeOK /\ FlightSound
  BY Parts
<1>2. \A t \in InFlight : pc[t].ptr \in Addr
  BY <1>1, BusyIs DEF InFlight
<1>3. \A t \in InFlight' :
         /\ t \in InFlight /\ pc'[t] = pc[t]
         /\ heap'[pc[t].ptr] = "calloc"
         /\ Contains(pointers', pc[t].ptr)
         /\ pc[t].ptr \notin TrackedAddrs'
  BY <1>1, <1>2 DEF FlightSound, UnrefSafe
<1> QED
  BY <1>1, <1>3, FlightKept

-----------------------------------------------------------------------------
(***************************************************************************)
(* IInv is inductive.                                                      *)
(***************************************************************************)
LEMMA Initially == Init => IInv
<1> SUFFICES ASSUME Init PROVE IInv
  OBVIOUS
<1>1. TypeOK
  <2>1. <<>> \in Seq(PointerInfo) /\ <<>> \in Seq(Addr)
    BY EmptySeq
  <2> QED
    BY <2>1, TrackerAssumption DEF Init, TypeOK
<1>2. DOMAIN <<>> = {}
  OBVIOUS
<1>3. ListSound
  <2>1. tracked \in Seq(PointerInfo)
    BY <1>1 DEF TypeOK
  <2> QED
    BY <1>2, <2>1 DEF Init, ListSound
<1>4. InFlight = {}
  BY DEF Init, InFlight, Idle
<1> QED
  BY <1>1, <1>3, <1>4, Parts DEF FlightSound

\* An address that is free is in nobody's hands.
LEMMA FreeIsUnused ==
    ASSUME IInv, NEW a \in Addr, heap[a] = "free"
    PROVE  /\ a \notin TrackedAddrs
           /\ \A t \in InFlight : pc[t].ptr # a
BY Parts DEF ListSound, FlightSound, TrackedAddrs

\* What an action has to leave behind.
Kept == IInv' /\ KeptWhileShared

LEMMA Spares ==
    ASSUME IInv, UNCHANGED <<heap, pointers>>
    PROVE  Spared(TrackedAddrs)
BY Parts DEF ListSound, Spared, TrackedAddrs

\* Steps that touch neither the list, nor memory, nor what is in flight.
LEMMA QuietStep ==
    ASSUME IInv, TypeOK', UNCHANGED <<heap, tracked, pointers>>,
           \A t \in InFlight' : t \in InFlight /\ pc'[t] = pc[t]
    PROVE  Kept
<1>1. TypeOK /\ ListSound /\ FlightSound
  BY Parts
<1>2. Spared(TrackedAddrs)
  BY Spares
<1>3. ListSound' /\ TrackedAddrs' = TrackedAddrs
  BY <1>1, <1>2, ListKept
<1>4. FlightSound'
  BY <1>1, <1>3 DEF FlightSound
<1>5. IInv'
  BY <1>3, <1>4, PartsAfter
<1> QED
  BY <1>2, <1>3, <1>5, NothingTaken DEF Kept

LEMMA CreateStep ==
    ASSUME IInv, NEW o \in Owner, Create(o)
    PROVE  Kept
<1>1. TypeOK
  BY Parts
<1>2. memUsage' \in 0 .. Word - 1
  <2>1. PICK n \in Nat : memUsage' = (memUsage + n) % Word
    BY TrackerAssumption DEF Create, Plus
  <2> QED
    BY <1>1, <2>1, TrackerAssumption DEF TypeOK
<1>3. TypeOK'
  BY <1>1, <1>2, TrackerAssumption DEF TypeOK, Create
<1> QED
  BY <1>3, QuietStep DEF Create, InFlight

LEMMA ThrowsStep ==
    ASSUME IInv, NEW t \in Thread, AllocateThrows(t)
    PROVE  Kept
<1>1. TypeOK
  BY Parts
<1>2. TypeOK'
  BY <1>1 DEF TypeOK, AllocateThrows
<1> QED
  BY <1>2, QuietStep DEF AllocateThrows, InFlight

LEMMA MutexStep ==
    ASSUME IInv, NEW t \in Thread, DestructMutex(t)
    PROVE  Kept
<1>1. TypeOK
  BY Parts
<1>2. memUsage' \in 0 .. Word - 1
  BY <1>1, TrackerAssumption DEF TypeOK, DestructMutex, Minus
<1>3. /\ pc' \in [Thread -> {Idle} \cup Busy]
      /\ pc'[t].at = "base"
      /\ \A u \in Thread \ {t} : pc'[u] = pc[u]
  <2>1. pc[t] \in [at : {"mutex", "base"}, owner : Owner]
    BY <1>1, BusyIs DEF DestructMutex
  <2> DEFINE p == [pc[t] EXCEPT !.at = "base"]
  <2>2. p \in [at : {"mutex", "base"}, owner : Owner] /\ p.at = "base"
    BY <2>1
  <2>3. p \in Busy
    BY <2>2 DEF Busy
  <2>4. pc' = [pc EXCEPT ![t] = p]
    BY <1>1 DEF DestructMutex, TypeOK
  <2> HIDE DEF p
  <2> QED
    BY <1>1, <2>2, <2>3, <2>4 DEF TypeOK
<1>4. TypeOK'
  BY <1>1, <1>2, <1>3 DEF TypeOK, DestructMutex
<1>5. \A u \in InFlight' : u \in InFlight /\ pc'[u] = pc[u]
  <2> SUFFICES ASSUME NEW u \in InFlight' PROVE u \in InFlight /\ pc'[u] = pc[u]
    OBVIOUS
  <2>1. u \in Thread /\ u # t
    BY <1>3 DEF InFlight
  <2> QED
    BY <1>3, <2>1 DEF InFlight
<1> QED
  BY <1>4, <1>5, QuietStep DEF DestructMutex

\* An address that nobody holds becomes the user's, or the user's becomes free.
LEMMA UserStep ==
    ASSUME IInv, NEW a \in Addr, UserNew(a) \/ UserFree(a)
    PROVE  Kept
<1>1. TypeOK /\ ListSound /\ FlightSound
  BY Parts
<1>2. /\ a \notin TrackedAddrs
      /\ \A t \in InFlight : pc[t].ptr # a
  <2>1. CASE UserNew(a)
    BY <2>1, FreeIsUnused DEF UserNew
  <2>2. CASE UserFree(a)
    <3>1. a \notin TrackedAddrs
      BY <1>1, <2>2, IndexIs DEF UserFree, ListSound
    <3>2. heap[a] # "calloc"
      BY <2>2 DEF UserFree
    <3> QED
      BY <1>1, <3>1, <3>2 DEF FlightSound
  <2> QED
    BY <2>1, <2>2
<1>3. /\ heap' \in [Addr -> {"free", "calloc", "user"}]
      /\ \A b \in Addr \ {a} : heap'[b] = heap[b]
      /\ UNCHANGED <<tracked, pointers, memUsage, ownUsage, exists, pc, holder>>
  BY <1>1 DEF UserNew, UserFree, TypeOK
<1>4. TypeOK'
  BY <1>1, <1>3 DEF TypeOK
<1>5. TrackedAddrs \subseteq Addr
  <2> SUFFICES ASSUME NEW j \in DOMAIN tracked
               PROVE  tracked[j].pointer \in Addr
    BY DEF TrackedAddrs
  <2>1. tracked[j] \in PointerInfo
    BY <1>1, LenProperties, ElementOfSeq DEF ListSound
  <2> QED
    BY <2>1 DEF PointerInfo
<1>6. Spared(TrackedAddrs)
  <2>1. \A b \in TrackedAddrs : heap[b] # "free"
    BY <1>1 DEF ListSound, TrackedAddrs
  <2> QED
    BY <1>2, <1>3, <1>5, <2>1 DEF Spared
<1>7. ListSound' /\ TrackedAddrs' = TrackedAddrs
  BY <1>1, <1>3, <1>6, ListKept
<1>8. FlightSound'
  <2>1. \A t \in InFlight : pc[t].ptr \in Addr
    BY <1>1, BusyIs DEF InFlight
  <2> QED
    BY <1>1, <1>2, <1>3, <1>7, <2>1 DEF FlightSound, InFlight
<1>9. IInv'
  BY <1>4, <1>7, <1>8, PartsAfter
<1> QED
  BY <1>6, <1>7, <1>9, NothingTaken DEF Kept

\* The first lock of alloc_internal: a free address starts its way to an entry.
LEMMA AllocateStep ==
    ASSUME IInv, NEW t \in Thread, NEW o \in Owner, NEW n \in Count,
           Allocate(t, o, n)
    PROVE  Kept
<1>1. TypeOK /\ ListSound /\ FlightSound
  BY Parts
<1>2. PICK a \in Addr :
         /\ heap[a] = "free"
         /\ heap' = [heap EXCEPT ![a] = "calloc"]
         /\ pointers' = Append(pointers, a)
         /\ pc' = [pc EXCEPT ![t] =
                      [at |-> "ref", ptr |-> a, owner |-> o, n |-> n]]
  BY DEF Allocate
<1>3. a \notin TrackedAddrs /\ \A u \in InFlight : pc[u].ptr # a
  BY <1>2, FreeIsUnused
<1>4. /\ pointers' \in Seq(Addr) /\ Contains(pointers', a)
      /\ \A b : Contains(pointers, b) => Contains(pointers', b)
  <2>1. /\ Len(pointers) \in Nat
        /\ pointers' \in Seq(Addr) /\ Len(pointers') = Len(pointers) + 1
        /\ \A i \in 1 .. Len(pointers) : pointers'[i] = pointers[i]
        /\ pointers'[Len(pointers) + 1] = a
    BY <1>1, <1>2, AppendProperties, LenProperties DEF TypeOK
  <2>2. /\ Len(pointers) + 1 \in 1 .. Len(pointers')
        /\ \A i \in 1 .. Len(pointers) : i \in 1 .. Len(pointers')
    BY <2>1
  <2> QED
    BY <2>1, <2>2 DEF Contains
<1>5. /\ heap' \in [Addr -> {"free", "calloc", "user"}]
      /\ heap'[a] = "calloc"
      /\ \A b \in Addr \ {a} : heap'[b] = heap[b]
  BY <1>1, <1>2 DEF TypeOK
<1>6. /\ pc' \in [Thread -> {Idle} \cup Busy]
      /\ pc'[t].at = "ref" /\ pc'[t].ptr = a
      /\ \A u \in Thread \ {t} : pc'[u] = pc[u]
  <2> DEFINE p == [at |-> "ref", ptr |-> a, owner |-> o, n |-> n]
  <2>1. p \in Busy /\ p.at = "ref" /\ p.ptr = a
    BY DEF Busy
  <2> HIDE DEF p
  <2>2. pc' = [pc EXCEPT ![t] = p]
    BY <1>2 DEF p
  <2> QED
    BY <1>1, <2>1, <2>2 DEF TypeOK
<1>7. memUsage' \in 0 .. Word - 1
  <2>1. n \in Nat /\ memUsage' = (memUsage + n) % Word
    BY TrackerAssumption DEF Allocate, Plus
  <2> QED
    BY <1>1, <2>1, TrackerAssumption DEF TypeOK
<1>8. TypeOK'
  BY <1>1, <1>4, <1>5, <1>6, <1>7 DEF TypeOK, Allocate
<1>9. Spared(TrackedAddrs)
  <2>1. \A b \in TrackedAddrs : b \in Addr /\ heap[b] # "free"
    <3> SUFFICES ASSUME NEW j \in DOMAIN tracked
                 PROVE  /\ tracked[j].pointer \in Addr
                        /\ heap[tracked[j].pointer] # "free"
      BY DEF TrackedAddrs
    <3>1. tracked[j] \in PointerInfo
      BY <1>1, LenProperties, ElementOfSeq DEF ListSound
    <3> QED
      BY <1>1, <3>1 DEF ListSound, PointerInfo
  <2> QED
    BY <1>3, <1>4, <1>5, <2>1 DEF Spared
<1>10. ListSound' /\ TrackedAddrs' = TrackedAddrs
  BY <1>1, <1>9, ListKept DEF Allocate
<1>11. FlightSound'
  <2>1. pc[t] = Idle
    BY DEF Allocate, Ready
  <2>2. \A u \in InFlight : u \in Thread /\ u # t /\ pc[u].ptr \in Addr
    BY <1>1, <2>1, BusyIs DEF InFlight, Idle
  <2>3. InFlight' = InFlight \cup {t}
    BY <1>6, <2>2 DEF InFlight
  <2>4. \A u \in InFlight : /\ pc'[u] = pc[u] /\ pc[u].ptr # a
                            /\ heap'[pc[u].ptr] = heap[pc[u].ptr]
    BY <1>3, <1>5, <1>6, <2>2
  <2>5. ASSUME NEW u \in InFlight'
        PROVE  /\ heap'[pc'[u].ptr] = "calloc"
               /\ pc'[u].ptr \notin TrackedAddrs'
               /\ Contains(pointers', pc'[u].ptr)
    <3>1. CASE u = t
      BY <3>1, <1>3, <1>4, <1>5, <1>6, <1>10
    <3>2. CASE u \in InFlight
      BY <3>2, <1>1, <1>4, <1>10, <2>4 DEF FlightSound
    <3> QED
      BY <2>3, <3>1, <3>2
  <2>6. ASSUME NEW u \in InFlight', NEW v \in InFlight' \ {u}
        PROVE  pc'[v].ptr # pc'[u].ptr
    <3>1. CASE u = t
      BY <3>1, <1>6, <2>3, <2>4
    <3>2. CASE v = t
      BY <3>2, <1>6, <2>3, <2>4
    <3>3. CASE u \in InFlight /\ v \in InFlight
      BY <3>3, <1>1, <2>4 DEF FlightSound
    <3> QED
      BY <2>3, <3>1, <3>2, <3>3
  <2> QED
    BY <2>5, <2>6 DEF FlightSound
<1>12. IInv'
  BY <1>8, <1>10, <1>11, PartsAfter
<1> QED
  BY <1>9, <1>10, <1>12, NothingTaken DEF Kept

\* ref(): the list grows by an address at most, which is not in flight any more.
LEMMA RefStep ==
    ASSUME IInv, TypeOK', NEW a \in Addr, NEW o \in Owner,
           NEW d \in {"mallocator", "user"}, Ref(a, o, d),
           UNCHANGED <<heap, pointers>>,
           heap[a] # "free", d = "mallocator" => Contains(pointers, a),
           \A u \in InFlight' : /\ u \in InFlight /\ pc'[u] = pc[u]
                                /\ pc[u].ptr # a
    PROVE  Kept
<1>1. TypeOK /\ ListSound /\ FlightSound
  BY Parts
<1>2. Spared(TrackedAddrs)
  BY Spares
<1>3. ListSound' /\ TrackedAddrs' = TrackedAddrs \cup {a}
  BY <1>1, RefIs
<1>4. \A u \in InFlight' :
         /\ u \in InFlight /\ pc'[u] = pc[u]
         /\ heap'[pc[u].ptr] = "calloc"
         /\ Contains(pointers', pc[u].ptr)
         /\ pc[u].ptr \notin TrackedAddrs'
  BY <1>1, <1>3 DEF FlightSound
<1>5. IInv'
  BY <1>1, <1>3, <1>4, FlightKept, PartsAfter
<1> QED
  BY <1>2, <1>3, <1>5, NothingTaken DEF Kept

\* What ref() needs of the types.
LEMMA RefTyped ==
    ASSUME TypeOK, ListSound, NEW a \in Addr, NEW o \in Owner,
           NEW d \in {"mallocator", "user"}, Ref(a, o, d),
           UNCHANGED <<heap, pointers>>,
           heap[a] # "free", d = "mallocator" => Contains(pointers, a)
    PROVE  tracked' \in Seq(PointerInfo)
BY RefIs DEF ListSound

LEMMA AllocRefStep ==
    ASSUME IInv, NEW t \in Thread, AllocRef(t)
    PROVE  Kept
<1> DEFINE a == pc[t].ptr
           o == pc[t].owner
           d == "mallocator"
<1>1. TypeOK /\ ListSound /\ FlightSound
  BY Parts
<1>2. t \in InFlight /\ a \in Addr /\ o \in Owner
  BY <1>1, BusyIs DEF AllocRef, InFlight
<1>3. /\ heap[a] = "calloc" /\ Contains(pointers, a)
      /\ \A u \in InFlight \ {t} : pc[u].ptr # a
  BY <1>1, <1>2 DEF FlightSound
<1>4. /\ Ref(a, o, d) /\ d \in {"mallocator", "user"}
      /\ UNCHANGED <<heap, pointers>>
  BY DEF AllocRef
<1> HIDE DEF d
<1>5. /\ pc' \in [Thread -> {Idle} \cup Busy]
      /\ \A u \in InFlight' : /\ u \in InFlight /\ pc'[u] = pc[u]
                               /\ pc[u].ptr # a
  <2>1. /\ pc' \in [Thread -> {Idle} \cup Busy]
        /\ pc'[t] = Idle
        /\ \A u \in Thread \ {t} : pc'[u] = pc[u]
    BY <1>1 DEF AllocRef, TypeOK
  <2>2. t \notin InFlight'
    BY <2>1 DEF InFlight, Idle
  <2> QED
    BY <1>3, <2>1, <2>2 DEF InFlight
<1>6. ownUsage' \in [Owner -> 0 .. Word - 1]
  <2> DEFINE i == IndexOf(a)
  <2>1. PICK before : ownUsage' = [ownUsage EXCEPT ![o] =
                         IF o \in MemOwner THEN (ownUsage[o] + before) % Word
                                           ELSE ownUsage[o]]
                     /\ before = IF i = 0 \/ tracked[i].refs # <<o>> THEN 0
                                 ELSE tracked[i].count
    BY DEF AllocRef
  <2>2. i \notin {0} => tracked[i].count \in Nat
    <3>1. CASE a \in TrackedAddrs
      <4>1. i \in DOMAIN tracked /\ tracked \in Seq(PointerInfo)
        BY <1>1, <3>1, IndexIs DEF ListSound
      <4>2. tracked[i] \in PointerInfo
        BY <4>1, LenProperties, ElementOfSeq
      <4> HIDE DEF i
      <4> QED
        BY <4>2 DEF PointerInfo
    <3>2. CASE a \notin TrackedAddrs
      BY <1>1, <3>2, IndexIs DEF ListSound
    <3> QED
      BY <3>1, <3>2
  <2> HIDE DEF i
  <2>3. before \in Nat
    BY <2>1, <2>2
  <2>4. ownUsage[o] \in Nat /\ (ownUsage[o] + before) % Word \in 0 .. Word - 1
    BY <1>1, <1>2, <2>3, TrackerAssumption DEF TypeOK
  <2> QED
    BY <1>1, <1>2, <2>1, <2>4 DEF TypeOK
<1>7. tracked' \in Seq(PointerInfo)
  BY <1>1, <1>2, <1>3, <1>4, RefTyped
<1>8. TypeOK'
  BY <1>1, <1>5, <1>6, <1>7 DEF TypeOK, AllocRef
<1> HIDE DEF a, o
<1> QED
  BY <1>2, <1>3, <1>4, <1>5, <1>8, RefStep

LEMMA AdoptStep ==
    ASSUME IInv, NEW t \in Thread, NEW o \in Owner, NEW a \in Addr, Adopt(t, o, a)
    PROVE  Kept
<1> DEFINE d == "user"
<1>1. TypeOK /\ ListSound /\ FlightSound
  BY Parts
<1>2. /\ Ref(a, o, d) /\ d \in {"mallocator", "user"} /\ d # "mallocator"
      /\ UNCHANGED <<heap, pointers, memUsage, ownUsage, exists, pc, holder>>
  BY DEF Adopt
<1> HIDE DEF d
<1>3. heap[a] # "free" /\ \A u \in InFlight : pc[u].ptr # a
  <2>1. CASE heap[a] = "user"
    BY <1>1, <2>1 DEF FlightSound
  <2>2. CASE a \in TrackedAddrs
    BY <1>1, <2>2 DEF FlightSound, ListSound, TrackedAddrs
  <2> QED
    BY <1>1, <2>1, <2>2, IndexIs DEF Adopt, ListSound
<1>4. tracked' \in Seq(PointerInfo)
  BY <1>1, <1>2, <1>3, RefTyped
<1>5. TypeOK'
  BY <1>1, <1>2, <1>4 DEF TypeOK
<1>6. InFlight' = InFlight
  BY <1>2 DEF InFlight
<1> QED
  BY <1>2, <1>3, <1>5, <1>6, RefStep

\* release(): the entry goes, or only other owners than the global allocator.
LEMMA ReleaseStep ==
    ASSUME IInv, NEW t \in Thread, NEW a \in Addr, Release(t, a)
    PROVE  Kept
<1> DEFINE i == IndexOf(a)
           e == tracked[i]
<1>1. TypeOK /\ ListSound /\ FlightSound
  BY Parts
<1>2. a \in TrackedAddrs /\ i \in DOMAIN tracked /\ e.pointer = a
  BY <1>1, IndexIs DEF Release, ListSound
<1>3. /\ e \in PointerInfo /\ e.refs \in Seq(Owner) /\ IsInjective(e.refs)
      /\ heap[a] # "free" /\ e.deleter # "none"
      /\ e.deleter = "mallocator" => Contains(pointers, a)
  <2>1. e \in PointerInfo
    BY <1>1, <1>2, LenProperties, ElementOfSeq DEF ListSound
  <2> QED
    BY <1>1, <1>2, <2>1 DEF ListSound, PointerInfo
<1>4. UNCHANGED <<pointers, memUsage, ownUsage, exists, pc, holder>>
  BY DEF Release
<1>5. InFlight' = InFlight
  BY <1>4 DEF InFlight
<1>6. CASE /\ Contains(e.refs, Global)
           /\ tracked' = [tracked EXCEPT ![i].refs =
                             RemoveAllPointersExcept(tracked[i].refs, Global)]
           /\ UNCHANGED heap
  <2> DEFINE r == RemoveAllPointersExcept(e.refs, Global)
             f == [e EXCEPT !.refs = r]
  <2>1. r \in Seq(Owner) /\ r # <<>> /\ IsInjective(r)
    <3>1. r = <<Global>> /\ Global \in Owner
      BY <1>3, <1>6, RemoveAllExceptIs
    <3>2. /\ <<Global>> \in Seq(Owner) /\ <<Global>> # <<>>
          /\ IsInjective(<<Global>>)
      BY <3>1 DEF IsInjective
    <3> QED
      BY <3>1, <3>2
  <2>2. tracked' = [tracked EXCEPT ![i] = f]
    BY <1>6
  <2> HIDE DEF r
  <2>3. /\ f \in PointerInfo /\ f.pointer = e.pointer
        /\ f.deleter = e.deleter /\ f.refs = r
    BY <1>3, <2>1 DEF PointerInfo
  <2> HIDE DEF f
  <2>4. Spared(TrackedAddrs)
    BY <1>4, <1>6, Spares
  <2>5. f.deleter = "mallocator" => Contains(pointers', f.pointer)
    BY <1>2, <1>3, <1>4, <2>3
  <2> HIDE DEF i
  <2>6. ListSound' /\ TrackedAddrs' = TrackedAddrs
    BY <1>1, <1>2, <1>3, <2>1, <2>2, <2>3, <2>4, <2>5, ReplaceEntry
  <2>7. TypeOK'
    BY <1>1, <1>4, <1>6, <2>6 DEF TypeOK, ListSound
  <2>8. FlightSound'
    BY <1>1, <1>4, <1>5, <1>6, <2>6 DEF FlightSound
  <2>9. IInv'
    BY <2>6, <2>7, <2>8, PartsAfter
  <2> QED
    BY <2>4, <2>6, <2>9, NothingTaken DEF Kept
<1>7. CASE /\ ~Contains(e.refs, Global)
           /\ tracked' = RemoveAt(tracked, i)
           /\ heap' = [heap EXCEPT ![a] = "user"]
  <2>1. /\ heap' \in [Addr -> {"free", "calloc", "user"}]
        /\ \A b : heap'[b] = "free" /\ b \in Addr => heap[b] = "free" /\ b # a
        /\ \A b \in Addr \ {a} : heap'[b] = heap[b]
        /\ heap'[a] = "user"
    BY <1>1, <1>7 DEF TypeOK
  <2>2. \A j \in DOMAIN tracked :
           /\ tracked[j].pointer \in Addr
           /\ heap[tracked[j].pointer] # "free"
           /\ tracked[j].pointer = a => j = i
           /\ tracked[j].pointer \in TrackedAddrs
    <3> SUFFICES ASSUME NEW j \in DOMAIN tracked
                 PROVE  /\ tracked[j].pointer \in Addr
                        /\ heap[tracked[j].pointer] # "free"
                        /\ tracked[j].pointer = a => j = i
                        /\ tracked[j].pointer \in TrackedAddrs
      OBVIOUS
    <3>1. tracked[j] \in PointerInfo
      BY <1>1, LenProperties, ElementOfSeq DEF ListSound
    <3> QED
      BY <1>1, <1>2, <3>1 DEF ListSound, PointerInfo, TrackedAddrs
  <2>3. Spared(TrackedAddrs)
    BY <1>4, <2>1, <2>2 DEF Spared, TrackedAddrs
  <2>4. Spared(TrackedAddrs \ {e.pointer})
    BY <2>3 DEF Spared
  <2> HIDE DEF i
  <2>5. ListSound' /\ TrackedAddrs' = TrackedAddrs \ {a}
    BY <1>1, <1>2, <1>7, <2>4, DropEntry
  <2>6. TypeOK'
    BY <1>1, <1>4, <2>1, <2>5 DEF TypeOK, ListSound
  <2>7. \A t1 \in InFlight : pc[t1].ptr \in Addr /\ pc[t1].ptr # a
    BY <1>1, <1>2, BusyIs DEF InFlight, FlightSound
  <2>8. FlightSound'
    BY <1>1, <1>4, <1>5, <2>1, <2>5, <2>7 DEF FlightSound
  <2>9. IInv'
    BY <2>5, <2>6, <2>8, PartsAfter
  <2>10. KeptWhileShared
    <3> SUFFICES ASSUME NEW j \in DOMAIN tracked
                 PROVE  /\ heap'[tracked[j].pointer] # "free"
                        /\ \/ ~Contains(tracked[j].refs, Global)
                           \/ tracked[j].pointer \in TrackedAddrs'
      BY DEF KeptWhileShared
    <3>1. heap'[tracked[j].pointer] # "free"
      BY <2>1, <2>2
    <3>2. CASE j = i
      BY <1>7, <3>1, <3>2
    <3>3. CASE j # i
      BY <2>2, <2>5, <3>1, <3>3
    <3> QED
      BY <3>2, <3>3
  <2> QED
    BY <2>9, <2>10 DEF Kept
<1> QED
  BY <1>6, <1>7 DEF Release, FindPointer

\* A step that unrefs, and starts no call that holds an address.
LEMMA UnrefStep ==
    ASSUME IInv, UnrefSafe, UNCHANGED <<ownUsage, holder>>,
           exists' \subseteq Owner,
           pc' \in [Thread -> {Idle} \cup Busy],
           \A t \in InFlight' : t \in InFlight /\ pc'[t] = pc[t]
    PROVE  Kept
<1>1. TypeOK
  BY Parts
<1>2. TypeOK' /\ ListSound'
  BY <1>1 DEF TypeOK, UnrefSafe, ListSound
<1>3. FlightSound'
  BY FlightSpared
<1> QED
  BY <1>2, <1>3, PartsAfter DEF Kept, UnrefSafe

LEMMA DeallocStep ==
    ASSUME IInv, NEW t \in Thread, NEW o \in Owner, NEW a \in Addr,
           Dealloc(t, o, a)
    PROVE  Kept
<1> DEFINE i == IndexOf(a)
<1>1. TypeOK /\ ListSound
  BY Parts
<1>2. i \in DOMAIN tracked /\ Unref(i, o)
  BY <1>1, IndexIs DEF Dealloc, ListSound
<1>3. UNCHANGED <<ownUsage, exists, pc, holder>>
  BY DEF Dealloc
<1> HIDE DEF i
<1>4. UnrefSafe
  BY <1>2, UnrefIs
<1> QED
  BY <1>1, <1>3, <1>4, UnrefStep DEF TypeOK, InFlight

LEMMA DestructStep ==
    ASSUME IInv, NEW t \in Thread, NEW o \in Owner, Destruct(t, o)
    PROVE  Kept
<1>1. TypeOK /\ UnrefSafe
  BY Parts, DeallocAllIs DEF Destruct
<1>2. /\ pc' \in [Thread -> {Idle} \cup Busy]
      /\ pc'[t].at # "ref"
      /\ \A u \in Thread \ {t} : pc'[u] = pc[u]
  <2>1. CASE o \in MemOwner
    <3> DEFINE p == [at |-> "mutex", owner |-> o]
    <3>1. p \in Busy /\ p.at = "mutex"
      BY DEF Busy
    <3> HIDE DEF p
    <3>2. pc' = [pc EXCEPT ![t] = p]
      BY <2>1 DEF Destruct, p
    <3> QED
      BY <1>1, <3>1, <3>2 DEF TypeOK
  <2>2. CASE o \notin MemOwner
    <3>1. pc' = pc /\ pc[t] = Idle
      BY <2>2 DEF Destruct, Ready
    <3> QED
      BY <1>1, <3>1 DEF TypeOK, Idle
  <2> QED
    BY <2>1, <2>2
<1>3. \A u \in InFlight' : u \in InFlight /\ pc'[u] = pc[u]
  <2> SUFFICES ASSUME NEW u \in InFlight' PROVE u \in InFlight /\ pc'[u] = pc[u]
    OBVIOUS
  <2>1. u \in Thread /\ u # t
    BY <1>2 DEF InFlight
  <2> QED
    BY <1>2, <2>1 DEF InFlight
<1>4. UNCHANGED <<ownUsage, holder>> /\ exists' \subseteq Owner
  BY <1>1 DEF Destruct, TypeOK
<1> QED
  BY <1>1, <1>2, <1>3, <1>4, UnrefStep

LEMMA BaseStep ==
    ASSUME IInv, NEW t \in Thread, DestructBase(t)
    PROVE  Kept
<1>1. TypeOK
  BY Parts
<1>2. pc[t].owner \in Owner
  BY <1>1, BusyIs DEF DestructBase
<1> DEFINE o == pc[t].owner
<1>3. DeallocAll(o)
  BY DEF DestructBase
<1> HIDE DEF o
<1>4. UnrefSafe
  BY <1>2, <1>3, DeallocAllIs DEF o
<1>5. /\ pc' \in [Thread -> {Idle} \cup Busy]
      /\ pc'[t] = Idle
      /\ \A u \in Thread \ {t} : pc'[u] = pc[u]
  BY <1>1 DEF DestructBase, TypeOK
<1>6. \A u \in InFlight' : u \in InFlight /\ pc'[u] = pc[u]
  <2>1. t \notin InFlight'
    BY <1>5 DEF InFlight, Idle
  <2> QED
    BY <1>5, <2>1 DEF InFlight
<1>7. UNCHANGED <<ownUsage, holder>> /\ exists' \subseteq Owner
  BY <1>1 DEF DestructBase, TypeOK
<1> QED
  BY <1>4, <1>5, <1>6, <1>7, UnrefStep

LEMMA StutterStep == ASSUME IInv, UNCHANGED vars PROVE Kept
<1>1. TypeOK'
  BY Parts DEF TypeOK, vars
<1> QED
  BY <1>1, QuietStep DEF vars, InFlight

LEMMA EveryStep == ASSUME IInv, [Next]_vars PROVE Kept
<1>1. CASE \E o \in Owner : Create(o)
  BY <1>1, CreateStep
<1>2. CASE \E t \in Thread : AllocateThrows(t) \/ AllocRef(t)
                             \/ DestructMutex(t) \/ DestructBase(t)
  BY <1>2, ThrowsStep, AllocRefStep, MutexStep, BaseStep
<1>3. CASE \E t \in Thread, o \in Owner :
              \/ \E n \in Count : Allocate(t, o, n)
              \/ \E a \in Addr : Adopt(t, o, a) \/ Dealloc(t, o, a)
              \/ Destruct(t, o)
  BY <1>3, AllocateStep, AdoptStep, DeallocStep, DestructStep
<1>4. CASE \E t \in Thread, a \in Addr : Release(t, a)
  BY <1>4, ReleaseStep
<1>5. CASE \E a \in Addr : UserNew(a) \/ UserFree(a)
  BY <1>5, UserStep
<1>6. CASE UNCHANGED vars
  BY <1>6, StutterStep
<1> QED
  BY <1>1, <1>2, <1>3, <1>4, <1>5, <1>6 DEF Next

-----------------------------------------------------------------------------
\* In every reachable state the tracked list and the list of calloc'd pointers fit
\* together, and with what is between the two locks of alloc_internal (SA.h:583-686,
\* 760-851, 937-961).
THEOREM Invariance == Spec => []IInv
<1>1. IInv /\ [Next]_vars => IInv'
  BY EveryStep DEF Kept
<1> QED
  BY Initially, <1>1, PTL DEF Spec

\* No address is tracked twice, and no tracked memory, and none that is on its way
\* to an entry, has been given back (SA.h:583-686).
THEOREM NothingDangles == Spec => []NoDangling
<1>1. IInv => NoDangling
  BY DEF IInv
<1> QED
  BY Invariance, <1>1, PTL

\* TrackedMallocator finds every address it is to free (SA.h:831).
THEOREM MallocatorAlwaysKnows == Spec => []MallocatorKnows
<1>1. IInv => MallocatorKnows
  BY DEF IInv
<1> QED
  BY Invariance, <1>1, PTL

\* Tracked memory is given back by its last owner, and an object of the global
\* allocator leaves the list in no other way (SA.h:629-686).
THEOREM SharedAlwaysSurvives == Spec => SharedSurvives
<1>1. IInv /\ [Next]_vars => [KeptWhileShared]_vars
  BY EveryStep DEF Kept
<1> QED
  BY Invariance, <1>1, PTL DEF Spec, SharedSurvives
=============================================================================

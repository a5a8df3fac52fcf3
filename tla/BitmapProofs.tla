---------------------------- MODULE BitmapProofs ----------------------------
(***************************************************************************)
(* Proofs about Bitmap, for any number of threads, fields and bits.        *)
(***************************************************************************)
EXTENDS BitmapProps, TLAPS

-----------------------------------------------------------------------------
(* Arithmetic of fields and indices.                                       *)

LEMMA Times == ASSUME NEW a \in Int, NEW b \in Int, NEW c \in Nat, a <= b
               PROVE  a * c <= b * c
  OBVIOUS

LEMMA NextField == ASSUME NEW i \in Int PROVE (i + 1) * Bits = i * Bits + Bits
  BY BitmapAssumption

LEMMA Distributes == ASSUME NEW i \in Int, NEW j \in Int
                     PROVE  (i + j) * Bits = i * Bits + j * Bits
  BY BitmapAssumption

LEMMA Wraps == ASSUME NEW i \in Int PROVE i % Fields \in Field
  BY BitmapAssumption DEF Field

\* The rest of a division, and what it is rounded up to.
LEMMA Rest == ASSUME NEW p \in Int
              PROVE  /\ p = Bits * (p \div Bits) + (p % Bits)
                     /\ p % Bits \in 0..(Bits - 1)
                     /\ p \div Bits \in Int
  BY BitmapAssumption

LEMMA RoundedUp == ASSUME NEW n \in Nat \ {0}
                   PROVE  /\ DivideUp(n, Bits) \in Int
                          /\ DivideUp(n, Bits) >= 1
                          /\ DivideUp(n, Bits) * Bits >= n
  BY BitmapAssumption DEF DivideUp

-----------------------------------------------------------------------------
(* Where the bits of a run lie.                                            *)

LEMMA InBit == ASSUME NEW b \in Bit
               PROVE  /\ b[1] \in Field /\ b[2] \in 0..(Bits - 1)
                      /\ b = <<b[1], b[2]>> /\ Index(b) \in Int
                      /\ b[1] * Bits <= Index(b)
                      /\ Index(b) < b[1] * Bits + Bits
  BY BitmapAssumption DEF Bit, Field, Index

LEMMA FieldFrom == ASSUME NEW b \in Bit, NEW i \in Int, i * Bits <= Index(b)
                   PROVE  i <= b[1]
<1> SUFFICES ASSUME b[1] + 1 <= i PROVE FALSE
  BY InBit DEF Field
<1>1. b[1] \in Int /\ b[1] + 1 \in Int /\ Bits \in Nat
  BY InBit, BitmapAssumption DEF Field
<1>2. (b[1] + 1) * Bits <= i * Bits
  BY <1>1, Times
<1>3. (b[1] + 1) * Bits = b[1] * Bits + Bits
  BY <1>1, NextField
<1> QED BY <1>1, <1>2, <1>3, InBit

LEMMA InField == ASSUME NEW i \in Field, NEW b \in FieldBits(i)
                 PROVE  b \in Bit /\ b[1] = i
  BY DEF FieldBits, Bit

LEMMA RunsAreBits == ASSUME NEW r \in Runs PROVE r \subseteq Bit
  BY DEF Runs, Run

LEMMA RunIn == ASSUME NEW p \in Nat, NEW n \in Nat \ {0}, p + n <= Size
               PROVE  Run(p, n) \in Runs /\ p \in 0..Size
<1>1. Size \in Nat
  BY BitmapAssumption DEF Size
<1>2. n \in 1..Size /\ p \in 0..(Size - n)
  BY <1>1
<1> QED BY <1>1, <1>2 DEF Runs

\* A run inside field i is one of the bitmap.
LEMMA RunInside == ASSUME NEW i \in Field, NEW n \in Nat \ {0}, NEW q \in Nat,
                          q + n <= i * Bits + Bits
                   PROVE  Run(q, n) \in Runs /\ q \in 0..Size
<1>1. i * Bits + Bits <= Size
  BY Times, NextField, BitmapAssumption DEF Field, Size
<1> QED BY <1>1, RunIn, BitmapAssumption DEF Field, Size

\* A run that begins with the last k bits of field i and is longer than that
\* fills the fields between, and goes on in field i + 1.
LEMMA RunAcross ==
  ASSUME NEW c \in Control, NEW i \in Field, i + 1 \in Field, NEW k \in 1..Bits,
         NEW n \in Nat, n > k, c.idx = i,
         c.run = Run(i * Bits + Bits - k, n)
  PROVE  Spread(c) /\ \E b \in c.run : b[1] >= i + 1
<1> DEFINE p == i * Bits + Bits - k
<1>1. i * Bits \in Int /\ (i + 1) * Bits = i * Bits + Bits /\ p \in Int
  BY NextField, BitmapAssumption DEF Field
<1>2. ASSUME NEW b \in c.run PROVE b[1] >= c.idx
  <2>1. b \in Bit /\ i * Bits <= Index(b)
    BY <1>1, InBit, BitmapAssumption DEF Run
  <2> QED BY <2>1, FieldFrom DEF Field
<1>3. ASSUME NEW j \in Field, j > c.idx, NEW b \in c.run, b[1] > j,
             NEW x \in FieldBits(j)
      PROVE  x \in c.run
  <2>1. x \in Bit /\ x[1] = j /\ b \in Bit
    BY InField DEF Run
  <2> i + 1 \in Int /\ j \in Int /\ j + 1 \in Int /\ b[1] \in Int /\ Bits \in Nat
    BY <2>1, InBit, BitmapAssumption DEF Field
  <2> i + 1 <= j /\ j + 1 <= b[1]
    BY <1>3
  <2>2. (i + 1) * Bits <= j * Bits /\ (j + 1) * Bits <= b[1] * Bits
    BY Times
  <2>3. j * Bits \in Int /\ b[1] * Bits \in Int /\ (j + 1) * Bits = j * Bits + Bits
    BY <2>1, NextField, InBit, BitmapAssumption DEF Field
  <2>4. Index(x) >= j * Bits /\ Index(x) < j * Bits + Bits /\ Index(x) \in Int
    BY <2>1, InBit
  <2>5. Index(b) >= b[1] * Bits /\ Index(b) < p + n /\ Index(b) \in Int
    BY <2>1, InBit DEF Run
  <2> QED BY <2>1, <2>2, <2>3, <2>4, <2>5, <1>1, BitmapAssumption DEF Run
<1>4. \E b \in c.run : b[1] >= i + 1
  <2> DEFINE b == <<i + 1, 0>>
  <2>1. b \in Bit /\ b[1] = i + 1 /\ Index(b) = i * Bits + Bits
    BY <1>1, BitmapAssumption DEF Bit, Index, Field
  <2>2. b \in c.run
    BY <2>1, <1>1, BitmapAssumption DEF Run
  <2> QED BY <2>1, <2>2 DEF Field
<1> QED BY <1>2, <1>3, <1>4 DEF Spread

-----------------------------------------------------------------------------
(* Who answers for which bit.                                              *)

Separate(t) == \A r \in held[t] :
    /\ r \cap Taken(t) = {}
    /\ \A s \in held[t] : r # s => r \cap s = {}

\* Only t moves.
Moves(t) == \A u \in Thread \ {t} : pc'[u] = pc[u] /\ held'[u] = held[u]

LEMMA OthersKeep == ASSUME NEW t \in Thread, Moves(t), NEW u \in Thread, u # t
                    PROVE  Own(u)' = Own(u) /\ Taken(u)' = Taken(u)
                           /\ held'[u] = held[u]
<1>1. pc'[u] = pc[u] /\ held'[u] = held[u]
  BY DEF Moves
<1> QED BY <1>1 DEF Own, Taken

\* t sets bits that were 0.
LEMMA Claims == ASSUME IInv, NEW t \in Thread, Moves(t), Separate(t)',
                       NEW new \in SUBSET Bit, new \cap map = {},
                       map' = map \cup new, Own(t)' = Own(t) \cup new
                PROVE  BitsAccounted'
<1> USE DEF IInv, BitsAccounted
<1>1. \A u \in Thread : u # t => Own(u)' = Own(u)
  BY OthersKeep
<1>2. LeftOver \subseteq map /\ \A u \in Thread : Own(u) \subseteq map
  OBVIOUS
<1>3. map' = LeftOver \cup UNION {Own(u)' : u \in Thread}
  BY <1>1
<1>4. \A u \in Thread : Own(u)' \cap LeftOver = {}
  BY <1>1, <1>2
<1>5. \A u, v \in Thread : u # v => Own(u)' \cap Own(v)' = {}
  BY <1>1, <1>2
<1>6. \A u \in Thread : Separate(u)'
  BY OthersKeep DEF Separate
<1> QED BY <1>3, <1>4, <1>5, <1>6 DEF Separate

\* t clears bits that are its own.
LEMMA Clears == ASSUME IInv, NEW t \in Thread, Moves(t), Separate(t)',
                       NEW gone \in SUBSET Own(t),
                       map' = map \ gone, Own(t)' = Own(t) \ gone
                PROVE  BitsAccounted'
<1> USE DEF IInv, BitsAccounted
<1>1. \A u \in Thread : u # t => Own(u)' = Own(u)
  BY OthersKeep
<1>2. map' = LeftOver \cup UNION {Own(u)' : u \in Thread}
  <2>1. \A u \in Thread : u # t => Own(u) \cap gone = {}
    OBVIOUS
  <2>2. LeftOver \cap gone = {}
    OBVIOUS
  <2> QED BY <1>1, <2>1, <2>2
<1>3. \A u \in Thread : Own(u)' \cap LeftOver = {}
  BY <1>1
<1>4. \A u, v \in Thread : u # v => Own(u)' \cap Own(v)' = {}
  BY <1>1
<1>5. \A u \in Thread : Separate(u)'
  BY OthersKeep DEF Separate
<1> QED BY <1>2, <1>3, <1>4, <1>5 DEF Separate

\* t only reads.
LEMMA Reads == ASSUME IInv, NEW t \in Thread, Moves(t), map' = map,
                      held'[t] = held[t], Taken(t) = {}, Taken(t)' = {}
               PROVE  BitsAccounted'
<1>1. Separate(t)'
  BY DEF IInv, BitsAccounted, Separate
<1>2. Own(t)' = Own(t) \cup {}
  BY DEF Own
<1> QED BY <1>1, <1>2, Claims

-----------------------------------------------------------------------------
(* Where a thread goes on after a failure.                                 *)

\* Begins or ends a search in a field: it has no bits.
Fresh(c) == c \in Control /\ Placed(c) /\ c.at \in {"idle", "load", "scan"}

LEMMA SizeNat == Size \in Nat /\ Fields \in Nat /\ 0 \in Field
  BY BitmapAssumption DEF Size, Field

LEMMA IdleType == /\ Idle \in Control /\ Idle.at = "idle" /\ Idle.count = 0
                  /\ Idle.run = {} /\ Idle.idx = 0 /\ Idle.left = 0
  BY SizeNat DEF Control, Idle, Label

LEMMA IdleFresh == Fresh(Idle)
  BY IdleType DEF Fresh, Placed

\* A search goes on at field i.
LEMMA GoesOn == ASSUME NEW a \in {"load", "scan"}, NEW n \in Nat, n > 0,
                       NEW i \in Field, NEW left \in 0..Fields, left > 0,
                       NEW k \in 0..3
                PROVE  /\ Fresh([Idle EXCEPT !.at = a, !.count = n, !.idx = i,
                                             !.left = left])
                       /\ Fresh([Idle EXCEPT !.at = a, !.count = n, !.idx = i,
                                             !.left = left, !.retries = k])
<1> DEFINE d == [Idle EXCEPT !.at = a, !.count = n, !.idx = i, !.left = left]
           e == [Idle EXCEPT !.at = a, !.count = n, !.idx = i, !.left = left,
                             !.retries = k]
<1>1. d \in Control /\ d.at = a /\ d.count > 0 /\ d.left > 0
  BY IdleType DEF Control, Label
<1>2. e \in Control /\ e.at = a /\ e.count > 0 /\ e.left > 0
  BY IdleType DEF Control, Label
<1> QED BY <1>1, <1>2 DEF Fresh, Placed

LEMMA VisitFresh == ASSUME NEW c \in Control, c.count > 0, NEW i \in Field,
                           NEW left \in 0..Fields
                    PROVE  Fresh(Visit(c, i, left))
<1>1. CASE left = 0
  BY <1>1, IdleFresh DEF Visit
<1>2. CASE left # 0
  <2>1. c.count \in Nat /\ left > 0 /\ 0 \in 0..3
    BY <1>2, SizeNat DEF Control
  <2>2. CASE c.count <= 2 \/ c.count <= Bits
    BY <1>2, <2>1, <2>2, GoesOn DEF Visit
  <2>3. CASE ~(c.count <= 2 \/ c.count <= Bits)
    BY <1>2, <2>1, <2>3, GoesOn DEF Visit
  <2> QED BY <2>2, <2>3
<1> QED BY <1>1, <1>2

LEMMA AdvanceFresh == ASSUME NEW c \in Control, c.count > 0, c.left > 0
                      PROVE  Fresh(Advance(c))
<1>1. c.left \in 0..Fields /\ c.idx \in Int
  BY DEF Control, Field
<1>2. c.left - 1 \in 0..Fields
  BY <1>1, SizeNat
<1>3. (c.idx + 1) % Fields \in Field
  BY <1>1, Wraps
<1> QED BY <1>2, <1>3, VisitFresh DEF Advance

LEMMA RetryFresh == ASSUME NEW c \in Control, c.count > 0, c.left > 0
                    PROVE  Fresh(Retry(c))
<1>1. CASE c.retries <= 2
  <2>1. c.retries + 1 \in 0..3 /\ c.count \in Nat /\ c.idx \in Field
        /\ c.left \in 0..Fields
    BY <1>1 DEF Control
  <2> QED BY <1>1, <2>1, GoesOn DEF Retry
<1>2. CASE ~(c.retries <= 2)
  BY <1>2, AdvanceFresh DEF Retry
<1> QED BY <1>1, <1>2

LEMMA InsideFailsFresh == ASSUME NEW c \in Control, c.count > 0, c.left > 0
                          PROVE  Fresh(InsideFails(c))
<1>1. CASE c.count <= 2 \/ c.nested
  BY <1>1, AdvanceFresh DEF InsideFails
<1>2. CASE ~(c.count <= 2 \/ c.nested)
  <2> DEFINE d == [Idle EXCEPT !.at = "scan", !.count = c.count, !.idx = c.idx,
                               !.left = c.left]
  <2>1. d \in Control /\ d.at = "scan" /\ d.count > 0 /\ d.left > 0
    BY <1>2, IdleType DEF Control, Label
  <2> QED BY <1>2, <2>1 DEF InsideFails, Fresh, Placed
<1> QED BY <1>1, <1>2

\* The parts of IInv' that are about one thread.
LEMMA Assemble == ASSUME IInv, NEW t \in Thread, NEW c \in Control, Placed(c),
                         pc' = [pc EXCEPT ![t] = c], BitsAccounted',
                         map' \subseteq Bit, alone' \subseteq Thread,
                         held' \in [Thread -> SUBSET Runs]
                  PROVE  IInv'
<1>1. pc' \in [Thread -> Control] /\ \A u \in Thread : Placed(pc'[u])
  BY DEF IInv, TypeOK
<1>2. held' \in [Thread -> SUBSET SUBSET Bit] /\ \A u \in Thread : held'[u] \subseteq Runs
  BY RunsAreBits
<1> QED BY <1>1, <1>2 DEF IInv, TypeOK

LEMMA Held == ASSUME IInv PROVE held \in [Thread -> SUBSET Runs]
  BY DEF IInv, TypeOK

\* A step that only reads, from and to a place without bits.
LEMMA ReadStep == ASSUME IInv, NEW t \in Thread, NEW c \in Control, Placed(c),
                         pc' = [pc EXCEPT ![t] = c], UNCHANGED <<map, held>>,
                         alone' \subseteq Thread, Taken(t) = {}, Taken(t)' = {}
                  PROVE  IInv'
<1>1. Moves(t)
  BY DEF Moves, IInv, TypeOK
<1>2. BitsAccounted'
  BY <1>1, Reads
<1> QED BY <1>2, Assemble, Held DEF IInv, TypeOK

-----------------------------------------------------------------------------
(* One lemma for each action.                                              *)

LEMMA InitInv == Init => IInv
<1> SUFFICES ASSUME Init PROVE IInv
  OBVIOUS
<1>1. TypeOK
  BY IdleFresh DEF Init, TypeOK, LeftOver, Fresh
<1>2. \A t \in Thread : Own(t) = {} /\ held[t] = {}
  BY DEF Init, Own, Taken, Idle
<1>3. BitsAccounted
  BY <1>2 DEF Init, BitsAccounted
<1>4. \A t \in Thread : Placed(pc[t])
  BY IdleFresh DEF Init, Fresh
<1> QED BY <1>1, <1>2, <1>3, <1>4 DEF IInv

LEMMA EnterType == ASSUME NEW t \in Thread, Enter(t) PROVE alone' \subseteq Thread
  BY DEF Enter

LEMMA FindStep == ASSUME IInv, NEW t \in Thread, NEW n \in Counts,
                         NEW i \in Starts, Find(t, n, i)
                  PROVE  IInv'
<1> DEFINE c == Visit([Idle EXCEPT !.count = n], i, Fields)
<1>1. [Idle EXCEPT !.count = n] \in Control /\ n > 0 /\ i \in Field
  BY IdleType, BitmapAssumption DEF Control, Field
<1>2. Fresh(c)
  <2>1. [Idle EXCEPT !.count = n].count = n /\ Fields \in 0..Fields
    BY IdleType, SizeNat DEF Control
  <2> QED BY <1>1, <2>1, VisitFresh
<1>3. pc' = [pc EXCEPT ![t] = c] /\ alone' \subseteq Thread
  BY EnterType DEF Find
<1>4. Taken(t) = {} /\ Taken(t)' = {}
  BY <1>2, <1>3, IdleType DEF Find, Taken, Fresh, IInv, TypeOK
<1> HIDE DEF c
<1> QED BY <1>2, <1>3, <1>4, ReadStep DEF Find, Fresh

\* The two outcomes of looking for a run inside a field.
LEMMA InsideControl ==
  ASSUME IInv, NEW t \in Thread, pc[t].at \in {"load", "cas"}, NEW p \in Nat,
         Inside(t, p)
  PROVE  \E c \in Control : /\ Placed(c) /\ pc' = [pc EXCEPT ![t] = c]
                            /\ c.at \in {"idle", "load", "scan", "cas"}
<1> DEFINE c == pc[t]
<1>1. c \in Control /\ c.count > 0 /\ c.left > 0 /\ c.idx \in Field
  BY DEF IInv, TypeOK, Placed, Control
<1>2. CASE pc' = [pc EXCEPT ![t] = InsideFails(@)]
  <2>1. pc' = [pc EXCEPT ![t] = InsideFails(c)]
    BY <1>2
  <2> QED BY <1>1, <2>1, InsideFailsFresh DEF Fresh
<1>3. ASSUME NEW q \in FreeRuns(c.idx, c.count, p),
             pc' = [pc EXCEPT ![t].at = "cas", ![t].start = q,
                              ![t].run = Run(q, c.count)]
      PROVE  \E d \in Control : /\ Placed(d) /\ pc' = [pc EXCEPT ![t] = d]
                                /\ d.at \in {"idle", "load", "scan", "cas"}
  <2> DEFINE d == [c EXCEPT !.at = "cas", !.start = q, !.run = Run(q, c.count)]
  <2>1. c.count \in Nat \ {0} /\ c.idx * Bits \in Nat
    BY <1>1, BitmapAssumption, Times DEF Control, Field
  <2>2. q \in Nat /\ q + c.count <= c.idx * Bits + Bits
    BY <2>1, BitmapAssumption DEF FreeRuns
  <2>3. Run(q, c.count) \in Runs /\ q \in 0..Size
    BY <1>1, <2>1, <2>2, RunInside
  <2>4. d \in Control /\ Placed(d) /\ d.at = "cas"
    BY <1>1, <2>3, RunsAreBits DEF Control, Placed, Label
  <2>5. pc' = [pc EXCEPT ![t] = d]
    BY <1>3
  <2> QED BY <2>4, <2>5
<1> QED BY <1>2, <1>3 DEF Inside

LEMMA LoadStep == ASSUME IInv, NEW t \in Thread, Load(t) PROVE IInv'
<1>1. PICK c \in Control : /\ Placed(c) /\ pc' = [pc EXCEPT ![t] = c]
                           /\ c.at \in {"idle", "load", "scan", "cas"}
  BY InsideControl DEF Load
<1>2. Taken(t) = {} /\ Taken(t)' = {}
  BY <1>1 DEF Load, Taken, IInv, TypeOK
<1> QED BY <1>1, <1>2, ReadStep DEF Load, IInv, TypeOK

LEMMA CasStep == ASSUME IInv, NEW t \in Thread, Cas(t) PROVE IInv'
<1> DEFINE r == pc[t].run
<1>1. CASE r \cap map # {} /\ Inside(t, pc[t].start) /\ UNCHANGED <<map, held, alone>>
  <2>1. pc[t].start \in Nat
    BY DEF IInv, TypeOK, Control
  <2>2. PICK c \in Control : /\ Placed(c) /\ pc' = [pc EXCEPT ![t] = c]
                             /\ c.at \in {"idle", "load", "scan", "cas"}
    BY <1>1, <2>1, InsideControl DEF Cas
  <2>3. Taken(t) = {} /\ Taken(t)' = {}
    BY <2>2 DEF Cas, Taken, IInv, TypeOK
  <2> QED BY <1>1, <2>2, <2>3, ReadStep DEF IInv, TypeOK
<1>2. CASE /\ r \cap map = {} /\ map' = map \cup r /\ alone' = alone
           /\ held' = [held EXCEPT ![t] = @ \cup {r}] /\ pc' = [pc EXCEPT ![t] = Idle]
  <2>1. r \in Runs /\ r \subseteq Bit
    BY RunsAreBits DEF Cas, IInv, Placed
  <2>2. Moves(t)
    BY <1>2 DEF Moves, IInv, TypeOK
  <2>3. Taken(t) = {} /\ Taken(t)' = {} /\ held'[t] = held[t] \cup {r}
    BY <1>2 DEF Cas, Taken, Idle, IInv, TypeOK
  <2>4. \A s \in held[t] : s \cap r = {}
    BY <1>2 DEF IInv, BitsAccounted, Own
  <2>5. Separate(t)'
    BY <2>3, <2>4 DEF Separate, IInv, BitsAccounted
  <2>6. Own(t)' = Own(t) \cup r
    BY <2>3 DEF Own
  <2>7. BitsAccounted'
    BY <1>2, <2>1, <2>2, <2>5, <2>6, Claims
  <2>8. held' \in [Thread -> SUBSET Runs] /\ map' \subseteq Bit
    BY <1>2, <2>1, Held DEF IInv, TypeOK
  <2> QED BY <1>2, <2>7, <2>8, Assemble, IdleFresh DEF Fresh, IInv, TypeOK
<1> QED BY <1>1, <1>2 DEF Cas

\* Where Scan finds a run that may fit, it is one of the bitmap and begins in
\* the field that was read.
LEMMA ScanAhead ==
  ASSUME NEW c \in Control, c.count > 0, c.left > 0, NEW k \in 1..Bits,
         k < c.count, ~(DivideUp(c.count - k, Bits) >= Fields - c.idx)
  PROVE  LET start == c.idx * Bits + Bits - k
             d     == [c EXCEPT !.at = "ahead", !.start = start,
                                !.run = Run(start, c.count), !.f = c.idx + 1]
         IN  d \in Control /\ Placed(d)
<1> DEFINE start == c.idx * Bits + Bits - k
           u     == DivideUp(c.count - k, Bits)
           d     == [c EXCEPT !.at = "ahead", !.start = start,
                              !.run = Run(start, c.count), !.f = c.idx + 1]
<1>1. c.idx \in Field /\ c.idx \in Nat /\ c.count \in Nat /\ Bits \in Nat /\ k \in Nat
      /\ Fields \in Nat /\ k <= Bits
  BY BitmapAssumption DEF Control, Field
<1>2. c.count - k \in Nat \ {0}
  BY <1>1
<1>3. u \in Int /\ u >= 1 /\ u * Bits >= c.count - k
  BY <1>2, RoundedUp
<1>4. c.idx + 1 + u <= Fields
  BY <1>1, <1>3
<1>5. c.idx + 1 \in Field
  BY <1>1, <1>3, <1>4 DEF Field
<1>6. (c.idx + 1 + u) * Bits <= Size
  BY <1>1, <1>3, <1>4, Times DEF Size
<1>7. (c.idx + 1 + u) * Bits = c.idx * Bits + Bits + u * Bits
  <2>1. (c.idx + 1 + u) * Bits = (c.idx + 1) * Bits + u * Bits
    BY <1>1, <1>3, Distributes
  <2> QED BY <1>1, <2>1, NextField
<1>8. c.idx * Bits \in Nat /\ u * Bits \in Int
  BY <1>1, <1>3
<1>9. start \in Nat /\ start + c.count <= Size
  BY <1>1, <1>3, <1>6, <1>7, <1>8, SizeNat
<1>10. Run(start, c.count) \in Runs /\ start \in 0..Size
  BY <1>1, <1>9, RunIn
<1> HIDE DEF start, u
<1>11. Run(start, c.count) \in SUBSET Bit /\ c.idx + 1 \in 0..Fields
  BY <1>1, <1>5, <1>10, RunsAreBits DEF Field
<1>12. d \in Control /\ d.at = "ahead" /\ d.idx = c.idx /\ d.f = c.idx + 1
       /\ d.run = Run(start, c.count) /\ d.count > 0 /\ d.left > 0
  BY <1>10, <1>11 DEF Control, Label
<1>13. Spread(d) /\ \E b \in d.run : b[1] >= c.idx + 1
  BY <1>1, <1>5, <1>12, RunAcross DEF start
<1>14. Placed(d)
  BY <1>1, <1>10, <1>12, <1>13 DEF Placed
<1> QED BY <1>12, <1>14 DEF start

LEMMA ScanStep == ASSUME IInv, NEW t \in Thread, Scan(t) PROVE IInv'
<1> DEFINE c == pc[t]
<1>1. c \in Control /\ c.count > 0 /\ c.left > 0 /\ c.at = "scan"
  BY DEF IInv, TypeOK, Placed, Scan
<1>2. \E d \in Control : /\ Placed(d) /\ pc' = [pc EXCEPT ![t] = d]
                         /\ d.at \in {"idle", "load", "scan", "ahead"}
  <2>1. PICK k \in 0..Bits :
          pc' = [pc EXCEPT ![t] =
            IF k >= c.count THEN [c EXCEPT !.at = "load", !.nested = TRUE]
            ELSE IF k = 0 \/ DivideUp(c.count - k, Bits) >= Fields - c.idx
              THEN Advance(c)
            ELSE [c EXCEPT !.at = "ahead", !.start = c.idx * Bits + Bits - k,
                           !.run = Run(c.idx * Bits + Bits - k, c.count),
                           !.f = c.idx + 1]]
    BY DEF Scan
  <2>2. CASE k >= c.count
    <3> DEFINE d == [c EXCEPT !.at = "load", !.nested = TRUE]
    <3>1. d \in Control /\ d.at = "load" /\ Placed(d)
      BY <1>1 DEF Control, Label, Placed
    <3> QED BY <2>1, <2>2, <3>1
  <2>3. CASE ~(k >= c.count) /\ (k = 0 \/ DivideUp(c.count - k, Bits) >= Fields - c.idx)
    <3>1. Fresh(Advance(c)) /\ pc' = [pc EXCEPT ![t] = Advance(c)]
      BY <1>1, <2>1, <2>3, AdvanceFresh
    <3> QED BY <3>1 DEF Fresh
  <2>4. CASE ~(k >= c.count) /\ ~(k = 0 \/ DivideUp(c.count - k, Bits) >= Fields - c.idx)
    <3> DEFINE start == c.idx * Bits + Bits - k
               d == [c EXCEPT !.at = "ahead", !.start = start,
                              !.run = Run(start, c.count), !.f = c.idx + 1]
    <3>1. k \in 1..Bits /\ k < c.count
      BY <1>1, <2>4, BitmapAssumption DEF Control
    <3>2. d \in Control /\ Placed(d)
      BY <1>1, <2>4, <3>1, ScanAhead
    <3>3. d.at = "ahead" /\ pc' = [pc EXCEPT ![t] = d]
      BY <1>1, <2>1, <2>4 DEF Control
    <3> HIDE DEF d
    <3> QED BY <3>2, <3>3
  <2> QED BY <2>2, <2>3, <2>4
<1>3. PICK d \in Control : /\ Placed(d) /\ pc' = [pc EXCEPT ![t] = d]
                           /\ d.at \in {"idle", "load", "scan", "ahead"}
  BY <1>2
<1>4. Taken(t) = {} /\ Taken(t)' = {}
  BY <1>1, <1>3 DEF Taken, IInv, TypeOK
<1> QED BY <1>3, <1>4, ReadStep DEF Scan, IInv, TypeOK

LEMMA AheadStep == ASSUME IInv, NEW t \in Thread, Ahead(t) PROVE IInv'
<1> DEFINE c == pc[t]
           f == pc[t].f
<1>1. /\ c \in Control /\ c.count > 0 /\ c.left > 0 /\ c.at = "ahead" /\ c.run \in Runs
      /\ f > c.idx /\ Spread(c) /\ c.run \subseteq Bit /\ f \in 0..Fields /\ c.idx \in Field
      /\ \E b \in c.run : b[1] >= f
  BY DEF IInv, TypeOK, Placed, Ahead, Control
<1>2. \E d \in Control : /\ Placed(d) /\ pc' = [pc EXCEPT ![t] = d]
                         /\ d.at \in {"idle", "load", "scan", "ahead", "take"}
                         /\ d.at = "take" => \A b \in d.run : b[1] >= d.f
  <2>1. CASE Part(t, f) \cap map # {}
    <3>1. Fresh(Advance(c)) /\ pc' = [pc EXCEPT ![t] = Advance(c)]
      BY <1>1, <2>1, AdvanceFresh DEF Ahead
    <3> QED BY <3>1 DEF Fresh
  <2>2. CASE Part(t, f) \cap map = {} /\ LastField(t, f)
    <3> DEFINE d == [c EXCEPT !.at = "take", !.f = c.idx]
    <3>1. d \in Control /\ d.at = "take" /\ d.f = d.idx /\ d.run = c.run /\ d.idx = c.idx
      <4>1. c.idx \in 0..Fields
        BY <1>1, SizeNat DEF Field
      <4> QED BY <1>1, <4>1 DEF Control, Label
    <3>2. Spread(d) /\ (\A b \in d.run : b[1] >= d.f) /\ \E b \in d.run : b[1] >= d.f
      BY <1>1, <3>1, InBit DEF Spread, Field
    <3>3. Placed(d)
      BY <1>1, <3>1, <3>2, SizeNat DEF Placed, Control, Field
    <3>4. pc' = [pc EXCEPT ![t] = d]
      BY <2>2 DEF Ahead
    <3> QED BY <3>1, <3>2, <3>3, <3>4
  <2>3. CASE Part(t, f) \cap map = {} /\ ~LastField(t, f)
    <3> DEFINE d == [c EXCEPT !.f = f + 1]
    <3>1. PICK last \in c.run : last[1] > f /\ last[1] \in Field
      BY <1>1, <2>3, InBit DEF LastField, Field
    <3>2. d \in Control /\ d.at = "ahead" /\ d.f = f + 1 /\ d.run = c.run /\ d.idx = c.idx
      BY <1>1, <3>1, SizeNat DEF Control, Field
    <3>3. Placed(d)
      BY <1>1, <3>1, <3>2 DEF Placed, Spread, Field, Control
    <3>4. pc' = [pc EXCEPT ![t] = d]
      BY <2>3 DEF Ahead
    <3> QED BY <3>2, <3>3, <3>4
  <2> QED BY <2>1, <2>2, <2>3
<1>3. PICK d \in Control : /\ Placed(d) /\ pc' = [pc EXCEPT ![t] = d]
                           /\ d.at \in {"idle", "load", "scan", "ahead", "take"}
                           /\ d.at = "take" => \A b \in d.run : b[1] >= d.f
  BY <1>2
<1>4. Taken(t) = {}
  BY <1>1 DEF Taken
<1>5. Taken(t)' = {}
  <2>1. pc'[t] = d /\ d.run \subseteq Bit /\ d.f \in Int
    BY <1>3 DEF IInv, TypeOK, Control
  <2> QED BY <1>3, <2>1, InBit DEF Taken, Field
<1> QED BY <1>3, <1>4, <1>5, ReadStep DEF Ahead, IInv, TypeOK

LEMMA TakeStep == ASSUME IInv, NEW t \in Thread, Take(t) PROVE IInv'
<1> DEFINE c == pc[t]
           f == pc[t].f
           new == Part(t, f)
<1>1. /\ c \in Control /\ c.count > 0 /\ c.left > 0 /\ c.at = "take" /\ c.run \in Runs
      /\ f >= c.idx /\ Spread(c) /\ c.run \subseteq Bit /\ f \in 0..Fields
      /\ c.idx \in Field /\ \E b \in c.run : b[1] >= f
  BY DEF IInv, TypeOK, Placed, Take, Control
<1>2. Taken(t) = {b \in c.run : b[1] < f} /\ \A b \in c.run : b[1] \in Field
  BY <1>1, InBit DEF Taken
<1>3. alone' = alone /\ Moves(t)
  BY DEF Take, Moves, IInv, TypeOK
<1>4. CASE new \cap map = {} /\ LastField(t, f)
  <2>1. /\ map' = map \cup new /\ held' = [held EXCEPT ![t] = @ \cup {c.run}]
        /\ pc' = [pc EXCEPT ![t] = Idle]
    BY <1>4 DEF Take
  <2>2. Taken(t)' = {} /\ held'[t] = held[t] \cup {c.run}
    BY <2>1, IdleType DEF Taken, IInv, TypeOK
  <2>3. c.run = Taken(t) \cup new
    BY <1>1, <1>2, <1>4 DEF LastField, Part, Field
  <2>4. \A s \in held[t] : s \cap c.run = {}
    BY <1>4, <2>3 DEF IInv, BitsAccounted, Own
  <2>5. Separate(t)'
    BY <2>2, <2>4 DEF Separate, IInv, BitsAccounted
  <2>6. Own(t)' = Own(t) \cup new /\ new \in SUBSET Bit
    BY <1>1, <2>2, <2>3 DEF Own
  <2>7. BitsAccounted'
    BY <1>3, <1>4, <2>1, <2>5, <2>6, Claims
  <2>8. held' \in [Thread -> SUBSET Runs] /\ map' \subseteq Bit
    BY <1>1, <2>1, <2>6, Held DEF IInv, TypeOK
  <2> QED BY <1>3, <2>1, <2>7, <2>8, Assemble, IdleFresh DEF Fresh, IInv, TypeOK
<1>5. CASE new \cap map = {} /\ ~LastField(t, f)
  <2> DEFINE d == [c EXCEPT !.f = f + 1]
  <2>1. /\ map' = map \cup new /\ held' = held /\ pc' = [pc EXCEPT ![t] = d]
    BY <1>5 DEF Take
  <2>2. PICK last \in c.run : last[1] > f
    BY <1>1, <1>2, <1>5 DEF LastField, Field
  <2>3. f + 1 \in 0..Fields
    BY <1>1, <1>2, <2>2, SizeNat DEF Field
  <2>4. d \in Control /\ d.at = "take" /\ d.f = f + 1 /\ d.run = c.run /\ d.idx = c.idx
        /\ d.count > 0 /\ d.left > 0
    BY <1>1, <2>3 DEF Control
  <2>5. Placed(d)
    BY <1>1, <1>2, <2>2, <2>4 DEF Placed, Spread, Field, Control
  <2>6. Taken(t)' = {b \in c.run : b[1] < f + 1}
    BY <2>1, <2>4, <1>2 DEF Taken, IInv, TypeOK, Field
  <2>7. Taken(t)' = Taken(t) \cup new
    BY <1>1, <1>2, <2>6 DEF Part, Field
  <2>8. Own(t)' = Own(t) \cup new /\ new \in SUBSET Bit
    BY <1>1, <2>1, <2>7 DEF Own, Part
  <2>9. Separate(t)'
    <3>1. \A r \in held[t] : r \cap new = {}
      BY <1>5 DEF IInv, BitsAccounted, Own
    <3> QED BY <2>1, <2>7, <3>1 DEF Separate, IInv, BitsAccounted
  <2>10. BitsAccounted'
    BY <1>3, <1>5, <2>1, <2>8, <2>9, Claims
  <2> HIDE DEF d
  <2> QED BY <1>3, <2>1, <2>4, <2>5, <2>8, <2>10, Assemble, Held DEF IInv, TypeOK
<1>6. CASE new \cap map # {} /\ f = c.idx
  <2>1. pc' = [pc EXCEPT ![t] = Retry(c)] /\ Fresh(Retry(c)) /\ UNCHANGED <<map, held>>
    BY <1>1, <1>6, RetryFresh DEF Take
  <2>2. Taken(t) = {}
    BY <1>1, <1>2, <1>6 DEF Spread, Field
  <2>3. Taken(t)' = {}
    BY <2>1 DEF Taken, Fresh, IInv, TypeOK
  <2> QED BY <1>3, <2>1, <2>2, <2>3, ReadStep DEF Fresh, IInv, TypeOK
<1>7. CASE new \cap map # {} /\ f # c.idx
  <2> DEFINE d == [c EXCEPT !.at = "back", !.f = f - 1]
  <2>1. pc' = [pc EXCEPT ![t] = d] /\ UNCHANGED <<map, held>>
    BY <1>1, <1>7 DEF Take
  <2>2. PICK here \in c.run : here[1] = f
    BY <1>7 DEF Part
  <2>3. f - 1 \in 0..Fields /\ f - 1 >= c.idx
    BY <1>1, <1>7, SizeNat DEF Field
  <2>4. d \in Control /\ d.at = "back" /\ d.f = f - 1 /\ d.run = c.run /\ d.idx = c.idx
        /\ d.count > 0 /\ d.left > 0
    BY <1>1, <2>3 DEF Control, Label
  <2>5. Placed(d)
    BY <1>1, <2>2, <2>3, <2>4 DEF Placed, Spread, Field, Control
  <2>6. Taken(t)' = {x \in c.run : x[1] <= f - 1}
    BY <2>1, <2>4 DEF Taken, IInv, TypeOK
  <2>7. Taken(t)' = Taken(t)
    BY <1>1, <1>2, <2>6 DEF Field
  <2>8. Own(t)' = Own(t) \cup {}
    BY <2>1, <2>7 DEF Own
  <2>9. Separate(t)'
    BY <2>1, <2>7 DEF Separate, IInv, BitsAccounted
  <2>10. map' = map \cup {} /\ {} \cap map = {} /\ {} \in SUBSET Bit
    BY <2>1
  <2>11. BitsAccounted'
    BY <1>3, <2>8, <2>9, <2>10, Claims
  <2> HIDE DEF d
  <2> QED BY <1>3, <2>1, <2>4, <2>5, <2>11, Assemble, Held DEF IInv, TypeOK
<1> QED BY <1>4, <1>5, <1>6, <1>7 DEF Take

\* What Back clears is t's own.
LEMMA BackOwns == ASSUME IInv, NEW t \in Thread, pc[t].at = "back"
  PROVE (IF pc[t].f > pc[t].idx THEN FieldBits(pc[t].f) ELSE Part(t, pc[t].f))
          = {b \in Taken(t) : b[1] = pc[t].f}
<1> DEFINE c == pc[t]
           f == pc[t].f
<1>1. /\ c.run \subseteq Bit /\ f \in 0..Fields /\ c.idx \in Field /\ Spread(c)
      /\ f >= c.idx /\ \E b \in c.run : b[1] > f
  BY DEF IInv, TypeOK, Placed, Control
<1>2. f \in Field
  BY <1>1, InBit, SizeNat DEF Field
<1>3. {b \in Taken(t) : b[1] = f} = Part(t, f)
  BY <1>1 DEF Taken, Part
<1>4. CASE f > c.idx
  <2>1. FieldBits(f) \subseteq c.run
    BY <1>1, <1>2, <1>4 DEF Spread
  <2>2. FieldBits(f) = Part(t, f)
    <3>1. \A b \in c.run : b[1] = f => b \in FieldBits(f)
      BY <1>1, InBit DEF FieldBits
    <3> QED BY <1>2, <2>1, <3>1, InField DEF Part
  <2> QED BY <1>3, <1>4, <2>2
<1> QED BY <1>3, <1>4

LEMMA BackStep == ASSUME IInv, NEW t \in Thread, Back(t) PROVE IInv'
<1> DEFINE c == pc[t]
           f == pc[t].f
           gone == {b \in Taken(t) : b[1] = f}
<1>1. /\ c \in Control /\ c.count > 0 /\ c.left > 0 /\ c.at = "back" /\ c.run \in Runs
      /\ f >= c.idx /\ Spread(c) /\ c.run \subseteq Bit /\ f \in 0..Fields
      /\ c.idx \in Field /\ \E b \in c.run : b[1] > f
  BY DEF IInv, TypeOK, Placed, Back, Control
<1>2. Taken(t) = {b \in c.run : b[1] <= f} /\ \A b \in c.run : b[1] \in Field
  BY <1>1, InBit DEF Taken
<1>3. map' = map \ gone /\ held' = held /\ alone' = alone /\ Moves(t)
  BY <1>1, BackOwns DEF Back, Moves, IInv, TypeOK
<1>4. gone \in SUBSET Own(t) /\ \A r \in held[t] : r \cap Taken(t) = {}
  BY DEF Own, IInv, BitsAccounted
<1>5. ASSUME Taken(t)' = Taken(t) \ gone PROVE BitsAccounted'
  <2>1. Own(t)' = Own(t) \ gone
    BY <1>3, <1>4, <1>5 DEF Own
  <2>2. Separate(t)'
    BY <1>3, <1>4, <1>5 DEF Separate, IInv, BitsAccounted
  <2> QED BY <1>3, <1>4, <2>1, <2>2, Clears
<1>6. CASE f > c.idx
  <2> DEFINE d == [c EXCEPT !.f = f - 1]
  <2>0. pc' = [pc EXCEPT ![t] = d]
    BY <1>6 DEF Back
  <2> HIDE DEF d
  <2>1. pc' = [pc EXCEPT ![t] = d] /\ f - 1 \in 0..Fields
    BY <1>1, <1>6, <2>0, SizeNat DEF Field
  <2> USE DEF d
  <2>2. d \in Control /\ d.at = "back" /\ d.f = f - 1 /\ d.run = c.run /\ d.idx = c.idx
        /\ d.count > 0 /\ d.left > 0
    BY <1>1, <2>1 DEF Control
  <2>3. Placed(d)
    BY <1>1, <1>2, <1>6, <2>2 DEF Placed, Spread, Field, Control
  <2>4. Taken(t)' = {b \in c.run : b[1] <= f - 1}
    BY <2>1, <2>2 DEF Taken, IInv, TypeOK
  <2>5. Taken(t)' = Taken(t) \ gone
    BY <1>1, <1>2, <2>4 DEF Field
  <2>6. BitsAccounted'
    BY <1>5, <2>5
  <2> HIDE DEF d
  <2> QED BY <1>3, <2>1, <2>2, <2>3, <2>6, Assemble, Held DEF IInv, TypeOK
<1>7. CASE ~(f > c.idx)
  <2>1. pc' = [pc EXCEPT ![t] = Retry(c)] /\ Fresh(Retry(c))
    BY <1>1, <1>7, RetryFresh DEF Back
  <2>2. Taken(t)' = {}
    BY <2>1 DEF Taken, Fresh, IInv, TypeOK
  <2>3. gone = Taken(t)
    BY <1>1, <1>2, <1>7 DEF Spread, Field
  <2>4. BitsAccounted'
    BY <1>5, <2>2, <2>3
  <2> QED BY <1>3, <2>1, <2>4, Assemble, Held DEF Fresh, IInv, TypeOK
<1> QED BY <1>6, <1>7

LEMMA TryClaimStep == ASSUME IInv, NEW t \in Thread, NEW p \in 0..(Size - 1),
                             NEW n \in 1..Bits, TryClaim(t, p, n)
                      PROVE  IInv'
<1> DEFINE new == Run(p, n)
<1>1. new \in Runs
  <2> DEFINE i == p \div Bits
  <2>1. p \in Nat /\ n \in Nat \ {0} /\ Bits \in Nat \ {0}
    BY BitmapAssumption DEF Size
  <2>2. p = Bits * i + (p % Bits) /\ i \in Int /\ p % Bits \in 0..(Bits - 1)
    BY <2>1, Rest
  <2>3. i * Bits = Bits * i /\ (p % Bits) + n <= Bits
    BY <2>1, <2>2 DEF TryClaim
  <2> HIDE DEF i
  <2>4. i * Bits \in Int /\ p + n <= i * Bits + Bits
    BY <2>1, <2>2, <2>3
  <2>5. i \in Field
    <3>1. ASSUME i >= Fields PROVE FALSE
      <4>1. Fields * Bits <= i * Bits
        BY <2>1, <2>2, <3>1, Times, SizeNat
      <4> QED BY <2>1, <2>2, <2>3, <2>4, <4>1, SizeNat DEF Size
    <3>2. ASSUME i <= -1 PROVE FALSE
      <4>1. i * Bits <= (-1) * Bits
        BY <2>1, <2>2, <3>2, Times
      <4> QED BY <2>1, <2>2, <2>3, <2>4, <4>1
    <3> QED BY <2>2, <3>1, <3>2, SizeNat DEF Field
  <2> QED BY <2>1, <2>4, <2>5, RunInside
<1>2. /\ new \subseteq Bit /\ new \cap map = {} /\ map' = map \cup new /\ pc' = pc
      /\ held' = [held EXCEPT ![t] = @ \cup {new}] /\ alone' \subseteq Thread
  BY <1>1, RunsAreBits, EnterType DEF TryClaim
<1> HIDE DEF new
<1>3. Moves(t) /\ held'[t] = held[t] \cup {new}
  BY <1>2 DEF Moves, IInv, TypeOK
<1>4. Taken(t)' = Taken(t)
  BY <1>2 DEF Taken
<1>5. \A s \in held[t] : s \cap new = {}
  BY <1>2 DEF IInv, BitsAccounted, Own
<1>6. Taken(t) \cap new = {}
  BY <1>2 DEF IInv, BitsAccounted, Own
<1>7. Separate(t)'
  BY <1>3, <1>4, <1>5, <1>6 DEF Separate, IInv, BitsAccounted
<1>8. Own(t)' = Own(t) \cup new
  BY <1>3, <1>4 DEF Own
<1>9. BitsAccounted'
  BY <1>2, <1>3, <1>7, <1>8, Claims
<1>10. held' \in [Thread -> SUBSET Runs] /\ map' \subseteq Bit
  BY <1>1, <1>2, Held DEF IInv, TypeOK
<1>11. pc[t] \in Control /\ Placed(pc[t]) /\ pc' = [pc EXCEPT ![t] = pc[t]]
  BY <1>2 DEF IInv, TypeOK
<1> QED BY <1>2, <1>9, <1>10, <1>11, Assemble

\* What a thread still has of run r after it cleared field f.
LEMMA Clearing ==
  ASSUME IInv, NEW t \in Thread, NEW r \in SUBSET Bit, NEW f \in Field,
         NEW rest \in SUBSET SUBSET Bit, held' = [held EXCEPT ![t] = rest],
         rest \subseteq held[t], Own(t) = (UNION rest) \cup {b \in r : b[1] >= f},
         \A s \in rest : s \cap {b \in r : b[1] >= f} = {},
         ClearField(t, r, f), alone' \subseteq Thread
  PROVE  IInv'
<1> DEFINE gone == {b \in r : b[1] = f}
           more == \E b \in r : b[1] > f
           d    == [Idle EXCEPT !.at = "unclaim", !.run = r, !.f = f + 1]
<1>1. map' = map \ gone /\ pc' = [pc EXCEPT ![t] = IF more THEN d ELSE Idle]
  BY DEF ClearField
<1>2. \A b \in r : b[1] \in Field
  BY InBit
<1>3. f \in Int /\ (more => f + 1 \in 0..Fields)
  BY <1>2, SizeNat DEF Field
<1>4. more => d \in Control /\ d.at = "unclaim" /\ d.run = r /\ d.f = f + 1
  <2>1. r \in SUBSET Bit
    OBVIOUS
  <2> QED BY <1>3, <2>1, IdleType DEF Control, Label
<1>5. more => Placed(d)
  BY <1>2, <1>3, <1>4 DEF Placed, Field
<1>6. Taken(t)' = {b \in r : b[1] >= f + 1}
  <2>1. CASE more
    BY <1>1, <1>4, <2>1 DEF Taken, IInv, TypeOK
  <2>2. CASE ~more
    <3>1. pc'[t] = Idle
      BY <1>1, <2>2 DEF IInv, TypeOK
    <3>2. Taken(t)' = {}
      BY <3>1, IdleType DEF Taken
    <3> QED BY <1>2, <1>3, <2>2, <3>2 DEF Field
  <2> QED BY <2>1, <2>2
<1> HIDE DEF d
<1>7. Moves(t) /\ held'[t] = rest
  BY <1>1 DEF Moves, IInv, TypeOK
<1>8. {b \in r : b[1] >= f + 1} = {b \in r : b[1] >= f} \ gone
  BY <1>2, <1>3 DEF Field
<1> DEFINE part == {b \in r : b[1] >= f}
<1>9. gone \subseteq part /\ (UNION rest) \cap gone = {}
  <2>1. gone \subseteq part
    BY <1>2, <1>3 DEF Field
  <2>2. \A s \in rest : s \cap part = {}
    OBVIOUS
  <2> HIDE DEF gone, part
  <2> QED BY <2>1, <2>2
<1>10. Own(t)' = Own(t) \ gone /\ gone \in SUBSET Own(t)
  <2>1. Own(t)' = (part \ gone) \cup UNION rest
    BY <1>6, <1>7, <1>8 DEF Own
  <2>2. Own(t) = (UNION rest) \cup part
    OBVIOUS
  <2> HIDE DEF gone, part
  <2> QED BY <1>9, <2>1, <2>2
<1>12. Separate(t)'
  <2>1. \A s \in rest : s \cap Taken(t)' = {}
    BY <1>6, <1>8
  <2>2. \A s, u \in held[t] : s # u => s \cap u = {}
    BY DEF IInv, BitsAccounted
  <2> QED BY <1>7, <2>1, <2>2 DEF Separate
<1>13. BitsAccounted'
  BY <1>1, <1>7, <1>10, <1>12, Clears
<1>14. held' \in [Thread -> SUBSET Runs] /\ map' \subseteq Bit
  BY <1>1, Held DEF IInv, TypeOK
<1>15. CASE more
  BY <1>1, <1>4, <1>5, <1>13, <1>14, <1>15, Assemble
<1>16. CASE ~more
  BY <1>1, <1>13, <1>14, <1>16, IdleFresh, Assemble DEF Fresh
<1> QED BY <1>15, <1>16

LEMMA UnclaimStep == ASSUME IInv, NEW t \in Thread, NEW r \in held[t], Unclaim(t, r)
                     PROVE  IInv'
<1> DEFINE rest == held[t] \ {r}
<1>1. PICK f \in Field : (\A b \in r : b[1] >= f) /\ ClearField(t, r, f)
  BY DEF Unclaim
<1>2. r \subseteq Bit /\ rest \in SUBSET SUBSET Bit /\ rest \subseteq held[t]
  BY DEF IInv, TypeOK
<1>3. held' = [held EXCEPT ![t] = rest] /\ alone' \subseteq Thread
  BY EnterType DEF Unclaim
<1>4. {b \in r : b[1] >= f} = r
  BY <1>1
<1>5. Taken(t) = {}
  BY IdleType DEF Unclaim, Taken
<1>6. \A s \in rest : s \cap r = {}
  BY DEF IInv, BitsAccounted
<1>7. Own(t) = (UNION rest) \cup r
  <2>1. Own(t) = UNION held[t]
    BY <1>5 DEF Own
  <2>2. UNION held[t] \subseteq (UNION rest) \cup r
    OBVIOUS
  <2>3. UNION rest \subseteq UNION held[t] /\ r \subseteq UNION held[t]
    OBVIOUS
  <2> QED BY <2>1, <2>2, <2>3
<1> HIDE DEF rest
<1> QED BY <1>1, <1>2, <1>3, <1>4, <1>6, <1>7, Clearing

LEMMA UnclaimNextStep == ASSUME IInv, NEW t \in Thread, UnclaimNext(t) PROVE IInv'
<1> DEFINE r == pc[t].run
           f == pc[t].f
<1>1. r \in SUBSET Bit /\ f \in 0..Fields /\ pc[t].at = "unclaim"
      /\ \E b \in r : b[1] >= f
  BY DEF IInv, TypeOK, Placed, Control, UnclaimNext
<1>2. f \in Field
  BY <1>1, InBit, SizeNat DEF Field
<1>3. Taken(t) = {b \in r : b[1] >= f}
  BY <1>1 DEF Taken
<1>4. held' = [held EXCEPT ![t] = held[t]] /\ held[t] \in SUBSET SUBSET Bit
  BY DEF UnclaimNext, IInv, TypeOK
<1>5. ClearField(t, r, f) /\ alone' \subseteq Thread
  BY DEF UnclaimNext, IInv, TypeOK
<1>6. \A s \in held[t] : s \cap {b \in r : b[1] >= f} = {}
  BY <1>3 DEF IInv, BitsAccounted
<1> DEFINE part == {b \in r : b[1] >= f}
<1>7. Own(t) = (UNION held[t]) \cup part
  <2>1. Own(t) = part \cup UNION held[t]
    BY <1>3 DEF Own
  <2> HIDE DEF part
  <2> QED BY <2>1
<1>8. held[t] \subseteq held[t]
  OBVIOUS
<1> HIDE DEF r, f
<1> QED BY <1>1, <1>2, <1>4, <1>5, <1>6, <1>7, <1>8, Clearing

-----------------------------------------------------------------------------
(* The theorems.                                                           *)

LEMMA StepInv == ASSUME IInv, NEW t \in Thread, Step(t) PROVE IInv'
  BY FindStep, LoadStep, CasStep, ScanStep, AheadStep, TakeStep, BackStep,
     TryClaimStep, UnclaimStep, UnclaimNextStep DEF Step

LEMMA StutterInv == IInv /\ UNCHANGED vars => IInv'
  BY DEF vars, IInv, TypeOK, BitsAccounted, Own, Taken, Placed, Spread

\* The inductive invariant holds in every reachable state of a bitmap of any
\* size under any number of threads.
THEOREM Invariance == Spec => []IInv
<1>1. IInv /\ [Next]_vars => IInv'
  BY StepInv, StutterInv DEF Next
<1> QED BY InitInv, <1>1, PTL DEF Spec

\* Every bit that is 1 belongs to one thread's one claim (or lies behind the
\* last block): failed claims across fields leave nothing behind.
THEOREM AllBitsAccounted == Spec => []BitsAccounted
<1>1. IInv => BitsAccounted
  BY DEF IInv
<1> QED BY Invariance, <1>1, PTL

\* The variables keep their types: no run and no field leaves the bitmap.
THEOREM TypeCorrect == Spec => []TypeOK
<1>1. IInv => TypeOK
  BY DEF IInv
<1> QED BY Invariance, <1>1, PTL

\* The assertions of the rollback hold, and who gives up a run finds it claimed.
THEOREM AssertionsAlwaysHold == Spec => []AssertionsHold
<1>1. IInv => AssertionsHold
  <2> SUFFICES ASSUME IInv, NEW t \in Thread
               PROVE  /\ pc[t].at \in {"ahead", "take"} => pc[t].f \in Field
                      /\ pc[t].at = "back" =>
                          (IF pc[t].f > pc[t].idx THEN FieldBits(pc[t].f)
                           ELSE Part(t, pc[t].f)) \subseteq map
                      /\ pc[t].at = "unclaim" => Taken(t) \subseteq map
                      /\ \A r \in held[t] : r \subseteq map
    BY DEF AssertionsHold
  <2>1. Own(t) \subseteq map /\ Taken(t) \subseteq Own(t) /\ \A r \in held[t] : r \subseteq Own(t)
    BY DEF IInv, BitsAccounted, Own
  <2>2. pc[t].at \in {"ahead", "take"} => pc[t].f \in Field
    <3>1. pc[t].run \subseteq Bit /\ pc[t].f \in 0..Fields
      BY DEF IInv, TypeOK, Control
    <3>2. pc[t].at \in {"ahead", "take"} => \E b \in pc[t].run : b[1] >= pc[t].f
      BY DEF IInv, Placed
    <3> QED BY <3>1, <3>2, InBit, SizeNat DEF Field
  <2> QED BY <2>1, <2>2, BackOwns
<1> QED BY Invariance, <1>1, PTL

\* A thread that gets a run gets one of blocks that nobody holds, and keeps it
\* until it gives it up: the bitmap implements BitPool.
THEOREM PoolRefinement == Spec => ImplementsPool
<1> DEFINE Range == {r \in Runs : r \cap LeftOver = {}}
           Claimed == UNION {UNION held[t] : t \in Thread}
<1>1. Init => Pool!Init
  BY DEF Init, Pool!Init
<1>2. ASSUME IInv, NEW t \in Thread, NEW r \in Runs, r \cap LeftOver = {},
             r \cap Claimed = {}, held' = [held EXCEPT ![t] = @ \cup {r}]
      PROVE  [Pool!Next]_held
  <2>1. CASE r \in held[t]
    BY <1>2, <2>1 DEF IInv, TypeOK
  <2>2. CASE r \notin held[t]
    <3>1. r \in held'[t] \ held[t]
      BY <1>2, <2>2 DEF IInv, TypeOK
    <3> QED BY <1>2, <3>1 DEF Pool!Next, Pool!Claim, Pool!Claimed
  <2> QED BY <2>1, <2>2
<1>3. ASSUME IInv PROVE LeftOver \subseteq map /\ Claimed \subseteq map
  BY <1>3 DEF BitsAccounted, IInv, Own
<1>4. ASSUME IInv, NEW t \in Thread, Step(t) PROVE [Pool!Next]_held
  <2>1. ASSUME NEW n \in Counts, NEW i \in Starts, Find(t, n, i) PROVE held' = held
    BY <2>1 DEF Find
  <2>2. ASSUME Load(t) \/ Scan(t) \/ Ahead(t) \/ Back(t) \/ UnclaimNext(t)
        PROVE  held' = held
    BY <2>2 DEF Load, Scan, Ahead, Back, UnclaimNext
  <2>3. CASE Cas(t)
    <3>1. pc[t].run \in Runs
      BY <1>4, <2>3 DEF Cas, IInv, Placed
    <3> QED BY <1>2, <1>3, <1>4, <2>3, <3>1 DEF Cas
  <2>4. CASE Take(t)
    <3>1. CASE held' = held
      BY <3>1
    <3>2. CASE held' # held
      <4>1. /\ Part(t, pc[t].f) \cap map = {} /\ LastField(t, pc[t].f)
            /\ held' = [held EXCEPT ![t] = @ \cup {pc[t].run}]
            /\ pc[t].at = "take"
        BY <2>4, <3>2 DEF Take
      <4>2. /\ pc[t].run \in Runs /\ pc[t].run \subseteq Bit /\ pc[t].f \in Int
        BY <1>4, <4>1 DEF IInv, TypeOK, Placed, Control
      <4>3. pc[t].run = Taken(t) \cup Part(t, pc[t].f)
        BY <4>1, <4>2, InBit DEF LastField, Part, Taken, Field
      <4>4. Taken(t) \cap LeftOver = {} /\ Taken(t) \cap Claimed = {}
        BY <1>4 DEF IInv, BitsAccounted, Own
      <4>5. pc[t].run \cap LeftOver = {} /\ pc[t].run \cap Claimed = {}
        <5>1. Part(t, pc[t].f) \cap LeftOver = {} /\ Part(t, pc[t].f) \cap Claimed = {}
          BY <1>3, <1>4, <4>1
        <5> HIDE DEF Claimed
        <5> QED BY <4>3, <4>4, <5>1
      <4> QED BY <1>2, <1>4, <4>1, <4>2, <4>5
    <3> QED BY <3>1, <3>2
  <2>5. ASSUME NEW p \in 0..(Size - 1), NEW n \in 1..Bits, TryClaim(t, p, n)
        PROVE  [Pool!Next]_held
    <3>1. IInv'
      BY <1>4, <2>5, TryClaimStep
    <3>2. Run(p, n) \in Runs
      BY <2>5, <3>1 DEF IInv, TypeOK, TryClaim
    <3> QED BY <1>2, <1>3, <1>4, <2>5, <3>2 DEF TryClaim
  <2>6. ASSUME NEW r \in held[t], Unclaim(t, r) PROVE Pool!Next
    <3>1. held' = [held EXCEPT ![t] = @ \ {r}]
      BY <2>6 DEF Unclaim
    <3>2. r \in held[t] \ held'[t]
      BY <1>4, <2>6, <3>1 DEF IInv, TypeOK
    <3> QED BY <3>1, <3>2 DEF Pool!Next, Pool!Release
  <2> QED BY <1>4, <2>1, <2>2, <2>3, <2>4, <2>5, <2>6 DEF Step
<1>5. IInv /\ [Next]_vars => [Pool!Next]_held
  BY <1>4 DEF Next, vars
<1> QED BY <1>1, <1>5, Invariance, PTL DEF Spec, ImplementsPool, Pool!Spec
-----------------------------------------------------------------------------
(* A search that nobody disturbs misses no run.                            *)

\* Every index is that of one bit.
LEMMA BitAt == ASSUME NEW x \in 0..(Size - 1)
               PROVE  \E b \in Bit : Index(b) = x
<1> DEFINE i == x \div Bits
           b == <<i, x % Bits>>
<1>1. x = Bits * i + (x % Bits) /\ x % Bits \in 0..(Bits - 1) /\ i \in Int
  BY Rest, SizeNat
<1>2. i * Bits = Bits * i /\ i * Bits \in Int /\ Bits \in Nat /\ Bits > 0
  BY <1>1, BitmapAssumption
<1>3. i >= 0
  <2> SUFFICES ASSUME i <= -1 PROVE FALSE
    BY <1>1
  <2>1. i * Bits <= (-1) * Bits
    BY <1>1, <1>2, Times
  <2> QED BY <1>1, <1>2, <2>1, SizeNat
<1>4. i < Fields
  <2> SUFFICES ASSUME Fields <= i PROVE FALSE
    BY <1>1, SizeNat
  <2>1. Fields * Bits <= i * Bits
    BY <1>1, <1>2, Times, SizeNat
  <2> QED BY <1>1, <1>2, <2>1, SizeNat DEF Size
<1> HIDE DEF i
<1>5. b \in Bit
  BY <1>1, <1>3, <1>4, SizeNat DEF Bit, Field
<1>6. Index(b) = x
  BY <1>1, <1>2 DEF Index
<1> QED BY <1>5, <1>6

\* A run that begins in field j, and the bit that it begins with.
Begins(p, j) == j * Bits <= p /\ p < j * Bits + Bits

LEMMA FirstBit ==
  ASSUME NEW n \in Nat \ {0}, NEW p \in 0..(Size - n)
  PROVE  \E b \in Run(p, n) : b[1] \in Field /\ Index(b) = p /\ Begins(p, b[1])
<1>1. p \in 0..(Size - 1) /\ p \in Int
  BY SizeNat
<1>2. PICK b \in Bit : Index(b) = p
  BY <1>1, BitAt
<1> QED BY <1>1, <1>2, InBit DEF Run, Begins

\* A bit of field j is between the indices that begin there.
LEMMA Between == ASSUME NEW j \in Field, NEW b \in Bit, Begins(Index(b), j)
                 PROVE  b[1] = j
<1>1. j \in Int /\ b[1] \in Int /\ Index(b) \in Int /\ Bits \in Nat
  BY InBit, BitmapAssumption DEF Field
<1>2. j <= b[1]
  BY <1>1, FieldFrom DEF Begins
<1>3. CASE j + 1 <= b[1]
  <2>1. (j + 1) * Bits <= b[1] * Bits /\ (j + 1) * Bits = j * Bits + Bits
    BY <1>1, <1>3, Times, NextField
  <2>2. j * Bits \in Int /\ b[1] * Bits \in Int
    BY <1>1
  <2> QED BY <1>1, <2>1, <2>2, InBit DEF Begins
<1> QED BY <1>1, <1>2, <1>3

\* A short run that can be found lies in the field where it begins.
LEMMA ShortInside ==
  ASSUME NEW n \in 1..2, NEW p \in 0..(Size - n), NEW j \in Field, Begins(p, j),
         Findable(p, n)
  PROVE  p + n <= j * Bits + Bits
<1>1. PICK i \in Field : Run(p, n) \subseteq FieldBits(i)
  BY DEF Findable
<1>2. PICK a \in Run(p, n) : a[1] \in Field /\ Index(a) = p
  BY FirstBit
<1>3. a \in Bit /\ a[1] = i /\ a[1] = j
  BY <1>1, <1>2, InField, Between DEF Run
<1>4. p + n - 1 \in 0..(Size - 1) /\ p \in Int /\ n \in Int
  BY SizeNat
<1>5. PICK b \in Bit : Index(b) = p + n - 1
  BY <1>4, BitAt
<1>6. b \in Run(p, n)
  BY <1>4, <1>5 DEF Run
<1>7. b[1] = j
  BY <1>1, <1>3, <1>6, InField
<1> QED BY <1>4, <1>5, <1>7, InBit, BitmapAssumption DEF Field

\* Where a field has no free run, one that begins there goes on into the next, from
\* zeros at the end of the field.
LEMMA Crossing ==
  ASSUME NEW n \in Nat \ {0}, NEW p \in 0..(Size - n), NEW j \in Field, Begins(p, j),
         Run(p, n) \cap map = {}, FreeRuns(j, n, 0) = {}
  PROVE  /\ p + n > j * Bits + Bits
         /\ \A k \in 0..Bits : LeadingZeros(j, k) => j * Bits + Bits - k <= p
<1>1. j * Bits \in Nat /\ p \in Nat /\ Bits \in Nat /\ Bits > 0
  BY BitmapAssumption, Times, SizeNat DEF Field
<1>2. p + n > j * Bits + Bits
  <2> SUFFICES ASSUME p + n <= j * Bits + Bits PROVE FALSE
    BY <1>1
  <2>1. p \in (j * Bits)..(j * Bits + Bits - n)
    BY <1>1 DEF Begins
  <2> QED BY <1>1, <2>1 DEF FreeRuns
<1>3. ASSUME NEW k \in 0..Bits, LeadingZeros(j, k), p < j * Bits + Bits - k
      PROVE  FALSE
  <2> DEFINE b == <<j, Bits - k - 1>>
  <2>1. k # Bits
    BY <1>1, <1>3 DEF Begins
  <2>2. b \in map
    BY <1>3, <2>1 DEF LeadingZeros
  <2>3. b \in Bit /\ Index(b) = j * Bits + (Bits - k - 1)
    BY <1>1, <2>1 DEF Bit, Index
  <2>4. b \in Run(p, n)
    BY <1>1, <1>2, <1>3, <2>3 DEF Run
  <2> QED BY <2>2, <2>4
<1>4. \A k \in 0..Bits : LeadingZeros(j, k) => j * Bits + Bits - k <= p
  BY <1>1, <1>3
<1> QED BY <1>2, <1>4

\* The end of a search of a short run in a field, and of a scan.
LEMMA BarrenShort ==
  ASSUME NEW n \in 1..2, NEW j \in Field, FreeRuns(j, n, 0) = {}
  PROVE  Barren(j, n)
<1> SUFFICES ASSUME NEW p \in 0..(Size - n), Begins(p, j), Findable(p, n) PROVE FALSE
  BY DEF Barren, Begins
<1>1. p + n > j * Bits + Bits
  BY Crossing DEF Findable
<1>2. p + n <= j * Bits + Bits
  BY ShortInside
<1>3. j * Bits \in Nat /\ p \in Nat /\ Bits \in Nat
  BY BitmapAssumption, Times, SizeNat DEF Field
<1> QED BY <1>1, <1>2, <1>3

LEMMA BarrenScan ==
  ASSUME NEW n \in Nat \ {0}, NEW j \in Field, FreeRuns(j, n, 0) = {},
         NEW k \in 0..Bits, LeadingZeros(j, k),
         k = 0 \/ j * Bits + Bits - k + n > Size
                \/ \E b \in Run(j * Bits + Bits - k, n) : b \in map /\ b[1] > j
  PROVE  Barren(j, n)
<1> SUFFICES ASSUME NEW p \in 0..(Size - n), Begins(p, j), Findable(p, n) PROVE FALSE
  BY DEF Barren, Begins
<1> DEFINE start == j * Bits + Bits - k
<1>1. j * Bits \in Nat /\ p \in Nat /\ Bits \in Nat /\ k \in Nat /\ start \in Int /\ n \in Nat
  BY BitmapAssumption, Times, SizeNat DEF Field
<1>2. start <= p /\ p < j * Bits + Bits
  BY Crossing DEF Findable, Begins
<1>3. k # 0
  BY <1>1, <1>2
<1>4. start + n <= Size
  BY <1>1, <1>2, SizeNat
<1>5. ASSUME NEW b \in Run(start, n), b \in map, b[1] > j PROVE FALSE
  <2>1. b \in Bit /\ Index(b) < start + n /\ Index(b) \in Int /\ b[1] \in Int /\ j \in Int
    BY <1>5, InBit DEF Run, Field
  <2>2. (j + 1) * Bits <= b[1] * Bits /\ (j + 1) * Bits = j * Bits + Bits
    BY <1>1, <1>5, <2>1, Times, NextField
  <2>3. b[1] * Bits <= Index(b) /\ b[1] * Bits \in Int
    BY <1>1, <2>1, InBit
  <2>4. p <= Index(b) /\ Index(b) < p + n
    BY <1>1, <1>2, <2>1, <2>2, <2>3
  <2>5. b \in Run(p, n)
    BY <2>1, <2>4 DEF Run
  <2> QED BY <1>5, <2>5 DEF Findable
<1> QED BY <1>1, <1>3, <1>4, <1>5, SizeNat

\* After the last field there is nothing left.
LEMMA AllBarren ==
  ASSUME NEW n \in Nat \ {0}, \A j \in Field : Barren(j, n)
  PROVE  ~Available(n)
<1> SUFFICES ASSUME NEW p \in 0..(Size - n), Findable(p, n) PROVE FALSE
  BY DEF Available
<1>1. PICK b \in Run(p, n) : b[1] \in Field /\ Begins(p, b[1])
  BY FirstBit
<1> QED BY <1>1 DEF Barren, Begins

\* What a search knows of the map is about what the map is.
LEMMA SoughtStays == ASSUME map' = map, NEW c, Sought(c) PROVE Sought(c)'
BY DEF Sought, Barren, Findable, FreeRuns, LeadingZeros

LEMMA SoughtIdle == Sought(Idle)
BY DEF Sought, Idle

\* A field where nothing begins is done with; after the last one there is nothing.
LEMMA AdvanceSought ==
  ASSUME NEW c \in Control, c.count > 0, c.left > 0,
         \A j \in Field \ Unvisited(c) : Barren(j, c.count), Barren(c.idx, c.count)
  PROVE  /\ Sought(Advance(c))
         /\ Advance(c) = Idle => ~Available(c.count)
<1> DEFINE next == (c.idx + 1) % Fields
           left == c.left - 1
           n    == c.count
<1>1. c.idx \in 0..(Fields - 1) /\ n \in Nat \ {0} /\ c.left \in 1..Fields /\ Fields \in Nat \ {0}
  BY BitmapAssumption DEF Control, Field
<1>2. next = IF c.idx + 1 = Fields THEN 0 ELSE c.idx + 1
  <2>1. CASE c.idx + 1 = Fields
    <3>1. Fields % Fields = 0
      BY <1>1
    <3> QED BY <2>1, <3>1
  <2>2. CASE c.idx + 1 # Fields
    <3>1. c.idx + 1 \in 0..(Fields - 1)
      BY <1>1, <2>2
    <3>2. (c.idx + 1) % Fields = c.idx + 1
      BY <1>1, <3>1
    <3> QED BY <2>2, <3>2
  <2> QED BY <2>1, <2>2
<1> HIDE DEF next
<1>3. ASSUME left = 0 PROVE Advance(c) = Idle /\ ~Available(n)
  <2>1. Advance(c) = Idle
    BY <1>3 DEF Advance, Visit
  <2>2. \A j \in Field : j # c.idx => j \notin Unvisited(c)
    BY <1>1, <1>3 DEF Unvisited, Field
  <2>3. \A j \in Field : Barren(j, n)
    BY <2>2
  <2> QED BY <1>1, <2>1, <2>3, AllBarren
<1>4. ASSUME left # 0 PROVE Sought(Advance(c)) /\ Advance(c) # Idle
  <2> DEFINE at == IF n <= 2 \/ n <= Bits THEN "load" ELSE "scan"
             d  == [Idle EXCEPT !.at = at, !.count = n, !.idx = next, !.left = left]
  <2>1. Advance(c) = d
    BY <1>4 DEF Advance, Visit, next
  <2>2. d.at = at /\ d.count = n /\ d.idx = next /\ d.left = left /\ d.nested = FALSE
    BY DEF Idle
  <2>3. at \in {"load", "scan"} /\ (at = "scan" => n > 2 /\ n > Bits)
    BY <1>1, BitmapAssumption
  <2> HIDE DEF d, at
  <2>4. \A j \in Field : j \notin Unvisited(d) => j = c.idx \/ j \notin Unvisited(c)
    BY <1>1, <1>2, <2>2 DEF Unvisited, Field
  <2>5. \A j \in Field \ Unvisited(d) : Barren(j, n)
    BY <2>4
  <2>6. at = "scan" => FreeRuns(next, n, 0) = {}
    BY <1>1, <1>2, <2>3, BitmapAssumption DEF FreeRuns
  <2>7. Sought(d)
    BY <2>2, <2>3, <2>5, <2>6 DEF Sought
  <2>8. d # Idle
    BY <2>2, <2>3, IdleType
  <2> QED BY <2>1, <2>7, <2>8
<1> QED BY <1>3, <1>4, SoughtIdle

\* The first field.
LEMMA FindSought ==
  ASSUME NEW n \in Nat \ {0}, NEW i \in Field
  PROVE  Sought(Visit([Idle EXCEPT !.count = n], i, Fields))
<1> DEFINE at == IF n <= 2 \/ n <= Bits THEN "load" ELSE "scan"
           d  == [Idle EXCEPT !.at = at, !.count = n, !.idx = i, !.left = Fields]
<1>1. [Idle EXCEPT !.count = n].count = n /\ Fields \in Nat \ {0} /\ Fields # 0
  BY IdleType, BitmapAssumption DEF Control
<1>2. Visit([Idle EXCEPT !.count = n], i, Fields) = d
  BY <1>1 DEF Visit
<1>3. d.at = at /\ d.count = n /\ d.idx = i /\ d.left = Fields /\ d.nested = FALSE
  BY DEF Idle
<1>4. at \in {"load", "scan"} /\ (at = "scan" => n > 2 /\ n > Bits)
  BY BitmapAssumption
<1> HIDE DEF d, at
<1>5. \A j \in Field : j \in Unvisited(d)
  BY <1>1, <1>3 DEF Unvisited, Field
<1>6. at = "scan" => FreeRuns(i, n, 0) = {}
  BY <1>4, BitmapAssumption DEF FreeRuns, Field
<1>7. Sought(d)
  BY <1>3, <1>4, <1>5, <1>6 DEF Sought
<1> QED BY <1>2, <1>7

\* Where t's step leads to, if it is alone: without success only if there is none.
Leads(t, c) ==
  /\ pc' = [pc EXCEPT ![t] = c] /\ Sought(c)'
  /\ c = Idle => ~Available(pc[t].count) \/ held'[t] # held[t]

LEMMA ReadsOn ==
  ASSUME NEW t \in Thread, NEW c, pc' = [pc EXCEPT ![t] = c], map' = map, Sought(c),
         c = Idle => ~Available(pc[t].count)
  PROVE  Leads(t, c)
BY SoughtStays DEF Leads

LEMMA LoadLeads ==
  ASSUME IInv, NEW t \in Thread, Sought(pc[t]), Load(t)
  PROVE  \E c : Leads(t, c)
<1> DEFINE c == pc[t]
           free == FreeRuns(c.idx, c.count, 0)
<1>1. c \in Control /\ c.at = "load" /\ c.count > 0 /\ c.left > 0 /\ map' = map
  BY DEF Load, IInv, TypeOK, Placed
<1>2. c.count \in Nat \ {0} /\ c.idx \in Field /\ ~c.nested
      /\ \A j \in Field \ Unvisited(c) : Barren(j, c.count)
  BY <1>1 DEF Control, Sought
<1>3. CASE free = {} /\ pc' = [pc EXCEPT ![t] = InsideFails(@)]
  <2>1. pc' = [pc EXCEPT ![t] = InsideFails(c)]
    BY <1>3
  <2>2. CASE c.count <= 2
    <3>1. InsideFails(c) = Advance(c)
      BY <2>2 DEF InsideFails
    <3>2. c.count \in 1..2
      BY <1>2, <2>2
    <3>3. Barren(c.idx, c.count)
      BY <1>2, <1>3, <3>2, BarrenShort
    <3> QED BY <1>1, <1>2, <2>1, <3>1, <3>3, AdvanceSought, ReadsOn
  <2>3. CASE c.count > 2
    <3> DEFINE d == [Idle EXCEPT !.at = "scan", !.count = c.count, !.idx = c.idx,
                                 !.left = c.left]
    <3>1. InsideFails(c) = d
      BY <1>2, <2>3 DEF InsideFails
    <3>2. d.at = "scan" /\ d.count = c.count /\ d.idx = c.idx /\ d.left = c.left
      BY DEF Idle
    <3> HIDE DEF d
    <3>3. Sought(d)
      BY <1>2, <1>3, <2>3, <3>2 DEF Sought, Unvisited
    <3>4. d # Idle
      BY <3>2, IdleType
    <3> QED BY <1>1, <2>1, <3>1, <3>3, <3>4, ReadsOn
  <2> QED BY <1>2, <2>2, <2>3
<1>4. ASSUME NEW q \in free,
             pc' = [pc EXCEPT ![t].at = "cas", ![t].start = q, ![t].run = Run(q, c.count)]
      PROVE  \E e : Leads(t, e)
  <2> DEFINE d == [c EXCEPT !.at = "cas", !.start = q, !.run = Run(q, c.count)]
  <2>1. pc' = [pc EXCEPT ![t] = d]
    BY <1>4
  <2>2. /\ d.at = "cas" /\ d.count = c.count /\ d.idx = c.idx /\ d.left = c.left
        /\ d.run = Run(q, c.count)
    BY <1>1 DEF Control
  <2> HIDE DEF d
  <2>3. Run(q, c.count) \cap map = {}
    BY <1>4 DEF FreeRuns
  <2>4. Sought(d)
    BY <1>2, <2>2, <2>3 DEF Sought, Unvisited
  <2>5. d # Idle
    BY <2>2, IdleType
  <2> QED BY <1>1, <2>1, <2>4, <2>5, ReadsOn
<1>5. Inside(t, 0)
  BY DEF Load
<1> QED BY <1>3, <1>4, <1>5 DEF Inside

\* Nobody has changed the field since it was read.
LEMMA CasLeads ==
  ASSUME IInv, NEW t \in Thread, Sought(pc[t]), Cas(t)
  PROVE  \E c : Leads(t, c)
<1> DEFINE r == pc[t].run
<1>1. pc[t].at = "cas" /\ r \cap map = {} /\ r \in Runs
  BY DEF Cas, Sought, IInv, Placed
<1>2. pc' = [pc EXCEPT ![t] = Idle] /\ held' = [held EXCEPT ![t] = @ \cup {r}]
  BY <1>1 DEF Cas
<1>3. r # {}
  <2>1. PICK n \in 1..Size : \E p \in 0..(Size - n) : r = Run(p, n)
    BY <1>1 DEF Runs
  <2>2. PICK p \in 0..(Size - n) : r = Run(p, n)
    BY <2>1
  <2>3. n \in Nat \ {0}
    BY SizeNat
  <2> QED BY <2>2, <2>3, FirstBit
<1>4. r \notin held[t]
  BY <1>1, <1>3 DEF IInv, BitsAccounted, Own
<1>5. held'[t] # held[t]
  BY <1>2, <1>4 DEF IInv, TypeOK
<1>6. Sought(Idle)'
  BY DEF Sought, Idle
<1> QED BY <1>2, <1>5, <1>6 DEF Leads

LEMMA FieldNat == ASSUME NEW i \in Field PROVE i \in Int /\ i * Bits \in Nat /\ Bits \in Nat
<1>1. i \in Nat /\ Bits \in Nat
  BY BitmapAssumption DEF Field
<1> QED BY <1>1

\* What does not fit, ends behind the bitmap.
LEMMA TooShort ==
  ASSUME NEW i \in Field, NEW k \in 0..Bits, NEW n \in Nat, n > k,
         DivideUp(n - k, Bits) >= Fields - i
  PROVE  i * Bits + Bits - k + n > Size
<1> DEFINE m == n - k
           u == DivideUp(m, Bits)
<1>1. i \in Int /\ Fields \in Int /\ Bits \in Nat \ {0} /\ m \in Nat \ {0} /\ k \in Nat
  BY BitmapAssumption DEF Field
<1>2. u \in Int /\ Bits * u <= m + Bits - 1
  BY <1>1, Rest DEF DivideUp
<1>3. (Fields - i) * Bits <= u * Bits
  <2>1. u >= Fields - i
    OBVIOUS
  <2>2. Fields - i \in Int /\ Bits \in Nat
    BY <1>1
  <2> HIDE DEF u
  <2> QED BY <1>2, <2>1, <2>2, Times
<1>4. ((Fields - i) + i) * Bits = (Fields - i) * Bits + i * Bits
  BY <1>1, Distributes
<1>5. (Fields - i) + i = Fields
  BY <1>1
<1>6. (Fields - i) * Bits \in Int /\ i * Bits \in Int /\ u * Bits \in Int
  BY <1>1, <1>2
<1> HIDE DEF u
<1>7. Size = (Fields - i) * Bits + i * Bits
  BY <1>4, <1>5 DEF Size
<1>8. u * Bits = Bits * u
  BY <1>1, <1>2
<1> QED BY <1>1, <1>2, <1>3, <1>6, <1>7, <1>8

\* The last k bits of field i are those of the run that begins with them.
LEMMA LastBits ==
  ASSUME NEW i \in Field, NEW k \in 0..Bits, NEW n \in Nat, LeadingZeros(i, k),
         NEW b \in Run(i * Bits + Bits - k, n), b[1] <= i
  PROVE  b \notin map
<1>1. b \in Bit /\ b[1] \in Int /\ b[2] \in 0..(Bits - 1) /\ Index(b) = b[1] * Bits + b[2]
  BY InBit DEF Run, Index, Field
<1>2. i * Bits \in Nat /\ Bits \in Nat /\ i \in Int /\ k \in Nat /\ k <= Bits
  BY BitmapAssumption, Times DEF Field
<1>3. i * Bits + Bits - k <= Index(b)
  BY DEF Run
<1>4. i <= b[1]
  BY <1>1, <1>2, <1>3, FieldFrom
<1>5. b[1] = i /\ b = <<b[1], b[2]>>
  BY <1>1, <1>2, <1>4, InBit
<1>6. b[2] >= Bits - k
  BY <1>1, <1>2, <1>3, <1>5
<1>7. b \in FieldBits(i)
  BY <1>1, <1>5 DEF FieldBits
<1> QED BY <1>6, <1>7 DEF LeadingZeros

LEMMA ScanLeads ==
  ASSUME IInv, NEW t \in Thread, Sought(pc[t]), Scan(t)
  PROVE  \E c : Leads(t, c)
<1> DEFINE c == pc[t]
           n == c.count
           i == c.idx
<1>1. c \in Control /\ c.at = "scan" /\ n > 0 /\ c.left > 0 /\ map' = map
  BY DEF Scan, IInv, TypeOK, Placed
<1>2. /\ n \in Nat \ {0} /\ n > 2 /\ i \in Field /\ FreeRuns(i, n, 0) = {}
      /\ \A j \in Field \ Unvisited(c) : Barren(j, n)
  BY <1>1 DEF Control, Sought
<1>3. PICK k \in 0..Bits :
        /\ LeadingZeros(i, k)
        /\ pc' = [pc EXCEPT ![t] =
             IF k >= n THEN [c EXCEPT !.at = "load", !.nested = TRUE]
             ELSE IF k = 0 \/ DivideUp(n - k, Bits) >= Fields - i THEN Advance(c)
             ELSE [c EXCEPT !.at = "ahead", !.start = i * Bits + Bits - k,
                            !.run = Run(i * Bits + Bits - k, n), !.f = i + 1]]
  BY DEF Scan
<1>4. i * Bits \in Nat /\ Bits \in Nat /\ k \in Nat /\ k <= Bits /\ i \in Int
  <2>1. k \in Nat /\ k <= Bits
    BY BitmapAssumption
  <2> QED BY <1>2, <2>1, FieldNat
<1>5. k < n
  <2> SUFFICES ASSUME n <= k PROVE FALSE
    BY <1>2, <1>4
  <2> DEFINE q == i * Bits + Bits - k
  <2>1. q \in (i * Bits)..(i * Bits + Bits - n) /\ 0 <= q /\ q \in Int
    BY <1>2, <1>4
  <2>2. ASSUME NEW b \in Run(q, n), b[1] >= i + 1 PROVE FALSE
    <3>1. b \in Bit /\ Index(b) < q + n /\ b[1] \in Int /\ Index(b) \in Int
      BY <2>2, InBit DEF Run, Field
    <3>2. (i + 1) * Bits <= b[1] * Bits /\ (i + 1) * Bits = i * Bits + Bits
      BY <1>4, <2>2, <3>1, Times, NextField
    <3>3. b[1] * Bits <= Index(b) /\ b[1] * Bits \in Int
      BY <1>4, <3>1, InBit
    <3> QED BY <1>2, <1>4, <3>1, <3>2, <3>3
  <2>3. \A b \in Run(q, n) : b \notin map
    <3>1. \A b \in Run(q, n) : b[1] \in Int
      BY InBit DEF Run, Field
    <3> QED BY <1>2, <1>3, <1>4, <2>2, <3>1, LastBits
  <2> QED BY <1>2, <2>1, <2>3 DEF FreeRuns
<1>6. CASE k = 0 \/ DivideUp(n - k, Bits) >= Fields - i
  <2>0. ~(k >= n)
    BY <1>2, <1>4, <1>5
  <2>1. pc' = [pc EXCEPT ![t] = Advance(c)]
    BY <1>3, <1>6, <2>0
  <2>2. k = 0 \/ i * Bits + Bits - k + n > Size
    BY <1>2, <1>5, <1>6, TooShort
  <2>3. Barren(i, n)
    BY <1>2, <1>3, <2>2, BarrenScan
  <2> QED BY <1>1, <1>2, <2>1, <2>3, AdvanceSought, ReadsOn
<1>7. CASE ~(k = 0 \/ DivideUp(n - k, Bits) >= Fields - i)
  <2> DEFINE start == i * Bits + Bits - k
             d == [c EXCEPT !.at = "ahead", !.start = start, !.run = Run(start, n),
                            !.f = i + 1]
  <2>0. ~(k >= n)
    BY <1>2, <1>4, <1>5
  <2>1. pc' = [pc EXCEPT ![t] = d]
    BY <1>3, <1>7, <2>0
  <2>2. /\ d.at = "ahead" /\ d.count = n /\ d.idx = i /\ d.left = c.left
        /\ d.start = start /\ d.run = Run(start, n) /\ d.f = i + 1
    BY <1>1 DEF Control
  <2>3. \A b \in Run(start, n) : b[1] < i + 1 => b \notin map
    <3>1. \A b \in Run(start, n) : b[1] \in Int
      BY InBit DEF Run, Field
    <3> QED BY <1>2, <1>3, <1>4, <3>1, LastBits
  <2>4. k \in 1..Bits
    BY <1>4, <1>7
  <2> HIDE DEF d
  <2>5. Sought(d)
    BY <1>2, <1>3, <2>2, <2>3, <2>4 DEF Sought, Unvisited
  <2>6. d # Idle
    BY <2>2, IdleType
  <2> QED BY <1>1, <2>1, <2>5, <2>6, ReadsOn
<1> QED BY <1>6, <1>7

LEMMA AheadLeads ==
  ASSUME IInv, NEW t \in Thread, Sought(pc[t]), Ahead(t)
  PROVE  \E c : Leads(t, c)
<1> DEFINE c == pc[t]
           n == c.count
           i == c.idx
           f == c.f
<1>1. /\ c \in Control /\ c.at = "ahead" /\ n > 0 /\ c.left > 0 /\ map' = map /\ f > i
      /\ f \in Int /\ c.run \subseteq Bit
  BY DEF Ahead, IInv, TypeOK, Placed, Control
<1>2. /\ n \in Nat \ {0} /\ n > 2 /\ i \in Field /\ FreeRuns(i, n, 0) = {}
      /\ \A j \in Field \ Unvisited(c) : Barren(j, n)
      /\ c.run = Run(c.start, n) /\ \A b \in c.run : b[1] < f => b \notin map
  BY <1>1 DEF Control, Sought
<1>3. PICK k \in 1..Bits : LeadingZeros(i, k) /\ c.start = i * Bits + Bits - k
  BY <1>1 DEF Sought
<1>4. \A b \in c.run : b[1] \in Int
  BY <1>1, InBit DEF Field
<1>5. CASE Part(t, f) \cap map # {}
  <2>1. pc' = [pc EXCEPT ![t] = Advance(c)]
    BY <1>5 DEF Ahead
  <2>2. PICK b \in Run(c.start, n) : b \in map /\ b[1] > i
    BY <1>1, <1>2, <1>5 DEF Part
  <2>3. k \in 0..Bits
    OBVIOUS
  <2>4. Barren(i, n)
    BY <1>2, <1>3, <2>2, <2>3, BarrenScan
  <2> QED BY <1>1, <1>2, <2>1, <2>4, AdvanceSought, ReadsOn
<1>6. CASE Part(t, f) \cap map = {} /\ LastField(t, f)
  <2> DEFINE d == [c EXCEPT !.at = "take", !.f = i]
  <2>1. pc' = [pc EXCEPT ![t] = d]
    BY <1>6 DEF Ahead
  <2>2. d.at = "take" /\ d.run = c.run
    BY <1>1 DEF Control
  <2> HIDE DEF d
  <2>3. \A b \in c.run : b \notin map
    BY <1>1, <1>2, <1>4, <1>6 DEF Part, LastField
  <2>4. Sought(d) /\ d # Idle
    BY <2>2, <2>3, IdleType DEF Sought
  <2> QED BY <1>1, <2>1, <2>4, ReadsOn
<1>7. CASE Part(t, f) \cap map = {} /\ ~LastField(t, f)
  <2> DEFINE d == [c EXCEPT !.f = f + 1]
  <2>1. pc' = [pc EXCEPT ![t] = d]
    BY <1>7 DEF Ahead
  <2>2. /\ d.at = "ahead" /\ d.count = n /\ d.idx = i /\ d.left = c.left
        /\ d.start = c.start /\ d.run = c.run /\ d.f = f + 1
    BY <1>1 DEF Control
  <2> HIDE DEF d
  <2>3. \A b \in c.run : b[1] < f + 1 => b \notin map
    BY <1>1, <1>2, <1>4, <1>7 DEF Part
  <2>4. Sought(d)
    BY <1>2, <1>3, <2>2, <2>3 DEF Sought, Unvisited
  <2>5. d # Idle
    BY <2>2, IdleType
  <2> QED BY <1>1, <2>1, <2>4, <2>5, ReadsOn
<1> QED BY <1>5, <1>6, <1>7

\* What was free ahead still is, so that nothing has to be rolled back.
LEMMA TakeLeads ==
  ASSUME IInv, NEW t \in Thread, Sought(pc[t]), Take(t)
  PROVE  \E c : pc' = [pc EXCEPT ![t] = c] /\ Sought(c)'
<1> DEFINE c == pc[t]
           f == c.f
<1>1. /\ c \in Control /\ c.at = "take" /\ f \in Int /\ c.run \subseteq Bit
      /\ \A b \in c.run : b[1] >= f => b \notin map
  BY DEF Take, IInv, TypeOK, Control, Sought
<1>2. Part(t, f) \cap map = {}
  BY <1>1 DEF Part
<1>3. map' = map \cup Part(t, f)
  BY <1>2 DEF Take
<1>4. CASE LastField(t, f)
  <2>1. pc' = [pc EXCEPT ![t] = Idle]
    BY <1>2, <1>4 DEF Take
  <2>2. Sought(Idle)'
    BY DEF Sought, Idle
  <2> QED BY <2>1, <2>2
<1>5. CASE ~LastField(t, f)
  <2>1. PICK d : d = [c EXCEPT !.f = f + 1]
    OBVIOUS
  <2>0. pc' = [pc EXCEPT ![t] = d]
    BY <1>2, <1>5, <2>1 DEF Take
  <2>2. d.at = "take" /\ d.run = c.run /\ d.f = f + 1
    BY <1>1, <2>1 DEF Control
  <2>3. \A b \in c.run : b[1] >= f + 1 => b \notin map'
    BY <1>1, <1>3, InBit DEF Part, Field
  <2>4. Sought(d)'
    <3>1. \A b \in d.run : b[1] >= d.f => b \notin map'
      BY <2>2, <2>3
    <3> QED BY <2>2, <3>1 DEF Sought
  <2> QED BY <2>0, <2>4
<1> QED BY <1>4, <1>5

\* The searches.
Searches(t) == Load(t) \/ Cas(t) \/ Scan(t) \/ Ahead(t)

LEMMA SearchLeads ==
  ASSUME IInv, NEW t \in Thread, Sought(pc[t]), Searches(t)
  PROVE  \E c : Leads(t, c)
BY LoadLeads, CasLeads, ScanLeads, AheadLeads DEF Searches

LEMMA InitUndisturbed == Init => Undisturbed
BY DEF Init, Undisturbed

\* A call begins.
LEMMA EntersUndisturbed ==
  ASSUME IInv, NEW t \in Thread, NEW c, pc[t] = Idle, pc' = [pc EXCEPT ![t] = c], Enter(t),
         Sought(c)'
  PROVE  Undisturbed'
<1>1. pc'[t] = c /\ \A u \in Thread \ {t} : pc'[u] = pc[u]
  BY DEF IInv, TypeOK
<1>2. \A u \in alone' : u = t /\ \A v \in Thread : pc[v] = Idle
  BY DEF Enter
<1> QED BY <1>1, <1>2 DEF Undisturbed

\* A call that goes on is not another thread's while one is alone.
LEMMA GoesUndisturbed ==
  ASSUME IInv, Undisturbed, NEW t \in Thread, pc[t] # Idle, alone' = alone,
         NEW c, pc' = [pc EXCEPT ![t] = c], t \in alone => Sought(c)'
  PROVE  Undisturbed'
<1>1. pc'[t] = c /\ \A u \in Thread \ {t} : pc'[u] = pc[u]
  BY DEF IInv, TypeOK
<1>2. \A u \in alone : u = t
  BY DEF Undisturbed
<1> QED BY <1>1, <1>2 DEF Undisturbed

LEMMA StepUndisturbed ==
  ASSUME IInv, Undisturbed, NEW t \in Thread, Step(t) PROVE Undisturbed'
<1>1. ASSUME NEW n \in Counts, NEW i \in Starts, Find(t, n, i) PROVE Undisturbed'
  <2> DEFINE c == Visit([Idle EXCEPT !.count = n], i, Fields)
  <2>1. n \in Nat \ {0} /\ i \in Field
    BY BitmapAssumption DEF Field
  <2>2. Sought(c) /\ map' = map
    BY <1>1, <2>1, FindSought DEF Find
  <2>3. pc' = [pc EXCEPT ![t] = c] /\ pc[t] = Idle /\ Enter(t)
    BY <1>1 DEF Find
  <2> HIDE DEF c
  <2>4. Sought(c)'
    BY <2>2, SoughtStays
  <2> QED BY <2>3, <2>4, EntersUndisturbed
<1>2. ASSUME NEW p \in 0..(Size - 1), NEW n \in 1..Bits, TryClaim(t, p, n)
      PROVE  Undisturbed'
  <2>1. pc[t] = Idle /\ pc' = [pc EXCEPT ![t] = Idle] /\ Enter(t)
    BY <1>2 DEF TryClaim, IInv, TypeOK
  <2>2. Sought(Idle)'
    BY DEF Sought, Idle
  <2> QED BY <2>1, <2>2, EntersUndisturbed
<1>3. ASSUME NEW r, NEW f, ClearField(t, r, f)
      PROVE  \E c : pc' = [pc EXCEPT ![t] = c] /\ Sought(c)'
  <2> DEFINE d == [Idle EXCEPT !.at = "unclaim", !.run = r, !.f = f + 1]
  <2>1. PICK c : pc' = [pc EXCEPT ![t] = c] /\ (c = d \/ c = Idle)
    BY <1>3 DEF ClearField
  <2>2. d.at = "unclaim" /\ Idle.at = "idle"
    BY DEF Idle
  <2>3. c.at \in {"unclaim", "idle"}
    BY <2>1, <2>2
  <2>4. Sought(c)'
    BY <2>3 DEF Sought
  <2> QED BY <2>1, <2>4
<1>4. ASSUME NEW r \in held[t], Unclaim(t, r) PROVE Undisturbed'
  BY <1>3, <1>4, EntersUndisturbed DEF Unclaim
<1>5. ASSUME UnclaimNext(t) PROVE Undisturbed'
  <2>1. pc[t] # Idle /\ alone' = alone
    BY <1>5, IdleType DEF UnclaimNext
  <2> QED BY <1>3, <1>5, <2>1, GoesUndisturbed DEF UnclaimNext
<1>6. ASSUME Searches(t) PROVE Undisturbed'
  <2>1. pc[t] # Idle /\ alone' = alone /\ \E c : pc' = [pc EXCEPT ![t] = c]
    BY <1>6, IdleType DEF Searches, Load, Cas, Scan, Ahead, Inside
  <2>2. CASE t \in alone
    BY <1>6, <2>1, <2>2, SearchLeads, GoesUndisturbed DEF Leads, Undisturbed
  <2>3. CASE t \notin alone
    BY <2>1, <2>3, GoesUndisturbed
  <2> QED BY <2>2, <2>3
<1>7. ASSUME Take(t) PROVE Undisturbed'
  <2>1. pc[t] # Idle /\ alone' = alone /\ \E c : pc' = [pc EXCEPT ![t] = c]
    BY <1>7, IdleType DEF Take
  <2>2. CASE t \in alone
    BY <1>7, <2>1, <2>2, TakeLeads, GoesUndisturbed DEF Undisturbed
  <2>3. CASE t \notin alone
    BY <2>1, <2>3, GoesUndisturbed
  <2> QED BY <2>2, <2>3
<1>8. ASSUME Back(t) PROVE Undisturbed'
  <2>1. pc[t] # Idle /\ pc[t].at = "back" /\ alone' = alone
        /\ \E c : pc' = [pc EXCEPT ![t] = c]
    BY <1>8, IdleType DEF Back
  <2>2. t \notin alone
    BY <2>1 DEF Undisturbed, Sought
  <2> QED BY <2>1, <2>2, GoesUndisturbed
<1> QED BY <1>1, <1>2, <1>4, <1>5, <1>6, <1>7, <1>8 DEF Step, Searches

LEMMA StutterUndisturbed == Undisturbed /\ UNCHANGED vars => Undisturbed'
<1> SUFFICES ASSUME Undisturbed, UNCHANGED vars PROVE Undisturbed'
  OBVIOUS
<1>1. map' = map /\ pc' = pc /\ alone' = alone
  BY DEF vars
<1>2. \A t \in alone : Sought(pc[t])'
  BY <1>1 DEF Undisturbed, Sought, Barren, Findable, FreeRuns, LeadingZeros
<1> QED BY <1>1, <1>2 DEF Undisturbed

\* While a call is alone, what its search has seen of the bitmap is so.
THEOREM UndisturbedHolds == Spec => []Undisturbed
<1>1. IInv /\ Undisturbed /\ [Next]_vars => Undisturbed'
  BY StepUndisturbed, StutterUndisturbed DEF Next
<1> QED BY InitUndisturbed, <1>1, Invariance, PTL DEF Spec

\* A step of a thread moves that thread.
LEMMA StepMoves == ASSUME IInv, NEW t \in Thread, Step(t) PROVE \E c : pc' = [pc EXCEPT ![t] = c]
<1>1. ASSUME NEW n, NEW i, Find(t, n, i) PROVE \E c : pc' = [pc EXCEPT ![t] = c]
  BY <1>1 DEF Find
<1>2. ASSUME NEW p, Inside(t, p) PROVE \E c : pc' = [pc EXCEPT ![t] = c]
  BY <1>2 DEF Inside
<1>3. ASSUME Load(t) \/ Cas(t) PROVE \E c : pc' = [pc EXCEPT ![t] = c]
  BY <1>2, <1>3 DEF Load, Cas
<1>4. ASSUME Scan(t) PROVE \E c : pc' = [pc EXCEPT ![t] = c]
  BY <1>4 DEF Scan
<1>5. ASSUME Ahead(t) \/ Back(t) PROVE \E c : pc' = [pc EXCEPT ![t] = c]
  BY <1>5 DEF Ahead, Back
<1>6. ASSUME Take(t) PROVE \E c : pc' = [pc EXCEPT ![t] = c]
  BY <1>6 DEF Take
<1>7. ASSUME NEW p, NEW n, TryClaim(t, p, n) PROVE \E c : pc' = [pc EXCEPT ![t] = c]
  BY <1>7 DEF TryClaim, IInv, TypeOK
<1>8. ASSUME NEW r, NEW f, ClearField(t, r, f) PROVE \E c : pc' = [pc EXCEPT ![t] = c]
  BY <1>8 DEF ClearField
<1>9. ASSUME NEW r, Unclaim(t, r) PROVE \E c : pc' = [pc EXCEPT ![t] = c]
  BY <1>8, <1>9 DEF Unclaim
<1>10. ASSUME UnclaimNext(t) PROVE \E c : pc' = [pc EXCEPT ![t] = c]
  BY <1>8, <1>10 DEF UnclaimNext
<1> QED BY <1>1, <1>3, <1>4, <1>5, <1>6, <1>7, <1>9, <1>10 DEF Step

\* A search that nobody disturbs finds a run whenever there is one, wherever it lies.
THEOREM SearchesAreComplete == Spec => SearchIsComplete
<1> DEFINE Complete ==
      \A t \in alone :
        pc[t].at \in {"load", "cas", "scan", "ahead"} /\ pc'[t] = Idle
            /\ held'[t] = held[t] => ~Available(pc[t].count)
<1>1. ASSUME IInv, Undisturbed, Next PROVE Complete
  <2> SUFFICES ASSUME NEW t \in alone, pc[t].at \in {"load", "cas", "scan", "ahead"},
                      pc'[t] = Idle, held'[t] = held[t]
               PROVE  ~Available(pc[t].count)
    OBVIOUS
  <2>1. t \in Thread /\ pc[t] # Idle /\ Sought(pc[t])
        /\ \A u \in Thread \ {t} : pc[u] = Idle
    BY <1>1, IdleType DEF IInv, TypeOK, Undisturbed
  <2>2. PICK u \in Thread : Step(u)
    BY <1>1 DEF Next
  <2>3. u = t
    <3> SUFFICES ASSUME u # t PROVE FALSE
      OBVIOUS
    <3>1. \E c : pc' = [pc EXCEPT ![u] = c]
      BY <1>1, <2>2, StepMoves
    <3> QED BY <1>1, <2>1, <3>1 DEF IInv, TypeOK
  <2>4. Searches(t)
    BY <2>1, <2>2, <2>3 DEF Step, Find, Take, Back, TryClaim, Unclaim, UnclaimNext, Searches
  <2>5. PICK c : Leads(t, c)
    BY <1>1, <2>1, <2>4, SearchLeads
  <2>6. c = Idle
    BY <1>1, <2>1, <2>5 DEF Leads, IInv, TypeOK
  <2> QED BY <2>5, <2>6 DEF Leads
<1>2. IInv /\ Undisturbed /\ [Next]_vars => [Complete]_vars
  BY <1>1
<1> QED BY <1>2, Invariance, UndisturbedHolds, PTL DEF Spec, SearchIsComplete
=============================================================================

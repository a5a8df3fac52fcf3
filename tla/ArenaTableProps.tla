--------------------------- MODULE ArenaTableProps ---------------------------
(***************************************************************************)
(* What holds of the memory that alloc_hook_os.c, alloc_hook_arena.c and   *)
(* alloc_hook_segment_map.c give out.                                      *)
(***************************************************************************)
EXTENDS ArenaTable

TypeOK ==
    /\ mem \in [Page -> {"free", "none", "rw"}]
    /\ tryOk \in 0..Retry /\ hugeStart \in Nat
    /\ pc \in [Thread -> Control]
    /\ arenas \in [Index -> ArenaOf \cup {NoArena}]
    /\ count \in 0..(MaxArenas + Cardinality(Thread))
    /\ live \subseteq ExtentOf
    /\ map \subseteq 0..(Pages \div Block)
    /\ external \subseteq Page /\ lost \subseteq Page
    /\ calls \in 0..MaxCalls /\ ended \in BOOLEAN

\* The mapped range that a thread has to use or to give back.  c: its record.
HandAt == {"misaligned", "pre", "post", "have", "got", "huge", "stray", "freeHuge", "meta",
           "add", "retreat", "store", "undo"}
Hand(c) == IF c.at \in HandAt /\ c.call.op # "manage" THEN Span(c.lo, c.n) ELSE {}

\* The memory of the segment that a thread has in hand.
InHand(c) == UNION {Extents(e) : e \in c.ext}

\* A huge page at the wrong place, or the descriptor of an arena to be.
Aside(c) == (IF c.stray = NoPage THEN {} ELSE Span(c.stray, Block)) \cup {c.meta}

One(b) == IF b THEN 1 ELSE 0

\* How often page q is counted for: by a segment, by a thread that is about to use it
\* or to give it back, as the area or the descriptor of an arena (the descriptors
\* are gone in the end), by the program, or as a descriptor that was forgotten.
Holds(q) ==
      Cardinality({e \in live : q \in Extents(e)})
    + Cardinality({t \in Thread : q \in Hand(pc[t])})
    + Cardinality({t \in Thread : q \in InHand(pc[t])})
    + Cardinality({t \in Thread : q \in Aside(pc[t])})
    + Cardinality({i \in Used : q \in Area0(i)})
    + Cardinality({i \in Used : q = arenas[i].meta /\ ~ended})
    + One(q \in external) + One(q \in lost)

(***************************************************************************)
(* Every mapped page has one holder and every free page has none: whatever *)
(* call of the OS fails, memory that was over-allocated, reserved in vain, *)
(* mapped at the wrong address or rounded up is given back, all of it and  *)
(* nothing else, except for the descriptor of an arena that found the      *)
(* table full (arena.c:730, which returns to a caller that cannot free it).*)
(***************************************************************************)
Accounted ==
    /\ TypeOK
    /\ \A q \in Page : Holds(q) = One(mem[q] # "free")

(***************************************************************************)
(* What a segment takes for committed can be accessed, and so can the      *)
(* descriptors of the arenas as long as threads run.                       *)
(***************************************************************************)
Accessible ==
    /\ \A e \in live \cup UNION {pc[t].ext : t \in Thread} :
         /\ e.committed \subseteq Span(e.p, e.size)
         /\ ~ended \/ e.id = 0 => \A q \in e.committed : mem[q] = "rw"
    /\ ~ended => \A i \in Used : mem[arenas[i].meta] = "rw"

\* The segments that have memory of arena i: those of the program and those that a
\* thread enters or frees.
Tenants(i) ==
    {e \in live \cup UNION {pc[t].ext : t \in Thread} : e.id = i + 1}

(***************************************************************************)
(* The ids of arenas stay good while threads add arenas and the table      *)
(* fills up: a segment's memory lies in the blocks in use of the arena its *)
(* memid names, no two segments share a block and no block is in use       *)
(* without a segment; a segment of an exclusive arena asked for that       *)
(* arena.  Each index below the count has an arena or is that of a thread  *)
(* about to store one or to give its index back.                           *)
(***************************************************************************)
TableSound ==
    ~ended =>
    /\ \A i \in Index :
         IF arenas[i] = NoArena THEN Tenants(i) = {}
         ELSE /\ arenas[i].inuse = UNION {Bits(arenas[i], e) : e \in Tenants(i)}
              /\ \A e \in Tenants(i) :
                   /\ Bits(arenas[i], e) \subseteq 0..(BlockCount(arenas[i]) - 1)
                   /\ IdSuitable(e.id, arenas[i].exclusive, e.req)
                   /\ \A f \in Tenants(i) \ {e} :
                        Bits(arenas[i], e) \cap Bits(arenas[i], f) = {}
    /\ count = Cardinality(Used) + Cardinality({t \in Thread : pc[t].at \in {"store", "retreat"}})

\* The segments that the map is to find: how many parts each has.
Parts ==
    [s \in map |-> LET e == CHOOSE e \in live : e.p \div Block = s
                   IN  AlignUp(e.size, Block) \div Block]
In(e) == {s \in 0..(Pages \div Block) : s * Block \in Span(e.p, e.size)}

(***************************************************************************)
(* The bits of the map are the segments, and the search never takes one    *)
(* segment for another.  It finds every segment from its first part, and   *)
(* from each part whose bit lies in the same word.                         *)
(***************************************************************************)
MapFinds ==
    /\ map = {e.p \div Block : e \in live}
    /\ \A e \in live : \A s \in In(e) :
         LET first == e.p \div Block
         IN  SegmentOf(map, Parts, s) \in
                 (IF WordOf(s) = WordOf(first) THEN {first} ELSE {first, NoSegment})
    /\ \A s \in 0..(Pages \div Block) :
         (\A e \in live : s \notin In(e)) => SegmentOf(map, Parts, s) = NoSegment

(***************************************************************************)
(* The inductive invariant of all four.                                    *)
(***************************************************************************)
\* What a thread asked the OS for: memory for a segment, as big as it will be when it
\* is freed, or for an arena.
AskAt == {"map", "misaligned", "over", "pre", "post", "have"}
Wants(c) ==
    IF Direct(c)
    THEN /\ c.call.op = "alloc" /\ c.align = c.call.align /\ c.skip = Extra(c.call)
         /\ c.ask = GoodSize(c.call.size) + c.skip
    ELSE /\ c.call.op \in {"alloc", "reserve"} /\ c.align = Block /\ c.skip = 0
         /\ c.ask % Block = 0

\* What it has of that in hand.
Has(c) ==
    /\ c.at \in {"misaligned", "have", "got"} => c.n = c.ask
    /\ c.at = "pre" => c.n = c.ask + c.align
    /\ c.at = "post" => c.n >= c.ask

\* Huge pages are taken and given back one by one.
HugeAt == {"claim", "claimCas", "huge", "stray", "freeHuge"}

\* The area of an arena to be.
AreaAt == {"meta", "add", "retreat", "store", "undo"}
Area1(c) ==
    /\ c.call.op # "none" /\ c.ask > 0 /\ c.lo % Block = 0 /\ c.lo + c.ask <= Pages
    /\ c.call.op # "manage" => c.n = c.ask /\ c.n % Block = 0

\* What a thread knows at each place of the code.
ExtAt == {"commitInfo", "enter", "giveBack", "free"}
Placed(c) ==
    /\ c.at = "idle" => c = Idle
    /\ IF c.at \in ExtAt THEN \E e \in c.ext : c.ext = {e} ELSE c.ext = {}
    /\ c.at = "commitInfo" => \A e \in c.ext : e.id = 0
    /\ IF c.at = "stray" THEN c.stray \in Page /\ c.stray + Block <= Pages ELSE c.stray = NoPage
    /\ IF c.at \in {"add", "retreat", "store"} THEN c.meta \in Page ELSE c.meta = NoPage
    /\ c.at \in {"count", "try", "reserve", "fallback"} => c.call.op = "alloc"
    /\ Direct(c) => c.at \in AskAt \cup {"got", "failed"}
    /\ c.at \in AskAt => c.ask > 0 /\ Wants(c)
    /\ c.at \in {"post", "have"} => c.lo % c.align = 0
    /\ c.at \in HugeAt => c.call.op = "huge" /\ c.lo % Block = 0 /\ c.n % Block = 0
    /\ c.at = "claim" \/ c.at = "claimCas" => c.ask % Block = 0
    /\ c.at = "got" => /\ c.n > 0
                       /\ IF c.call.op # "huge" THEN Wants(c) /\ c.lo % c.align = 0
                          ELSE ~Direct(c) /\ c.lo % Block = 0 /\ c.n % Block = 0
    /\ c.at \in AreaAt => Area1(c)
    /\ Has(c)
    /\ Hand(c) \subseteq Page

\* What a thread asked to have committed can be accessed, and so can a descriptor.
Real(c) ==
    /\ c.commit /\ c.at \in AskAt => \A q \in Hand(c) : mem[q] = "rw"
    /\ c.commit /\ c.at = "got" /\ Direct(c) =>
         \A q \in Span(c.lo + c.skip, c.call.size) : mem[q] = "rw"
    /\ c.at \in {"add", "retreat", "store"} => mem[c.meta] = "rw"

Memory == live \cup UNION {pc[t].ext : t \in Thread}
Sound(e) ==
    /\ e.p % Block = 0 /\ e.base <= e.p /\ e.p + e.size <= Pages
    /\ e.id # 0 => e.base = e.p /\ e.committed = {}

\* The areas that the program has given for arenas not yet made.
Given(c) == IF c.at \in AreaAt /\ c.call.op = "manage" THEN Span(c.lo, c.ask) ELSE {}

Storing == {t \in Thread : pc[t].at = "store"}
Retreating == {t \in Thread : pc[t].at = "retreat"}

\* The indices below the count are those of arenas and of threads about to store one.
\* It is above the table while threads step back from there.
Indices ==
    /\ \A t \in Storing : pc[t].i \in Index \ Used
                           /\ \A u \in Storing \ {t} : pc[u].i # pc[t].i
    /\ Used \cup {pc[t].i : t \in Storing} = {i \in Index : i < count}
    /\ IF Retreating = {} THEN count <= MaxArenas
       ELSE count = MaxArenas + Cardinality(Retreating)

\* Segments lie apart.
Apart ==
    /\ \A e \in live : \A f \in live \ {e} : Span(e.p, e.size) \cap Span(f.p, f.size) = {}
    /\ \A t \in Thread : \A e \in pc[t].ext : e.id # 0 =>
         e \notin live /\ \A u \in Thread \ {t} : e \notin pc[u].ext

IInv ==
    /\ Accounted /\ Accessible /\ TableSound /\ Apart
    /\ IsFiniteSet(live) /\ map = {e.p \div Block : e \in live}
    /\ \A t \in Thread : Placed(pc[t]) /\ Real(pc[t]) /\ Given(pc[t]) \subseteq external
                        /\ \A u \in Thread \ {t} : Given(pc[t]) \cap Given(pc[u]) = {}
    /\ \A e \in Memory : Sound(e)
    /\ \A i \in Used : arenas[i].start % Block = 0 /\ Area0(i) \subseteq Page
    /\ hugeStart % Block = 0
    /\ ended => \A t \in Thread : pc[t].at = "idle"
    /\ ~ended => Indices
=============================================================================

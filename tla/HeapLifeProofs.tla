--------------------------- MODULE HeapLifeProofs ---------------------------
(***************************************************************************)
(* Proofs about HeapLife, for every set of threads, heaps, segments, pages *)
(* and blocks: no block is ever in two places, `used` counts what is out   *)
(* of a page's lists, the allocator implements BlockPool, and the protocol *)
(* of delayed frees is sound.                                              *)
(*                                                                         *)
(* First the blocks.  The invariant IInv is TypeOK with Exclusive:         *)
(* Exclusive is inductive once the fields a thread relies on are known to  *)
(* be set (Placed), and it is what bounds `used` from below, so neither    *)
(* can be proved alone.                                                    *)
(*                                                                         *)
(* Then the protocol, from FullInv.  What a step has to show: one lemma    *)
(* for each part of Handover, for the steps that leave that part alone,    *)
(* and what a block or a page that is somewhere says of the thread that    *)
(* may touch it.  Then the steps that move a thread, take over a delayed   *)
(* list, make a heap come or go, move a segment to another owner, or       *)
(* change the lists of a page.  Then those that hand a page or a block     *)
(* over: that set the delayed flag or the heap of a page, or put a block   *)
(* on a delayed list.  Last the theorems.                                  *)
(***************************************************************************)
EXTENDS HeapLifeInv, FiniteSetTheorems, TLAPS

\* One page_t that is what its type and the assertions of page.c say.
Good(p, pg) == pg \in PageRecord /\ PageOK(p, pg)

\* The shape EXCEPT keeps: a record of these fields and no others.
Shaped(pg) ==
    /\ pg = [x \in DOMAIN pg |-> pg[x]]
    /\ DOMAIN pg = {"xheap", "flag", "in_full", "used", "capacity", "free",
                    "local_free", "thread_free"}

-----------------------------------------------------------------------------
(* One page.                                                               *)

\* A page_t is typed when each of its fields is.
LEMMA TypedByFields ==
    ASSUME NEW pg, Shaped(pg),
           pg.xheap \in Heap \cup {NoHeap}, pg.flag \in Flag,
           pg.in_full \in BOOLEAN, pg.used \in Nat,
           pg.capacity \in SUBSET Block, pg.free \in SUBSET Block,
           pg.local_free \in SUBSET Block, pg.thread_free \in SUBSET Block
    PROVE  pg \in PageRecord
  BY DEF Shaped, PageRecord

\* Every set of blocks is finite, so `used` is a number that can be counted.
LEMMA FiniteBlocks ==
    ASSUME NEW S \in SUBSET Block
    PROVE  IsFiniteSet(S) /\ Cardinality(S) \in Nat
<1>1. IsFiniteSet(S)
  BY ThreadFreeAssumption, FS_Subset
<1> QED
  BY <1>1, FS_CardinalityType

\* A page with no block in use has no block out of its lists.
LEMMA EmptyPage ==
    ASSUME NEW p \in Page, NEW pg, Good(p, pg), pg.used = 0
    PROVE  Out(pg) = {} /\ pg.thread_free = {}
<1> DEFINE away == pg.capacity \ (pg.free \cup pg.local_free)
<1>1. away \in SUBSET Block /\ Cardinality(away) = 0
  BY DEF Good, PageOK, PageRecord
<1>2. away = {}
  BY <1>1, FiniteBlocks, FS_EmptySet
<1> QED
  BY <1>2 DEF Good, PageOK, Out

\* A cleared page_t is good and nothing is out of it.
LEMMA UnusedGood ==
    ASSUME NEW p \in Page
    PROVE  Good(p, Unused) /\ Out(Unused) = {}
<1>1. Unused \in PageRecord
  BY DEF Unused, PageRecord, Flag
<1>2. Unused.capacity \ (Unused.free \cup Unused.local_free) = {}
  BY DEF Unused
<1>3. Unused.used = Cardinality({})
  BY FS_EmptySet DEF Unused
<1>4. PageOK(p, Unused)
  BY <1>2, <1>3 DEF PageOK, Unused
<1> QED
  BY <1>1, <1>4 DEF Good, Out, Unused

\* page_free_collect moves blocks between the page's own lists and keeps
\* `used` right.
LEMMA CollectedGood ==
    ASSUME NEW p \in Page, NEW pg, Good(p, pg), NEW force \in BOOLEAN
    PROVE  /\ Good(p, Collected(pg, force))
           /\ Out(Collected(pg, force)) = Out(pg)
           /\ Collected(pg, force).capacity = pg.capacity
           /\ Collected(pg, force).xheap = pg.xheap
<1> DEFINE new  == Collected(pg, force)
           away == pg.capacity \ (pg.free \cup pg.local_free)
           left == new.capacity \ (new.free \cup new.local_free)
<1>1. pg \in PageRecord /\ PageOK(p, pg)
  BY DEF Good
<1>2. /\ Shaped(new)
      /\ new.xheap = pg.xheap /\ new.flag = pg.flag
      /\ new.in_full = pg.in_full /\ new.capacity = pg.capacity
      /\ new.thread_free = {}
      /\ new.used = pg.used - Cardinality(pg.thread_free)
      /\ new.free = IF force \/ pg.free = {}
                      THEN pg.free \cup pg.local_free \cup pg.thread_free
                      ELSE pg.free
      /\ new.local_free = IF force \/ pg.free = {} THEN {}
                          ELSE pg.local_free \cup pg.thread_free
  BY <1>1 DEF Collected, PageRecord, Shaped
<1>3. /\ left = away \ pg.thread_free
      /\ away \cap pg.thread_free = pg.thread_free
      /\ away \in SUBSET Block /\ left \in SUBSET Block
  BY <1>1, <1>2 DEF PageOK, PageRecord
<1>4. Cardinality(left) = Cardinality(away) - Cardinality(pg.thread_free)
  BY <1>3, FiniteBlocks, FS_Difference
<1>5. new.used = Cardinality(left) /\ new.used \in Nat
  BY <1>1, <1>2, <1>3, <1>4, FiniteBlocks DEF PageOK
<1>6. /\ new.free \cup new.local_free = pg.free \cup pg.local_free \cup pg.thread_free
      /\ new.free \cap new.local_free = {}
      /\ new.free \in SUBSET Block /\ new.local_free \in SUBSET Block
  BY <1>1, <1>2 DEF PageOK, PageRecord
<1>7. PageOK(p, new)
  BY <1>1, <1>2, <1>5, <1>6 DEF PageOK
<1>8. new \in PageRecord
  BY <1>1, <1>2, <1>5, <1>6, TypedByFields DEF PageRecord
<1> QED
  BY <1>1, <1>2, <1>6, <1>7, <1>8 DEF Good, Out

\* A free of the owner takes one block from out of the lists to local_free.
LEMMA FreedLocallyGood ==
    ASSUME NEW p \in Page, NEW pg, Good(p, pg), NEW b \in Out(pg)
    PROVE  /\ Good(p, FreedLocally(pg, b))
           /\ Out(FreedLocally(pg, b)) = Out(pg) \ {b}
<1> DEFINE new  == FreedLocally(pg, b)
           away == pg.capacity \ (pg.free \cup pg.local_free)
           left == new.capacity \ (new.free \cup new.local_free)
<1>1. pg \in PageRecord /\ PageOK(p, pg) /\ b \in away
  BY DEF Good, Out
<1>2. /\ Shaped(new)
      /\ new.xheap = pg.xheap /\ new.flag = pg.flag
      /\ new.in_full = pg.in_full /\ new.capacity = pg.capacity
      /\ new.free = pg.free /\ new.thread_free = pg.thread_free
      /\ new.used = pg.used - 1
      /\ new.local_free = pg.local_free \cup {b}
  BY <1>1 DEF FreedLocally, PageRecord, Shaped
<1>3. left = away \ {b} /\ away \in SUBSET Block /\ left \in SUBSET Block
  BY <1>1, <1>2 DEF PageRecord
<1>4. Cardinality(left) = Cardinality(away) - 1
  <2>1. IsFiniteSet(away)
    BY <1>3, FiniteBlocks
  <2> QED
    BY <1>1, <1>3, <2>1, FS_RemoveElement
<1>5. new.used = Cardinality(left) /\ new.used \in Nat
  BY <1>1, <1>2, <1>3, <1>4, FiniteBlocks DEF PageOK
<1>6. PageOK(p, new)
  BY <1>1, <1>2, <1>5 DEF PageOK, Out
<1>7. new \in PageRecord
  BY <1>1, <1>2, <1>5, TypedByFields DEF PageRecord
<1> QED
  BY <1>2, <1>6, <1>7 DEF Good, Out

\* page_extend_free puts blocks on the free list that were never used.
LEMMA ExtendedGood ==
    ASSUME NEW p \in Page, NEW pg, Good(p, pg),
           NEW new \in SUBSET (BlocksOf(p) \ pg.capacity)
    PROVE  Good(p, Extended(pg, new)) /\ Out(Extended(pg, new)) = Out(pg)
<1> DEFINE ext == Extended(pg, new)
<1>1. pg \in PageRecord /\ PageOK(p, pg) /\ BlocksOf(p) \in SUBSET Block
  BY DEF Good, BlocksOf
<1>2. /\ Shaped(ext)
      /\ ext.xheap = pg.xheap /\ ext.flag = pg.flag
      /\ ext.in_full = pg.in_full /\ ext.used = pg.used
      /\ ext.local_free = pg.local_free /\ ext.thread_free = pg.thread_free
      /\ ext.capacity = pg.capacity \cup new
      /\ ext.free = pg.free \cup new
  BY <1>1 DEF Extended, PageRecord, Shaped
<1>3. ext.capacity \ (ext.free \cup ext.local_free)
        = pg.capacity \ (pg.free \cup pg.local_free)
  BY <1>1, <1>2 DEF PageOK
<1>4. PageOK(p, ext)
  BY <1>1, <1>2, <1>3 DEF PageOK
<1>5. ext \in PageRecord
  BY <1>1, <1>2, TypedByFields DEF PageRecord
<1> QED
  BY <1>1, <1>2, <1>4, <1>5 DEF Good, Out, PageOK

\* page_malloc takes one block from the free list out.
LEMMA PoppedGood ==
    ASSUME NEW p \in Page, NEW pg, Good(p, pg), NEW b \in pg.free
    PROVE  /\ Good(p, Popped(pg, b))
           /\ Out(Popped(pg, b)) = Out(pg) \cup {b}
           /\ b \in BlocksOf(p) /\ b \notin Out(pg)
<1> DEFINE new  == Popped(pg, b)
           away == pg.capacity \ (pg.free \cup pg.local_free)
           more == new.capacity \ (new.free \cup new.local_free)
<1>1. pg \in PageRecord /\ PageOK(p, pg) /\ b \notin away
  BY DEF Good
<1>2. /\ Shaped(new)
      /\ new.xheap = pg.xheap /\ new.flag = pg.flag
      /\ new.in_full = pg.in_full /\ new.capacity = pg.capacity
      /\ new.local_free = pg.local_free /\ new.thread_free = pg.thread_free
      /\ new.used = pg.used + 1
      /\ new.free = pg.free \ {b}
  BY <1>1 DEF Popped, PageRecord, Shaped
<1>3. more = away \cup {b} /\ away \in SUBSET Block /\ more \in SUBSET Block
  BY <1>1, <1>2 DEF PageOK, PageRecord
<1>4. Cardinality(more) = Cardinality(away) + 1
  BY <1>1, <1>3, FiniteBlocks, FS_AddElement
<1>5. new.used = Cardinality(more) /\ new.used \in Nat
  BY <1>1, <1>2, <1>3, <1>4, FiniteBlocks DEF PageOK
<1>6. PageOK(p, new)
  BY <1>1, <1>2, <1>5 DEF PageOK
<1>7. new \in PageRecord
  BY <1>1, <1>2, <1>5, TypedByFields DEF PageRecord
<1> QED
  BY <1>1, <1>2, <1>6, <1>7 DEF Good, Out, PageOK

\* The flag of a page has no part in its lists, ...
LEMMA FlagGood ==
    ASSUME NEW p \in Page, NEW pg, Good(p, pg), NEW f \in Flag
    PROVE  LET new == [pg EXCEPT !.flag = f]
           IN  Good(p, new) /\ Out(new) = Out(pg)
<1>1. pg \in PageRecord /\ PageOK(p, pg)
  BY DEF Good
<1>2. [pg EXCEPT !.flag = f] \in PageRecord
  BY <1>1 DEF PageRecord
<1> QED
  BY <1>1, <1>2 DEF Good, PageOK, Out, PageRecord

\* ... nor has its heap or its queue.
LEMMA HeapGood ==
    ASSUME NEW p \in Page, NEW pg, Good(p, pg),
           NEW h \in Heap \cup {NoHeap}, NEW full \in BOOLEAN
    PROVE  LET new == [pg EXCEPT !.xheap = h, !.in_full = full]
           IN  Good(p, new) /\ Out(new) = Out(pg)
<1>1. pg \in PageRecord /\ PageOK(p, pg)
  BY DEF Good
<1>2. [pg EXCEPT !.xheap = h, !.in_full = full] \in PageRecord
  BY <1>1 DEF PageRecord
<1> QED
  BY <1>1, <1>2 DEF Good, PageOK, Out, PageRecord

LEMMA XheapGood ==
    ASSUME NEW p \in Page, NEW pg, Good(p, pg), NEW h \in Heap \cup {NoHeap}
    PROVE  LET new == [pg EXCEPT !.xheap = h]
           IN  Good(p, new) /\ Out(new) = Out(pg)
<1>1. pg \in PageRecord /\ PageOK(p, pg)
  BY DEF Good
<1>2. [pg EXCEPT !.xheap = h] \in PageRecord
  BY <1>1 DEF PageRecord
<1> QED
  BY <1>1, <1>2 DEF Good, PageOK, Out, PageRecord

LEMMA FullGood ==
    ASSUME NEW p \in Page, NEW pg, Good(p, pg), NEW full \in BOOLEAN
    PROVE  LET new == [pg EXCEPT !.in_full = full]
           IN  Good(p, new) /\ Out(new) = Out(pg)
<1>1. pg \in PageRecord /\ PageOK(p, pg)
  BY DEF Good
<1>2. [pg EXCEPT !.in_full = full] \in PageRecord
  BY <1>1 DEF PageRecord
<1> QED
  BY <1>1, <1>2 DEF Good, PageOK, Out, PageRecord

\* Retiring or freeing a page loses no block: a page is cleared only when
\* none is out of its lists.
LEMMA RestedGood ==
    ASSUME NEW p \in Page, NEW pg, Good(p, pg)
    PROVE  Good(p, Rested(p, pg)) /\ Out(Rested(p, pg)) = Out(pg)
<1> DEFINE out == [pg EXCEPT !.in_full = FALSE]
<1>1. pg \in PageRecord
  BY DEF Good
<1>2. Good(p, out) /\ Out(out) = Out(pg)
  BY FullGood
<1>3. CASE pg.used = 0
  BY <1>3, EmptyPage, UnusedGood DEF Rested
<1>4. CASE pg.used # 0
  BY <1>2, <1>4 DEF Rested
<1> QED
  BY <1>3, <1>4

-----------------------------------------------------------------------------
(* Frames: what a step has to show for Exclusive.                          *)

\* Under IInv every page is good, and every block away from its page is a
\* block of the pool.
LEMMA PagesGood ==
    ASSUME IInv, NEW p \in Page
    PROVE  Good(p, page[p])
  BY DEF IInv, TypeOK, Exclusive, PagesOK, Good

\* A thread's place in the code is a well-formed one.
LEMMA InControl ==
    ASSUME IInv, NEW t \in Thread
    PROVE  pc[t] \in Control /\ Placed(pc[t])
  BY DEF IInv, TypeOK

\* A step that only takes blocks off the away places, the blocks of gone all
\* of them, and keeps the other blocks out of their pages.
LEMMA Kept ==
    ASSUME IInv, TypeOK', NEW gone \in SUBSET Block, PagesOK',
           \A p \in Page : Out(page[p]) \ gone \subseteq Out(page'[p]),
           live' \subseteq live \ gone,
           \A h \in Heap : delayed'[h] \subseteq delayed[h] \ gone,
           \A t \in Thread : /\ Hand(t)' \subseteq Hand(t) \ gone
                             /\ pc'[t].taken \subseteq pc[t].taken \ gone
    PROVE  Exclusive'
<1>1. \A t \in Thread : Carried(t)' \subseteq Carried(t) \ gone
  BY DEF Carried
<1>2. \A t \in Thread : Carried(t) \subseteq Block
  BY DEF IInv, TypeOK, Carried, Hand, Placed, Control
<1>3. AwayIsOut'
  BY <1>1, <1>2, ThreadFreeAssumption DEF IInv, Exclusive, AwayIsOut, TypeOK
<1>4. AwayOnce'
  BY <1>1 DEF IInv, Exclusive, AwayOnce
<1> QED
  BY <1>3, <1>4 DEF Exclusive

\* The labels at which a thread has a block in hand.
InHand == {"load", "push", "collect"}

\* Who owns heaps and segments: typed, and of no importance here.
OwnersTyped ==
    /\ heapThread \in [Heap -> Thread \cup {NoThread}]
    /\ threadId \in [Segment -> Thread \cup {NoThread}]
    /\ abandoned \subseteq Segment

\* The step leaves t at c.
Leaves(t, c) ==
    c \in Control /\ Placed(c) /\ pc' = [pc EXCEPT ![t] = c]

\* At c, t carries no block it did not carry, and none of gone.
Carries(t, c, gone) ==
    /\ c.taken \subseteq pc[t].taken \ gone
    /\ c.at \in InHand => /\ pc[t].at \in InHand /\ c.block = pc[t].block
                          /\ c.block \notin gone

\* The blocks of gone are on no delayed list and with no thread but t.
OnlyWith(t, gone) ==
    /\ \A h \in Heap : delayed[h] \cap gone = {}
    /\ \A u \in Thread : u # t => Carried(u) \cap gone = {}

\* The step makes page p pg and leaves the others alone.
Becomes(p, pg) == Good(p, pg) /\ page' = [page EXCEPT ![p] = pg]

\* A step of t that puts the blocks of gone back into a page, or that loses
\* them, and adds no block anywhere.
LEMMA KeptBy ==
    ASSUME IInv, NEW t \in Thread, NEW c, Leaves(t, c), OwnersTyped',
           NEW gone \in SUBSET Block, OnlyWith(t, gone), Carries(t, c, gone),
           page' \in [Page -> PageRecord], PagesOK',
           \A p \in Page : Out(page[p]) \ gone \subseteq Out(page'[p]),
           delayed' \in [Heap -> SUBSET Block],
           \A h \in Heap : delayed'[h] \subseteq delayed[h],
           live' \subseteq live \ gone
    PROVE  IInv'
<1>1. TypeOK'
  BY DEF IInv, TypeOK, Leaves, OwnersTyped
<1>2. \A u \in Thread : /\ Hand(u)' \subseteq Hand(u) \ gone
                        /\ pc'[u].taken \subseteq pc[u].taken \ gone
  <2> SUFFICES ASSUME NEW u \in Thread
               PROVE  /\ Hand(u)' \subseteq Hand(u) \ gone
                      /\ pc'[u].taken \subseteq pc[u].taken \ gone
    OBVIOUS
  <2>1. CASE u = t
    BY <2>1 DEF IInv, TypeOK, Hand, InHand, Leaves, Carries
  <2>2. CASE u # t
    BY <2>2 DEF IInv, TypeOK, Hand, Carried, Leaves, OnlyWith
  <2> QED
    BY <2>1, <2>2
<1>3. \A h \in Heap : delayed'[h] \subseteq delayed[h] \ gone
  BY DEF OnlyWith
<1>4. Exclusive'
  BY <1>1, <1>2, <1>3, Kept
<1> QED
  BY <1>1, <1>4 DEF IInv

\* A step that touches no page and adds no block to a list.
LEMMA OnlyMoves ==
    ASSUME IInv, NEW t \in Thread, NEW c, Leaves(t, c), OwnersTyped',
           Carries(t, c, {}), UNCHANGED <<page, live>>,
           delayed' \in [Heap -> SUBSET Block],
           \A h \in Heap : delayed'[h] \subseteq delayed[h]
    PROVE  IInv'
<1>1. PagesOK' /\ page' \in [Page -> PageRecord]
  BY DEF IInv, TypeOK, Exclusive, PagesOK
<1>2. {} \in SUBSET Block /\ OnlyWith(t, {})
  BY DEF OnlyWith
<1> QED
  BY <1>1, <1>2, KeptBy

\* A step that changes one page, and takes back into it the blocks of gone.
LEMMA OnePage ==
    ASSUME IInv, NEW t \in Thread, NEW c, Leaves(t, c), OwnersTyped',
           NEW gone \in SUBSET Block, OnlyWith(t, gone), Carries(t, c, gone),
           NEW p \in Page, NEW pg, Becomes(p, pg),
           Out(pg) = Out(page[p]) \ gone,
           UNCHANGED delayed, live' = live \ gone
    PROVE  IInv'
<1>1. page' \in [Page -> PageRecord] /\ PagesOK'
  BY DEF IInv, TypeOK, Exclusive, PagesOK, Good, Becomes
<1>2. \A q \in Page : Out(page[q]) \ gone \subseteq Out(page'[q])
  BY DEF IInv, TypeOK, Becomes
<1>3. /\ delayed' \in [Heap -> SUBSET Block]
      /\ \A h \in Heap : delayed'[h] \subseteq delayed[h]
  BY DEF IInv, TypeOK
<1> QED
  BY <1>1, <1>2, <1>3, KeptBy

\* The same when nothing comes back.
LEMMA OnePageSame ==
    ASSUME IInv, NEW t \in Thread, NEW c, Leaves(t, c), OwnersTyped',
           Carries(t, c, {}), NEW p \in Page, NEW pg, Becomes(p, pg),
           Out(pg) = Out(page[p]), UNCHANGED <<delayed, live>>
    PROVE  IInv'
<1>1. {} \in SUBSET Block /\ OnlyWith(t, {})
  BY DEF OnlyWith
<1>2. Out(pg) = Out(page[p]) \ {} /\ live' = live \ {}
  OBVIOUS
<1> QED
  BY <1>1, <1>2, OnePage

\* Settle changes one page, and segments only.
LEMMA Settled ==
    ASSUME IInv, NEW p \in Page, NEW pg, Settle(p, pg), UNCHANGED heapThread
    PROVE  page' = [page EXCEPT ![p] = pg] /\ OwnersTyped'
<1>1. SegmentOf[p] \in Segment
  BY ThreadFreeAssumption
<1> QED
  BY <1>1 DEF Settle, IInv, TypeOK, OwnersTyped

\* A block the program holds is nowhere else.
LEMMA LiveOnly ==
    ASSUME IInv, NEW b \in live, NEW t \in Thread
    PROVE  /\ PageOf[b] \in Page /\ b \in Block /\ b \in Out(page[PageOf[b]])
           /\ OnlyWith(t, {b}) /\ b \notin Carried(t)
<1>1. b \in Block /\ PageOf[b] \in Page
  BY ThreadFreeAssumption DEF IInv, TypeOK
<1>2. \A u \in Thread : b \notin Carried(u)
  BY DEF IInv, Exclusive, AwayOnce
<1>3. \A h \in Heap : b \notin delayed[h]
  BY DEF IInv, Exclusive, AwayOnce
<1> QED
  BY <1>1, <1>2, <1>3 DEF IInv, Exclusive, AwayIsOut, OnlyWith

\* A step that leaves t where it is.
LEMMA StaysPut ==
    ASSUME IInv, NEW t \in Thread, UNCHANGED pc
    PROVE  /\ Leaves(t, pc[t]) /\ Carries(t, pc[t], {})
           /\ \A b : b \notin Carried(t) => Carries(t, pc[t], {b})
  BY DEF IInv, TypeOK, Leaves, Carries, Carried, Hand, InHand

\* A block is with the program, on a delayed list or with a thread.
Away(b) ==
    \/ b \in live
    \/ \E h \in Heap : b \in delayed[h]
    \/ \E u \in Thread : b \in Carried(u)

\* A step that moves blocks between these places.
LEMMA Rearranged ==
    ASSUME IInv, TypeOK', PagesOK', AwayOnce',
           \A q \in Page : Out(page[q]) \subseteq Out(page'[q]),
           \A b : Away(b)' => Away(b)
    PROVE  IInv'
<1>1. \A b : Away(b) => b \in Block /\ b \in Out(page[PageOf[b]])
  BY DEF IInv, TypeOK, Exclusive, AwayIsOut, Away, Carried, Hand, Placed, Control
<1>2. \A b : Away(b) => b \in Out(page'[PageOf[b]])
  BY <1>1, ThreadFreeAssumption
<1>3. AwayIsOut'
  BY <1>2 DEF AwayIsOut, Away
<1> QED
  BY <1>3 DEF IInv, Exclusive

\* Where every thread's blocks are when the step only moves t.
LEMMA OthersStay ==
    ASSUME IInv, NEW t \in Thread, NEW c, Leaves(t, c)
    PROVE  /\ pc'[t] = c
           /\ c.at \in InHand => Hand(t)' = {c.block}
           /\ c.at \notin InHand => Hand(t)' = {} /\ Carried(t)' = c.taken
           /\ Carried(t)' = c.taken \cup Hand(t)'
           /\ \A u \in Thread : u # t =>
                /\ Carried(u)' = Carried(u) /\ Hand(u)' = Hand(u)
                /\ pc'[u].taken = pc[u].taken
  BY DEF IInv, TypeOK, Leaves, Carried, Hand, InHand

\* A thread between calls carries nothing.
LEMMA IdleControl ==
    Idle \in Control /\ Placed(Idle) /\ Idle.taken = {} /\ Idle.at = "idle"
  BY DEF Idle, Control, Placed, Label, Op

-----------------------------------------------------------------------------
(* One lemma per action that moves a block.                                *)

LEMMA FreeOwnedStep ==
    ASSUME IInv, NEW t \in Thread, NEW b \in Block, FreeOwned(t, b)
    PROVE  IInv'
<1> DEFINE p   == PageOf[b]
           new == Rested(p, FreedLocally(page[p], b))
<1>1. /\ b \in live /\ Settle(p, new) /\ live' = live \ {b}
      /\ UNCHANGED <<delayed, heapThread, pc>>
  BY DEF FreeOwned
<1>2. p \in Page /\ b \in Out(page[p])
  BY <1>1, LiveOnly
<1>3. Good(p, new) /\ Out(new) = Out(page[p]) \ {b}
  BY <1>2, PagesGood, FreedLocallyGood, RestedGood
<1> HIDE DEF p, new
<1>4. Becomes(p, new) /\ OwnersTyped'
  BY <1>1, <1>2, <1>3, Settled DEF Becomes
<1>5. OnlyWith(t, {b}) /\ Leaves(t, pc[t]) /\ Carries(t, pc[t], {b})
  BY <1>1, LiveOnly, StaysPut
<1>6. {b} \in SUBSET Block
  OBVIOUS
<1> QED
  BY <1>1, <1>2, <1>3, <1>4, <1>5, <1>6, OnePage

LEMMA FreeMtStep ==
    ASSUME IInv, NEW t \in Thread, NEW b \in Block, FreeMt(t, b)
    PROVE  IInv'
<1> DEFINE p    == PageOf[b]
           push == [page[p] EXCEPT !.thread_free = @ \cup {b}]
           c    == [Idle EXCEPT !.at = "load", !.op = "free", !.block = b]
<1>1. /\ b \in live /\ live' = live \ {b} /\ pc[t] = Idle
      /\ UNCHANGED <<delayed, heapThread, threadId, abandoned>>
  BY DEF FreeMt, Starts
<1>2. p \in Page /\ b \in Out(page[p]) /\ OnlyWith(t, {b}) /\ {b} \in SUBSET Block
  BY <1>1, LiveOnly
<1>3. OwnersTyped'
  BY <1>1 DEF IInv, TypeOK, OwnersTyped
<1>4. CASE page' = [page EXCEPT ![p] = push] /\ UNCHANGED pc
  <2>1. Good(p, push) /\ Out(push) = Out(page[p]) \ {b}
    <3>1. page[p] \in PageRecord /\ PageOK(p, page[p])
      BY <1>2, PagesGood DEF Good
    <3>2. push \in PageRecord
      BY <3>1 DEF PageRecord
    <3>3. /\ push.capacity = page[p].capacity /\ push.free = page[p].free
          /\ push.local_free = page[p].local_free /\ push.used = page[p].used
          /\ push.thread_free = page[p].thread_free \cup {b}
      BY <3>1 DEF PageRecord
    <3> QED
      BY <1>2, <3>1, <3>2, <3>3 DEF Good, PageOK, Out
  <2>2. Leaves(t, pc[t]) /\ Carries(t, pc[t], {b})
    BY <1>1, <1>4, LiveOnly, StaysPut
  <2>3. Becomes(p, push)
    BY <1>4, <2>1 DEF Becomes
  <2> HIDE DEF p, push
  <2> QED
    BY <1>1, <1>2, <1>3, <2>1, <2>2, <2>3, OnePage
<1>5. CASE /\ page' = [page EXCEPT ![p].flag = "freeing"]
           /\ pc' = [pc EXCEPT ![t].at = "load", ![t].op = "free",
                               ![t].block = b]
  <2> DEFINE pg == [page[p] EXCEPT !.flag = "freeing"]
  <2>1. Good(p, pg) /\ Out(pg) = Out(page[p])
    <3>1. Good(p, page[p]) /\ "freeing" \in Flag
      BY <1>2, PagesGood DEF Flag
    <3> QED
      BY <1>2, <3>1, FlagGood
  <2>2. page' = [page EXCEPT ![p] = pg]
    BY <1>5
  <2>3. pc' = [pc EXCEPT ![t] = c]
    BY <1>1, <1>5
  <2>4. /\ c \in Control /\ Placed(c) /\ c.at = "load"
        /\ c.block = b /\ c.taken = {}
    BY DEF Idle, Control, Placed, Label, Op, AllCalls
  <2> HIDE DEF c, pg, p
  <2>5. page' \in [Page -> PageRecord] /\ PagesOK'
        /\ \A q \in Page : Out(page[q]) \subseteq Out(page'[q])
    BY <1>2, <2>1, <2>2 DEF IInv, TypeOK, Exclusive, PagesOK, Good
  <2>6. TypeOK'
    BY <1>1, <1>3, <2>3, <2>4, <2>5 DEF IInv, TypeOK, OwnersTyped
  <2>7. Leaves(t, c)
    BY <2>3, <2>4 DEF Leaves
  <2>8. /\ Carried(t)' = {b} /\ Hand(t)' = {b} /\ pc'[t].taken = {}
        /\ \A u \in Thread : u # t =>
             /\ Carried(u)' = Carried(u) /\ Hand(u)' = Hand(u)
             /\ pc'[u].taken = pc[u].taken
    BY <2>4, <2>7, OthersStay DEF InHand
  <2>9. AwayOnce'
    BY <1>1, <1>2, <2>8 DEF IInv, Exclusive, AwayOnce, OnlyWith
  <2>10. \A d : Away(d)' => Away(d)
    BY <1>1, <2>8 DEF Away
  <2> QED
    BY <2>5, <2>6, <2>9, <2>10, Rearranged
<1> QED
  BY <1>4, <1>5 DEF FreeMt

\* A block in hand, or one a thread took off a delayed list, is nowhere else.
LEMMA CarriedOnly ==
    ASSUME IInv, NEW t \in Thread, NEW b \in Carried(t)
    PROVE  /\ PageOf[b] \in Page /\ b \in Block /\ b \in Out(page[PageOf[b]])
           /\ OnlyWith(t, {b}) /\ b \notin live
           /\ {b} \cap Hand(t) \cap pc[t].taken = {}
<1>1. b \in Block /\ PageOf[b] \in Page
  BY ThreadFreeAssumption DEF IInv, TypeOK, Carried, Hand, Placed, Control
<1>2. \A u \in Thread : u # t => b \notin Carried(u)
  BY DEF IInv, Exclusive, AwayOnce
<1>3. \A h \in Heap : b \notin delayed[h]
  BY DEF IInv, Exclusive, AwayOnce
<1> QED
  BY <1>1, <1>2, <1>3 DEF IInv, Exclusive, AwayIsOut, AwayOnce, OnlyWith

LEMMA PushDelayedStep ==
    ASSUME IInv, NEW t \in Thread, PushDelayed(t)
    PROVE  IInv'
<1> DEFINE b == pc[t].block
           h == pc[t].heap
           c == [pc[t] EXCEPT !.at = "reset"]
<1>1. /\ pc[t].at = "push" /\ delayed' = [delayed EXCEPT ![h] = @ \cup {b}]
      /\ pc' = [pc EXCEPT ![t] = c]
      /\ UNCHANGED <<page, heapThread, threadId, abandoned, live>>
  BY DEF PushDelayed
<1>2. b \in Block /\ h \in Heap /\ b \in Hand(t) /\ b \in Carried(t)
  BY <1>1 DEF IInv, TypeOK, Placed, Hand, Carried
<1>3. /\ c \in Control /\ Placed(c) /\ c.at = "reset"
      /\ c.taken = pc[t].taken
  BY <1>1, InControl DEF Control, Placed, Label
<1>4. b \notin pc[t].taken /\ b \notin live /\ OnlyWith(t, {b})
  BY <1>2, CarriedOnly
<1> HIDE DEF b, h, c
<1>5. Leaves(t, c)
  BY <1>1, <1>3 DEF Leaves
<1>6. /\ Hand(t)' = {} /\ Carried(t)' = pc[t].taken /\ pc'[t].taken = pc[t].taken
      /\ \A u \in Thread : u # t =>
           /\ Carried(u)' = Carried(u) /\ Hand(u)' = Hand(u)
           /\ pc'[u].taken = pc[u].taken
  <2>1. c.at \notin InHand
    BY <1>3 DEF InHand
  <2> QED
    BY <1>3, <1>5, <2>1, OthersStay
<1>7. /\ delayed' \in [Heap -> SUBSET Block]
      /\ delayed'[h] = delayed[h] \cup {b}
      /\ \A g \in Heap : g # h => delayed'[g] = delayed[g]
  BY <1>1, <1>2 DEF IInv, TypeOK
<1>8. TypeOK' /\ PagesOK'
  BY <1>1, <1>3, <1>7 DEF IInv, TypeOK, Exclusive, PagesOK
<1>9. AwayOnce'
  <2>1. \A g \in Heap : live' \cap delayed'[g] = {}
    BY <1>1, <1>4, <1>7 DEF IInv, Exclusive, AwayOnce
  <2>2. \A u \in Thread : live' \cap Carried(u)' = {} /\ Hand(u)' \cap pc'[u].taken = {}
    BY <1>1, <1>6 DEF IInv, Exclusive, AwayOnce, Carried
  <2>3. \A g, k \in Heap : g # k => delayed'[g] \cap delayed'[k] = {}
    BY <1>4, <1>7 DEF IInv, Exclusive, AwayOnce, OnlyWith
  <2>4. \A g \in Heap, u \in Thread : delayed'[g] \cap Carried(u)' = {}
    BY <1>4, <1>6, <1>7 DEF IInv, Exclusive, AwayOnce, OnlyWith, Carried
  <2>5. \A u, v \in Thread : u # v => Carried(u)' \cap Carried(v)' = {}
    BY <1>6 DEF IInv, Exclusive, AwayOnce, Carried
  <2> QED
    BY <2>1, <2>2, <2>3, <2>4, <2>5 DEF AwayOnce
<1>10. \A d : Away(d)' => Away(d)
  BY <1>1, <1>2, <1>6, <1>7 DEF Away, Carried
<1> QED
  BY <1>1, <1>8, <1>9, <1>10, Rearranged

LEMMA ReinsertStep ==
    ASSUME IInv, NEW t \in Thread, NEW b \in Block, Reinsert(t, b)
    PROVE  IInv'
<1> DEFINE h    == pc[t].heap
           left == pc[t].taken \ {b}
           c    == [pc[t] EXCEPT !.taken = left, !.again = TRUE]
<1>1. /\ pc[t].at = "delayed" /\ delayed' = [delayed EXCEPT ![h] = @ \cup {b}]
      /\ pc' = [pc EXCEPT ![t] = c] /\ b \in pc[t].taken
      /\ UNCHANGED <<page, heapThread, threadId, abandoned, live>>
  BY DEF Reinsert
<1>2. h \in Heap /\ b \in Carried(t) /\ left \in SUBSET Block
      /\ Carried(t) = pc[t].taken
  BY <1>1 DEF IInv, TypeOK, Placed, Hand, Carried, Control
<1>3. b \notin live /\ OnlyWith(t, {b}) /\ b \notin left
  BY <1>2, CarriedOnly
<1> HIDE DEF h, left
<1>4. c \in Control /\ Placed(c) /\ c.at = "delayed" /\ c.taken = left
  BY <1>1, <1>2, InControl DEF Control, Placed
<1> HIDE DEF c
<1>5. Leaves(t, c)
  BY <1>1, <1>4 DEF Leaves
<1>6. /\ Hand(t)' = {} /\ Carried(t)' = left /\ pc'[t].taken = left
      /\ \A u \in Thread : u # t =>
           /\ Carried(u)' = Carried(u) /\ Hand(u)' = Hand(u)
           /\ pc'[u].taken = pc[u].taken
  <2>1. c.at \notin InHand
    BY <1>4 DEF InHand
  <2> QED
    BY <1>4, <1>5, <2>1, OthersStay
<1>7. /\ delayed' \in [Heap -> SUBSET Block]
      /\ delayed'[h] = delayed[h] \cup {b}
      /\ \A g \in Heap : g # h => delayed'[g] = delayed[g]
  BY <1>1, <1>2 DEF IInv, TypeOK
<1>8. TypeOK' /\ PagesOK'
  BY <1>1, <1>4, <1>7 DEF IInv, TypeOK, Exclusive, PagesOK
<1>9. AwayOnce'
  <2>1. \A g \in Heap : live' \cap delayed'[g] = {}
    BY <1>1, <1>3, <1>7 DEF IInv, Exclusive, AwayOnce
  <2>2. \A u \in Thread : live' \cap Carried(u)' = {} /\ Hand(u)' \cap pc'[u].taken = {}
    BY <1>1, <1>2, <1>6 DEF IInv, Exclusive, AwayOnce, left
  <2>3. \A g, k \in Heap : g # k => delayed'[g] \cap delayed'[k] = {}
    BY <1>3, <1>7 DEF IInv, Exclusive, AwayOnce, OnlyWith
  <2>4. \A g \in Heap, u \in Thread : delayed'[g] \cap Carried(u)' = {}
    BY <1>2, <1>3, <1>6, <1>7 DEF IInv, Exclusive, AwayOnce, OnlyWith, left
  <2>5. \A u, v \in Thread : u # v => Carried(u)' \cap Carried(v)' = {}
    BY <1>2, <1>6 DEF IInv, Exclusive, AwayOnce, left
  <2> QED
    BY <2>1, <2>2, <2>3, <2>4, <2>5 DEF AwayOnce
<1>10. \A d : Away(d)' => Away(d)
  BY <1>1, <1>2, <1>6, <1>7 DEF Away, left
<1> QED
  BY <1>1, <1>8, <1>9, <1>10, Rearranged

\* Allowing delayed frees again changes the flag of a page at most.
LEMMA UsingDelayedGood ==
    ASSUME IInv, NEW p \in Page
    PROVE  LET pg == UsingDelayed(page[p])
           IN  Good(p, pg) /\ Out(pg) = Out(page[p])
<1>1. Good(p, page[p]) /\ page[p].flag \in Flag /\ "use" \in Flag
  BY PagesGood DEF Good, PageRecord, Flag
<1>2. CASE page[p].flag = "never"
  BY <1>1, <1>2, FlagGood DEF UsingDelayed
<1>3. CASE page[p].flag # "never"
  BY <1>1, <1>3, FlagGood DEF UsingDelayed
<1> QED
  BY <1>2, <1>3

LEMMA TryUseStep ==
    ASSUME IInv, NEW t \in Thread, NEW b \in Block, TryUse(t, b)
    PROVE  IInv'
<1> DEFINE p    == PageOf[b]
           pg   == UsingDelayed(page[p])
           left == pc[t].taken \ {b}
           c    == [pc[t] EXCEPT !.taken = left, !.at = "collect", !.block = b]
<1>1. /\ pc[t].at = "delayed" /\ page' = [page EXCEPT ![p] = pg]
      /\ pc' = [pc EXCEPT ![t] = c] /\ b \in pc[t].taken
      /\ UNCHANGED <<delayed, heapThread, threadId, abandoned, live>>
  BY DEF TryUse
<1>2. pc[t].heap \in Heap /\ b \in Carried(t) /\ left \in SUBSET Block
      /\ Carried(t) = pc[t].taken
  BY <1>1 DEF IInv, TypeOK, Placed, Hand, Carried, Control
<1>3. p \in Page /\ b \notin live /\ OnlyWith(t, {b}) /\ b \notin left
  BY <1>2, CarriedOnly
<1>4. Good(p, pg) /\ Out(pg) = Out(page[p])
  BY <1>3, UsingDelayedGood
<1> HIDE DEF left, p, pg
<1>5. /\ c \in Control /\ Placed(c) /\ c.at = "collect" /\ c.taken = left
      /\ c.block = b
  <2>1. pc[t] \in Control /\ pc[t].at = "delayed" /\ "collect" \in Label
    BY <1>1, InControl DEF Label
  <2>2. c \in Control
    BY <1>2, <2>1 DEF Control
  <2>3. c.at = "collect" /\ c.taken = left /\ c.block = b /\ c.heap = pc[t].heap
    BY <2>1 DEF Control
  <2> QED
    BY <1>2, <2>2, <2>3 DEF Placed
<1> HIDE DEF c
<1>6. Leaves(t, c) /\ c.at \in InHand
  BY <1>1, <1>5 DEF Leaves, InHand
<1>7. /\ Hand(t)' = {b} /\ Carried(t)' = left \cup {b} /\ pc'[t].taken = left
      /\ \A u \in Thread : u # t =>
           /\ Carried(u)' = Carried(u) /\ Hand(u)' = Hand(u)
           /\ pc'[u].taken = pc[u].taken
  BY <1>5, <1>6, OthersStay
<1>8. left \cup {b} = Carried(t)
  BY <1>1, <1>2 DEF left
<1>9. page' \in [Page -> PageRecord] /\ PagesOK'
      /\ \A q \in Page : Out(page[q]) \subseteq Out(page'[q])
  BY <1>1, <1>3, <1>4 DEF IInv, TypeOK, Exclusive, PagesOK, Good
<1>10. TypeOK'
  BY <1>1, <1>5, <1>9 DEF IInv, TypeOK
<1>11. AwayOnce'
  <2>1. \A u \in Thread : Carried(u)' = Carried(u)
    BY <1>7, <1>8
  <2>2. \A u \in Thread : Hand(u)' \cap pc'[u].taken = {}
    BY <1>3, <1>7 DEF IInv, Exclusive, AwayOnce
  <2> QED
    BY <1>1, <2>1, <2>2 DEF IInv, Exclusive, AwayOnce
<1>12. \A d : Away(d)' => Away(d)
  BY <1>1, <1>7, <1>8 DEF Away
<1> QED
  BY <1>9, <1>10, <1>11, <1>12, Rearranged

LEMMA FreeDelayedStep ==
    ASSUME IInv, NEW t \in Thread, FreeDelayed(t)
    PROVE  IInv'
<1> DEFINE b   == pc[t].block
           p   == PageOf[b]
           new == Rested(p, FreedLocally(Collected(page[p], FALSE), b))
           c   == [pc[t] EXCEPT !.at = "delayed", !.block = NoBlock]
<1>1. /\ pc[t].at = "collect" /\ Settle(p, new) /\ pc' = [pc EXCEPT ![t] = c]
      /\ UNCHANGED <<delayed, heapThread, live>>
  BY DEF FreeDelayed
<1>2. b \in Carried(t) /\ Hand(t) = {b}
  BY <1>1 DEF Hand, Carried
<1>3. /\ p \in Page /\ b \in Block /\ b \in Out(page[p])
      /\ b \notin live /\ OnlyWith(t, {b}) /\ b \notin pc[t].taken
  BY <1>2, CarriedOnly
<1>4. Good(p, new) /\ Out(new) = Out(page[p]) \ {b}
  <2> DEFINE pg == Collected(page[p], FALSE)
  <2>1. Good(p, pg) /\ Out(pg) = Out(page[p])
    BY <1>3, PagesGood, CollectedGood
  <2> HIDE DEF pg, b, p
  <2>2. Good(p, FreedLocally(pg, b)) /\ Out(FreedLocally(pg, b)) = Out(pg) \ {b}
    BY <1>3, <2>1, FreedLocallyGood
  <2> QED
    BY <1>3, <2>1, <2>2, RestedGood DEF pg
<1>5. c \in Control /\ Placed(c) /\ c.at = "delayed" /\ c.taken = pc[t].taken
  <2>1. pc[t] \in Control /\ Placed(pc[t]) /\ pc[t].at = "collect"
    BY <1>1, InControl
  <2>2. c \in Control /\ c.at = "delayed"
    BY <2>1 DEF Control, Label
  <2> QED
    BY <2>1, <2>2 DEF Control, Placed
<1> HIDE DEF p, new, c, b
<1>6. Becomes(p, new) /\ OwnersTyped'
  BY <1>1, <1>3, <1>4, Settled DEF Becomes
<1>7. Leaves(t, c) /\ Carries(t, c, {b})
  BY <1>1, <1>3, <1>5 DEF Leaves, Carries, InHand
<1>8. {b} \in SUBSET Block /\ live' = live \ {b}
  BY <1>1, <1>3
<1> QED
  BY <1>1, <1>3, <1>4, <1>6, <1>7, <1>8, OnePage

\* Taking over a delayed list.
LEMMA TakeDelayedStep ==
    ASSUME IInv, NEW t \in Thread, NEW h \in Heap, NEW op \in Op,
           TakeDelayed(t, h, op),
           UNCHANGED <<page, heapThread, threadId, abandoned, live>>
    PROVE  IInv'
<1> DEFINE took == delayed[h]
           c == [Idle EXCEPT !.at = "delayed", !.op = op, !.heap = h,
                             !.taken = took]
<1>1. pc' = [pc EXCEPT ![t] = c] /\ delayed' = [delayed EXCEPT ![h] = {}]
  BY DEF TakeDelayed
<1>2. took \in SUBSET Block
  BY DEF IInv, TypeOK
<1> HIDE DEF took
<1>3. /\ c \in Control /\ Placed(c) /\ c.at = "delayed" /\ c.taken = took
  BY <1>2 DEF Idle, Control, Placed, Label
<1> HIDE DEF c
<1>4. Leaves(t, c) /\ c.at \notin InHand
  BY <1>1, <1>3 DEF Leaves, InHand
<1>5. /\ Hand(t)' = {} /\ Carried(t)' = took /\ pc'[t].taken = took
      /\ \A u \in Thread : u # t =>
           /\ Carried(u)' = Carried(u) /\ Hand(u)' = Hand(u)
           /\ pc'[u].taken = pc[u].taken
  BY <1>3, <1>4, OthersStay
<1>6. /\ delayed' \in [Heap -> SUBSET Block] /\ delayed'[h] = {}
      /\ \A g \in Heap : g # h => delayed'[g] = delayed[g]
  BY <1>1 DEF IInv, TypeOK
<1>7. TypeOK' /\ PagesOK'
  BY <1>1, <1>3, <1>6 DEF IInv, TypeOK, Exclusive, PagesOK
<1>8. AwayOnce'
  <2>1. \A g \in Heap : live' \cap delayed'[g] = {}
    BY <1>6 DEF IInv, Exclusive, AwayOnce
  <2>2. \A u \in Thread : live' \cap Carried(u)' = {} /\ Hand(u)' \cap pc'[u].taken = {}
    BY <1>5 DEF IInv, Exclusive, AwayOnce, took
  <2>3. \A g, k \in Heap : g # k => delayed'[g] \cap delayed'[k] = {}
    BY <1>6 DEF IInv, Exclusive, AwayOnce
  <2>4. \A g \in Heap, u \in Thread : delayed'[g] \cap Carried(u)' = {}
    BY <1>5, <1>6 DEF IInv, Exclusive, AwayOnce, took
  <2>5. \A u, v \in Thread : u # v => Carried(u)' \cap Carried(v)' = {}
    BY <1>5 DEF IInv, Exclusive, AwayOnce, took
  <2> QED
    BY <2>1, <2>2, <2>3, <2>4, <2>5 DEF AwayOnce
<1>9. \A d : Away(d)' => Away(d)
  BY <1>5, <1>6 DEF Away, took
<1> QED
  BY <1>7, <1>8, <1>9, Rearranged

\* A heap that goes takes nothing a thread still needs.
LEMMA DropHeapStep ==
    ASSUME IInv, NEW t \in Thread, NEW h \in Heap, DropHeap(t, h),
           UNCHANGED <<page, threadId, abandoned, live>>
    PROVE  IInv'
<1>1. Leaves(t, Idle) /\ Carries(t, Idle, {})
  BY IdleControl DEF DropHeap, Leaves, Carries, InHand
<1>2. OwnersTyped'
  BY DEF DropHeap, IInv, TypeOK, OwnersTyped
<1>3. /\ delayed' \in [Heap -> SUBSET Block]
      /\ \A g \in Heap : delayed'[g] \subseteq delayed[g]
  BY DEF DropHeap, IInv, TypeOK
<1> QED
  BY <1>1, <1>2, <1>3, OnlyMoves

-----------------------------------------------------------------------------
(* malloc.                                                                 *)

\* A page handed b out: it was on the free list, so nobody had it.
LEMMA Allocates ==
    ASSUME IInv, NEW t \in Thread, NEW c, Leaves(t, c), OwnersTyped',
           Carries(t, c, {}), NEW p \in Page, NEW pg, Good(p, pg),
           Out(pg) = Out(page[p]), NEW b \in pg.free,
           page' = [page EXCEPT ![p] = Popped(pg, b)],
           live' = live \cup {b}, UNCHANGED delayed
    PROVE  IInv' /\ b \in Stock
<1>1. /\ Good(p, Popped(pg, b)) /\ Out(Popped(pg, b)) = Out(page[p]) \cup {b}
      /\ PageOf[b] = p /\ b \in Block /\ b \notin Out(page[p])
  BY PoppedGood DEF BlocksOf
<1>2. ~Away(b)
  BY <1>1 DEF Away, IInv, Exclusive, AwayIsOut
<1>3. page' \in [Page -> PageRecord] /\ PagesOK'
      /\ \A q \in Page : Out(page[q]) \subseteq Out(page'[q])
  BY <1>1 DEF IInv, TypeOK, Exclusive, PagesOK, Good
<1>4. TypeOK'
  BY <1>1, <1>3 DEF IInv, TypeOK, Leaves, OwnersTyped
<1>5. \A u \in Thread : /\ Carried(u)' \subseteq Carried(u)
                        /\ Hand(u)' \subseteq Hand(u)
                        /\ pc'[u].taken \subseteq pc[u].taken
  <2> SUFFICES ASSUME NEW u \in Thread
               PROVE  /\ Hand(u)' \subseteq Hand(u)
                      /\ pc'[u].taken \subseteq pc[u].taken
    BY DEF Carried
  <2>1. CASE u = t
    BY <2>1 DEF IInv, TypeOK, Hand, InHand, Leaves, Carries
  <2>2. CASE u # t
    BY <2>2 DEF IInv, TypeOK, Hand, Leaves
  <2> QED
    BY <2>1, <2>2
<1>6. AwayOnce'
  BY <1>2, <1>5 DEF IInv, Exclusive, AwayOnce, Away
<1>7. \A d : Away(d)' => d = b \/ Away(d)
  BY <1>5 DEF Away
<1>8. \A d : Away(d) => d \in Block /\ d \in Out(page[PageOf[d]])
  BY DEF IInv, TypeOK, Exclusive, AwayIsOut, Away, Carried, Hand, Placed, Control
<1>9. b \in Out(page'[PageOf[b]])
  BY <1>1 DEF IInv, TypeOK
<1>10. AwayIsOut'
  <2>1. \A d : Away(d)' => d \in Out(page'[PageOf[d]])
    BY <1>3, <1>7, <1>8, <1>9, ThreadFreeAssumption
  <2> QED
    BY <2>1 DEF AwayIsOut, Away
<1> QED
  BY <1>1, <1>2, <1>3, <1>4, <1>6, <1>10 DEF IInv, Exclusive, Away, Stock

\* What a step is to BlockPool: nothing, a malloc or a free.
PoolStep ==
    \/ live' = live
    \/ \E b \in Stock : live' = live \cup {b}
    \/ \E b \in live : live' = live \ {b}

LEMMA MallocStep ==
    ASSUME IInv, NEW t \in Thread, NEW p \in Page, NEW b \in Block,
           Malloc(t, p, b)
    PROVE  IInv' /\ PoolStep
<1>1. /\ b \in page[p].free /\ page' = [page EXCEPT ![p] = Popped(page[p], b)]
      /\ live' = live \cup {b} /\ UNCHANGED delayed
  BY DEF Malloc
<1>2. OwnersTyped' /\ Leaves(t, pc[t]) /\ Carries(t, pc[t], {})
  BY StaysPut DEF Malloc, IInv, TypeOK, OwnersTyped
<1>3. Good(p, page[p])
  BY PagesGood
<1>4. IInv' /\ b \in Stock
  BY <1>1, <1>2, <1>3, Allocates
<1> QED
  BY <1>1, <1>4 DEF PoolStep

\* The end of a search.
LEMMA PopFromStep ==
    ASSUME IInv, NEW t \in Thread, NEW p \in Page, NEW pg, Good(p, pg),
           Out(pg) = Out(page[p]), PopFrom(t, p, pg), OwnersTyped',
           UNCHANGED delayed
    PROVE  IInv' /\ PoolStep
<1>1. PICK b \in pg.free : /\ page' = [page EXCEPT ![p] = Popped(pg, b)]
                           /\ live' = live \cup {b}
                           /\ pc' = [pc EXCEPT ![t] = Idle]
  BY DEF PopFrom
<1>2. Leaves(t, Idle) /\ Carries(t, Idle, {})
  BY <1>1, IdleControl DEF Leaves, Carries, InHand
<1>3. IInv' /\ b \in Stock
  BY <1>1, <1>2, Allocates
<1> QED
  BY <1>1, <1>3 DEF PoolStep

LEMMA FindPageStep ==
    ASSUME IInv, NEW t \in Thread, NEW p \in Page, FindPage(t, p)
    PROVE  IInv' /\ PoolStep
<1> DEFINE pg  == Collected(page[p], FALSE)
           new == BlocksOf(p) \ pg.capacity
           c   == [pc[t] EXCEPT !.at = "full", !.page = p]
<1>1. pc[t].at = "find" /\ UNCHANGED <<delayed, heapThread, threadId, abandoned>>
  BY DEF FindPage, Searching
<1>2. Good(p, pg) /\ Out(pg) = Out(page[p])
  BY PagesGood, CollectedGood
<1>3. OwnersTyped'
  BY <1>1 DEF IInv, TypeOK, OwnersTyped
<1>4. CASE PopFrom(t, p, pg)
  BY <1>1, <1>2, <1>3, <1>4, PopFromStep
<1>5. ASSUME NEW add \in SUBSET new, PopFrom(t, p, Extended(pg, add))
      PROVE  IInv' /\ PoolStep
  <2>1. Good(p, Extended(pg, add)) /\ Out(Extended(pg, add)) = Out(page[p])
    BY <1>2, ExtendedGood
  <2> QED
    BY <1>1, <1>3, <1>5, <2>1, PopFromStep
<1>6. CASE /\ page' = [page EXCEPT ![p] = pg]
           /\ pc' = [pc EXCEPT ![t] = c] /\ UNCHANGED live
  <2>1. /\ c \in Control /\ Placed(c) /\ c.at = "full"
        /\ c.taken = pc[t].taken
    BY <1>1, InControl DEF Control, Placed, Label
  <2> HIDE DEF c, pg
  <2>2. Leaves(t, c) /\ Carries(t, c, {}) /\ Becomes(p, pg)
    BY <1>2, <1>6, <2>1 DEF Leaves, Carries, InHand, Becomes
  <2>3. IInv'
    BY <1>1, <1>2, <1>3, <1>6, <2>2, OnePageSame
  <2> QED
    BY <1>6, <2>3 DEF PoolStep
<1> QED
  BY <1>4, <1>5, <1>6 DEF FindPage

LEMMA FindExtendStep ==
    ASSUME IInv, NEW t \in Thread, NEW p \in Page, FindExtend(t, p)
    PROVE  IInv' /\ PoolStep
<1>1. PICK add \in SUBSET (BlocksOf(p) \ page[p].capacity) :
           PopFrom(t, p, Extended(page[p], add))
  BY DEF FindExtend
<1>2. Good(p, Extended(page[p], add)) /\ Out(Extended(page[p], add)) = Out(page[p])
  BY PagesGood, ExtendedGood
<1>3. OwnersTyped' /\ UNCHANGED delayed
  BY DEF FindExtend, IInv, TypeOK, OwnersTyped
<1> QED
  BY <1>1, <1>2, <1>3, PopFromStep

\* A page that is not in use has no block away, so its blocks can be handed
\* out anew.
LEMMA FindFreshStep ==
    ASSUME IInv, NEW t \in Thread, NEW p \in Page, FindFresh(t, p)
    PROVE  IInv' /\ PoolStep
<1> DEFINE h  == pc[t].heap
           pg == [Unused EXCEPT !.xheap = h]
<1>1. PICK add \in SUBSET BlocksOf(p) : PopFrom(t, p, Extended(pg, add))
  BY DEF FindFresh
<1>2. h \in Heap \cup {NoHeap}
  BY DEF IInv, TypeOK, Control
<1>3. Good(p, pg) /\ Out(pg) = {} /\ pg.capacity = {}
  <2>1. Good(p, Unused) /\ Out(Unused) = {}
    BY UnusedGood
  <2> QED
    BY <1>2, <2>1, XheapGood DEF Unused
<1>4. Good(p, Extended(pg, add)) /\ Out(Extended(pg, add)) = {}
  BY <1>3, ExtendedGood
<1>5. Out(page[p]) = {}
  BY DEF FindFresh, InUse, Out
<1>6. OwnersTyped' /\ UNCHANGED delayed
  BY DEF FindFresh, IInv, TypeOK, OwnersTyped
<1> QED
  BY <1>1, <1>4, <1>5, <1>6, PopFromStep

-----------------------------------------------------------------------------
(* Steps that change one page and move no block out of it or into it.      *)

LEMMA ResetFlagStep ==
    ASSUME IInv, NEW t \in Thread, ResetFlag(t)
    PROVE  IInv'
<1> DEFINE p  == PageOf[pc[t].block]
           pg == [page[p] EXCEPT !.flag = "no"]
<1>1. /\ page' = [page EXCEPT ![p] = pg] /\ pc' = [pc EXCEPT ![t] = Idle]
      /\ UNCHANGED <<delayed, heapThread, threadId, abandoned, live>>
  BY DEF ResetFlag
<1>2. p \in Page
  BY ThreadFreeAssumption DEF ResetFlag, IInv, TypeOK, Placed
<1>3. Good(p, pg) /\ Out(pg) = Out(page[p])
  BY <1>2, PagesGood, FlagGood DEF Flag
<1> HIDE DEF p, pg
<1>4. /\ Becomes(p, pg) /\ OwnersTyped'
      /\ Leaves(t, Idle) /\ Carries(t, Idle, {})
  BY <1>1, <1>3, IdleControl
     DEF Becomes, Leaves, Carries, InHand, OwnersTyped, IInv, TypeOK
<1> QED
  BY <1>1, <1>2, <1>3, <1>4, OnePageSame

LEMMA NeverDelayedStep ==
    ASSUME IInv, NEW t \in Thread, NEW p \in Page, NeverDelayed(t, p)
    PROVE  IInv'
<1> DEFINE pg   == [page[p] EXCEPT !.flag = "never"]
           left == pc[t].todo \ {p}
           c    == [pc[t] EXCEPT !.todo = left]
<1>1. /\ page' = [page EXCEPT ![p] = pg] /\ pc' = [pc EXCEPT ![t] = c]
      /\ pc[t].at = "never"
      /\ UNCHANGED <<delayed, heapThread, threadId, abandoned, live>>
  BY DEF NeverDelayed
<1>2. Good(p, pg) /\ Out(pg) = Out(page[p])
  BY PagesGood, FlagGood DEF Flag
<1>3. left \in SUBSET Page /\ pc[t] \in Control /\ Placed(pc[t])
  BY DEF IInv, TypeOK, Control
<1> HIDE DEF left
<1>4. c \in Control /\ Placed(c) /\ Carries(t, c, {})
  BY <1>1, <1>3 DEF Control, Placed, Carries, InHand
<1> HIDE DEF c, pg
<1>5. Becomes(p, pg) /\ OwnersTyped' /\ Leaves(t, c)
  BY <1>1, <1>2, <1>4 DEF Becomes, Leaves, OwnersTyped, IInv, TypeOK
<1> QED
  BY <1>1, <1>2, <1>4, <1>5, OnePageSame

LEMMA PageCollectStep ==
    ASSUME IInv, NEW t \in Thread, NEW p \in Page, PageCollect(t, p)
    PROVE  IInv'
<1> DEFINE pg   == Collected(page[p], pc[t].op # "collect")
           gone == [pg EXCEPT !.xheap = NoHeap, !.in_full = FALSE]
           new  == IF pg.used = 0 THEN Unused
                   ELSE IF pc[t].op = "done" THEN gone ELSE pg
           left == pc[t].todo \ {p}
           c    == [pc[t] EXCEPT !.todo = left]
<1>1. /\ Settle(p, new) /\ pc' = [pc EXCEPT ![t] = c] /\ pc[t].at = "pages"
      /\ UNCHANGED <<delayed, heapThread, live>>
  BY DEF PageCollect
<1>2. Good(p, pg) /\ Out(pg) = Out(page[p])
  BY PagesGood, CollectedGood
<1>3. Good(p, new) /\ Out(new) = Out(page[p])
  <2> HIDE DEF pg
  <2>1. Good(p, gone) /\ Out(gone) = Out(pg)
    BY <1>2, HeapGood
  <2>2. pg.used = 0 => Good(p, Unused) /\ Out(Unused) = Out(pg)
    BY <1>2, EmptyPage, UnusedGood
  <2> QED
    BY <1>2, <2>1, <2>2
<1>4. left \in SUBSET Page /\ pc[t] \in Control /\ Placed(pc[t])
  BY DEF IInv, TypeOK, Control
<1> HIDE DEF left, new
<1>5. c \in Control /\ Placed(c) /\ Carries(t, c, {})
  BY <1>1, <1>4 DEF Control, Placed, Carries, InHand
<1> HIDE DEF c
<1>6. Becomes(p, new) /\ OwnersTyped' /\ Leaves(t, c)
  BY <1>1, <1>3, <1>5, Settled DEF Becomes, Leaves
<1> QED
  BY <1>1, <1>3, <1>5, <1>6, OnePageSame

LEMMA CheckFreeStep ==
    ASSUME IInv, NEW t \in Thread, NEW p \in Page, CheckFree(t, p)
    PROVE  IInv'
<1> DEFINE pg   == Collected(page[p], FALSE)
           new  == IF pg.used = 0 THEN Unused ELSE pg
           left == pc[t].todo \ {p}
           c    == [pc[t] EXCEPT !.todo = left]
<1>1. /\ page' = [page EXCEPT ![p] = new] /\ pc' = [pc EXCEPT ![t] = c]
      /\ pc[t].at = "check"
      /\ UNCHANGED <<delayed, heapThread, threadId, abandoned, live>>
  BY DEF CheckFree
<1>2. Good(p, pg) /\ Out(pg) = Out(page[p])
  BY PagesGood, CollectedGood
<1>3. Good(p, new) /\ Out(new) = Out(page[p])
  <2> HIDE DEF pg
  <2> QED
    BY <1>2, EmptyPage, UnusedGood
<1>4. left \in SUBSET Page /\ pc[t] \in Control /\ Placed(pc[t])
  BY DEF IInv, TypeOK, Control
<1> HIDE DEF left, new
<1>5. c \in Control /\ Placed(c) /\ Carries(t, c, {})
  BY <1>1, <1>4 DEF Control, Placed, Carries, InHand
<1> HIDE DEF c
<1>6. Becomes(p, new) /\ OwnersTyped' /\ Leaves(t, c)
  BY <1>1, <1>3, <1>5 DEF Becomes, Leaves, OwnersTyped, IInv, TypeOK
<1> QED
  BY <1>1, <1>3, <1>5, <1>6, OnePageSame

LEMMA SetHeapStep ==
    ASSUME IInv, NEW t \in Thread, NEW p \in Page, SetHeap(t, p)
    PROVE  IInv'
<1> DEFINE h    == pc[t].heap
           pg   == [page[p] EXCEPT !.xheap = h]
           left == pc[t].todo \ {p}
           c    == [pc[t] EXCEPT !.at = "allow", !.page = p, !.todo = left]
<1>1. /\ page' = [page EXCEPT ![p] = pg] /\ pc' = [pc EXCEPT ![t] = c]
      /\ pc[t].at = "reclaim"
      /\ UNCHANGED <<delayed, heapThread, threadId, abandoned, live>>
  BY DEF SetHeap
<1>2. /\ left \in SUBSET Page /\ pc[t] \in Control /\ Placed(pc[t])
      /\ h \in Heap \cup {NoHeap}
  BY DEF IInv, TypeOK, Control
<1>3. Good(p, pg) /\ Out(pg) = Out(page[p])
  BY <1>2, PagesGood, XheapGood
<1> HIDE DEF left, pg
<1>4. c \in Control /\ Placed(c) /\ Carries(t, c, {})
  BY <1>1, <1>2 DEF Control, Placed, Carries, InHand, Label
<1> HIDE DEF c
<1>5. Becomes(p, pg) /\ OwnersTyped' /\ Leaves(t, c)
  BY <1>1, <1>3, <1>4 DEF Becomes, Leaves, OwnersTyped, IInv, TypeOK
<1> QED
  BY <1>1, <1>3, <1>4, <1>5, OnePageSame

LEMMA AllowDelayedStep ==
    ASSUME IInv, NEW t \in Thread, AllowDelayed(t)
    PROVE  IInv'
<1> DEFINE p  == pc[t].page
           pg == [page[p] EXCEPT !.flag = "use"]
           c  == [pc[t] EXCEPT !.at = "gather"]
<1>1. /\ page' = [page EXCEPT ![p] = pg] /\ pc' = [pc EXCEPT ![t] = c]
      /\ pc[t].at = "allow"
      /\ UNCHANGED <<delayed, heapThread, threadId, abandoned, live>>
  BY DEF AllowDelayed
<1>2. pc[t] \in Control /\ Placed(pc[t]) /\ p \in Page
  BY <1>1 DEF IInv, TypeOK, Placed
<1>3. Good(p, pg) /\ Out(pg) = Out(page[p])
  BY <1>2, PagesGood, FlagGood DEF Flag
<1> HIDE DEF pg
<1>4. c \in Control /\ Placed(c) /\ Carries(t, c, {})
  BY <1>1, <1>2 DEF Control, Placed, Carries, InHand, Label
<1> HIDE DEF c, p
<1>5. Becomes(p, pg) /\ OwnersTyped' /\ Leaves(t, c)
  BY <1>1, <1>3, <1>4 DEF Becomes, Leaves, OwnersTyped, IInv, TypeOK
<1> QED
  BY <1>1, <1>2, <1>3, <1>4, <1>5, OnePageSame

LEMMA GatherPageStep ==
    ASSUME IInv, NEW t \in Thread, GatherPage(t)
    PROVE  IInv'
<1> DEFINE p   == pc[t].page
           pg  == Collected(page[p], FALSE)
           out == [pg EXCEPT !.in_full = FALSE]
           new == IF pg.used = 0 THEN Unused ELSE out
           c   == [pc[t] EXCEPT !.at = "reclaim", !.page = NoPage]
<1>1. /\ page' = [page EXCEPT ![p] = new] /\ pc' = [pc EXCEPT ![t] = c]
      /\ pc[t].at = "gather"
      /\ UNCHANGED <<delayed, heapThread, threadId, abandoned, live>>
  BY DEF GatherPage
<1>2. pc[t] \in Control /\ Placed(pc[t]) /\ p \in Page
  BY <1>1 DEF IInv, TypeOK, Placed
<1>3. Good(p, pg) /\ Out(pg) = Out(page[p])
  BY <1>2, PagesGood, CollectedGood
<1>4. Good(p, new) /\ Out(new) = Out(page[p])
  <2> HIDE DEF pg, p
  <2>1. Good(p, out) /\ Out(out) = Out(pg)
    BY <1>2, <1>3, FullGood
  <2>2. pg.used = 0 => Good(p, Unused) /\ Out(Unused) = Out(pg)
    BY <1>2, <1>3, EmptyPage, UnusedGood
  <2> QED
    BY <1>3, <2>1, <2>2
<1> HIDE DEF new
<1>5. c \in Control /\ Placed(c) /\ Carries(t, c, {})
  BY <1>1, <1>2 DEF Control, Placed, Carries, InHand, Label
<1> HIDE DEF c, p
<1>6. Becomes(p, new) /\ OwnersTyped' /\ Leaves(t, c)
  BY <1>1, <1>4, <1>5 DEF Becomes, Leaves, OwnersTyped, IInv, TypeOK
<1> QED
  BY <1>1, <1>2, <1>4, <1>5, <1>6, OnePageSame

LEMMA AppendPageStep ==
    ASSUME IInv, NEW t \in Thread, NEW p \in Page, AppendPage(t, p)
    PROVE  IInv'
<1> DEFINE pg   == [page[p] EXCEPT !.xheap = Backing[t]]
           left == pc[t].todo \ {p}
           c    == [pc[t] EXCEPT !.at = "spin", !.page = p, !.todo = left]
<1>1. /\ page' = [page EXCEPT ![p] = pg] /\ pc' = [pc EXCEPT ![t] = c]
      /\ pc[t].at = "append"
      /\ UNCHANGED <<delayed, heapThread, threadId, abandoned, live>>
  BY DEF AppendPage
<1>2. left \in SUBSET Page /\ pc[t] \in Control /\ Placed(pc[t])
  BY DEF IInv, TypeOK, Control
<1>3. Good(p, pg) /\ Out(pg) = Out(page[p])
  BY ThreadFreeAssumption, PagesGood, XheapGood
<1> HIDE DEF left, pg
<1>4. c \in Control /\ Placed(c) /\ Carries(t, c, {})
  BY <1>1, <1>2 DEF Control, Placed, Carries, InHand, Label
<1> HIDE DEF c
<1>5. Becomes(p, pg) /\ OwnersTyped' /\ Leaves(t, c)
  BY <1>1, <1>3, <1>4 DEF Becomes, Leaves, OwnersTyped, IInv, TypeOK
<1> QED
  BY <1>1, <1>3, <1>4, <1>5, OnePageSame

LEMMA AppendSpinStep ==
    ASSUME IInv, NEW t \in Thread, AppendSpin(t)
    PROVE  IInv'
<1> DEFINE p  == pc[t].page
           pg == UsingDelayed(page[p])
           c  == [pc[t] EXCEPT !.at = "append", !.page = NoPage]
<1>1. /\ page' = [page EXCEPT ![p] = pg] /\ pc' = [pc EXCEPT ![t] = c]
      /\ pc[t].at = "spin"
      /\ UNCHANGED <<delayed, heapThread, threadId, abandoned, live>>
  BY DEF AppendSpin
<1>2. pc[t] \in Control /\ Placed(pc[t]) /\ p \in Page
  BY <1>1 DEF IInv, TypeOK, Placed
<1>3. Good(p, pg) /\ Out(pg) = Out(page[p])
  BY <1>2, UsingDelayedGood
<1> HIDE DEF pg
<1>4. c \in Control /\ Placed(c) /\ Carries(t, c, {})
  BY <1>1, <1>2 DEF Control, Placed, Carries, InHand, Label
<1> HIDE DEF c, p
<1>5. Becomes(p, pg) /\ OwnersTyped' /\ Leaves(t, c)
  BY <1>1, <1>3, <1>4 DEF Becomes, Leaves, OwnersTyped, IInv, TypeOK
<1> QED
  BY <1>1, <1>2, <1>3, <1>4, <1>5, OnePageSame

LEMMA ToFullStep ==
    ASSUME IInv, NEW t \in Thread, ToFull(t)
    PROVE  IInv'
<1> DEFINE p   == pc[t].page
           pg  == Collected(page[p], FALSE)
           new == [pg EXCEPT !.in_full = TRUE]
           c   == [pc[t] EXCEPT !.at = "find", !.page = NoPage]
<1>1. /\ page' = [page EXCEPT ![p] = new] /\ pc' = [pc EXCEPT ![t] = c]
      /\ pc[t].at = "full"
      /\ UNCHANGED <<delayed, heapThread, threadId, abandoned, live>>
  BY DEF ToFull
<1>2. pc[t] \in Control /\ Placed(pc[t]) /\ p \in Page
  BY <1>1 DEF IInv, TypeOK, Placed
<1>3. Good(p, pg) /\ Out(pg) = Out(page[p])
  BY <1>2, PagesGood, CollectedGood
<1>4. Good(p, new) /\ Out(new) = Out(page[p])
  <2> HIDE DEF pg, p
  <2> QED
    BY <1>2, <1>3, FullGood
<1> HIDE DEF new
<1>5. c \in Control /\ Placed(c) /\ Carries(t, c, {})
  BY <1>1, <1>2 DEF Control, Placed, Carries, InHand, Label
<1> HIDE DEF c, p
<1>6. Becomes(p, new) /\ OwnersTyped' /\ Leaves(t, c)
  BY <1>1, <1>4, <1>5 DEF Becomes, Leaves, OwnersTyped, IInv, TypeOK
<1> QED
  BY <1>1, <1>2, <1>4, <1>5, <1>6, OnePageSame

-----------------------------------------------------------------------------
(* Steps that change no page and move no block.                            *)

\* A step that changes nothing but heapThread.
LEMMA HeapAppears ==
    ASSUME IInv, NEW t \in Thread, NEW h \in Heap,
           heapThread' = [heapThread EXCEPT ![h] = t],
           UNCHANGED <<page, delayed, threadId, abandoned, live, pc>>
    PROVE  IInv'
<1>1. OwnersTyped' /\ delayed' \in [Heap -> SUBSET Block]
  BY DEF IInv, TypeOK, OwnersTyped
<1>2. Leaves(t, pc[t]) /\ Carries(t, pc[t], {})
  BY StaysPut
<1> QED
  BY <1>1, <1>2, OnlyMoves

LEMMA ThreadInitStep ==
    ASSUME IInv, NEW t \in Thread, ThreadInit(t)
    PROVE  IInv'
  BY HeapAppears, ThreadFreeAssumption DEF ThreadInit

LEMMA HeapNewStep ==
    ASSUME IInv, NEW t \in Thread, NEW h \in Heap, HeapNew(t, h)
    PROVE  IInv'
  BY HeapAppears DEF HeapNew

LEMMA LoadHeapStep ==
    ASSUME IInv, NEW t \in Thread, LoadHeap(t)
    PROVE  IInv'
<1> DEFINE h == page[PageOf[pc[t].block]].xheap
           c == [pc[t] EXCEPT !.heap = h,
                              !.at = IF h = NoHeap THEN "reset" ELSE "push"]
<1>1. /\ pc' = [pc EXCEPT ![t] = c] /\ UNCHANGED <<page, delayed, live>>
      /\ pc[t].at = "load"
  BY DEF LoadHeap
<1>2. pc[t] \in Control /\ Placed(pc[t]) /\ h \in Heap \cup {NoHeap}
  BY <1>1, ThreadFreeAssumption DEF IInv, TypeOK, Placed, PageRecord
<1> HIDE DEF h
<1>3. c \in Control /\ Placed(c) /\ Carries(t, c, {})
  BY <1>1, <1>2 DEF Control, Placed, Carries, InHand, Label
<1>4. OwnersTyped'
  BY <1>1, <1>2 DEF LoadHeap, OwnersTyped, IInv, TypeOK
<1> HIDE DEF c
<1>5. Leaves(t, c) /\ delayed' \in [Heap -> SUBSET Block]
  BY <1>1, <1>3 DEF Leaves, IInv, TypeOK
<1> QED
  BY <1>1, <1>3, <1>4, <1>5, OnlyMoves

\* The two ways a collection begins.
LEMMA CollectStep ==
    ASSUME IInv, NEW t \in Thread, NEW h \in Heap, NEW op \in Op,
           Collect(t, h, op),
           UNCHANGED <<page, heapThread, threadId, abandoned, live>>
    PROVE  IInv'
<1> DEFINE c == [Idle EXCEPT !.at = "all", !.op = op, !.heap = h,
                             !.again = TRUE]
<1>1. CASE TakeDelayed(t, h, op)
  BY <1>1, TakeDelayedStep
<1>2. CASE pc' = [pc EXCEPT ![t] = c] /\ UNCHANGED delayed
  <2>1. c \in Control /\ Placed(c) /\ Carries(t, c, {})
    <3>1. c \in Control
      BY IdleControl DEF Control, Label
    <3>2. c.at = "all" /\ c.heap = h /\ c.taken = {}
      BY IdleControl DEF Idle
    <3> QED
      BY <3>1, <3>2 DEF Placed, Carries, InHand
  <2> HIDE DEF c
  <2>2. /\ Leaves(t, c) /\ OwnersTyped' /\ delayed' \in [Heap -> SUBSET Block]
    BY <1>2, <2>1 DEF Leaves, OwnersTyped, IInv, TypeOK
  <2> QED
    BY <1>2, <2>1, <2>2, OnlyMoves
<1> QED
  BY <1>1, <1>2 DEF Collect

LEMMA AllReclaimedStep ==
    ASSUME IInv, NEW t \in Thread, AllReclaimed(t)
    PROVE  IInv'
<1>1. pc[t].op \in Op /\ pc[t].heap \in Heap
  BY DEF AllReclaimed, IInv, TypeOK, Placed, Control
<1> QED
  BY <1>1, TakeDelayedStep DEF AllReclaimed

LEMMA ThreadDoneStep ==
    ASSUME IInv, NEW t \in Thread, ThreadDone(t)
    PROVE  IInv'
<1> DEFINE h    == Backing[t]
           todo == Pages(h)
           c    == [Idle EXCEPT !.at = "never", !.op = "done", !.heap = h,
                                !.todo = todo]
<1>1. /\ pc' = [pc EXCEPT ![t] = c] /\ UNCHANGED <<page, delayed, live>>
      /\ pc[t] = Idle
  BY DEF ThreadDone, Starts
<1>2. pc[t] \in Control /\ Placed(pc[t]) /\ h \in Heap /\ todo \in SUBSET Page
  BY ThreadFreeAssumption DEF IInv, TypeOK, Pages
<1> HIDE DEF h, todo
<1>3. c \in Control /\ Placed(c) /\ Carries(t, c, {})
  <2>1. c \in Control
    BY <1>2, IdleControl DEF Control, Label, Op, AllCalls
  <2>2. c.at = "never" /\ c.heap = h /\ c.taken = {}
    BY IdleControl DEF Idle
  <2> QED
    BY <1>2, <2>1, <2>2 DEF Placed, Carries, InHand
<1>4. OwnersTyped'
  BY <1>1, <1>2 DEF ThreadDone, Starts, OwnersTyped, IInv, TypeOK
<1> HIDE DEF c
<1>5. Leaves(t, c) /\ delayed' \in [Heap -> SUBSET Block]
  BY <1>1, <1>3 DEF Leaves, IInv, TypeOK
<1> QED
  BY <1>1, <1>3, <1>4, <1>5, OnlyMoves

LEMMA PagesDoneStep ==
    ASSUME IInv, NEW t \in Thread, PagesDone(t)
    PROVE  IInv'
<1> DEFINE c == [pc[t] EXCEPT !.at = "abandoned"]
<1>1. /\ pc' = [pc EXCEPT ![t] = c] /\ UNCHANGED <<page, delayed, live>>
      /\ pc[t].at = "pages"
  BY DEF PagesDone
<1>2. pc[t] \in Control /\ Placed(pc[t])
  BY <1>1 DEF IInv, TypeOK
<1>3. c \in Control /\ Placed(c) /\ Carries(t, c, {})
  BY <1>1, <1>2 DEF Control, Placed, Carries, InHand, Label
<1>4. OwnersTyped'
  BY <1>1, <1>2 DEF PagesDone, OwnersTyped, IInv, TypeOK
<1> HIDE DEF c
<1>5. Leaves(t, c) /\ delayed' \in [Heap -> SUBSET Block]
  BY <1>1, <1>3 DEF Leaves, IInv, TypeOK
<1> QED
  BY <1>1, <1>3, <1>4, <1>5, OnlyMoves

LEMMA PopAbandonedStep ==
    ASSUME IInv, NEW t \in Thread, NEW s \in Segment, PopAbandoned(t, s)
    PROVE  IInv'
<1> DEFINE todo == IF pc[t].at = "all" THEN {} ELSE UsedPages(page, s)
           c    == [pc[t] EXCEPT !.at = "check", !.seg = s, !.todo = todo]
<1>1. /\ pc' = [pc EXCEPT ![t] = c] /\ UNCHANGED <<page, delayed, live>>
      /\ pc[t].at \in {"abandoned", "find", "all"}
  BY DEF PopAbandoned, Exhausted, Searching
<1>2. pc[t] \in Control /\ Placed(pc[t]) /\ todo \in SUBSET Page
  BY DEF IInv, TypeOK, UsedPages
<1> HIDE DEF todo
<1>3. c \in Control /\ Placed(c) /\ Carries(t, c, {})
  BY <1>1, <1>2 DEF Control, Placed, Carries, InHand, Label
<1>4. OwnersTyped'
  BY <1>1, <1>2 DEF PopAbandoned, OwnersTyped, IInv, TypeOK
<1> HIDE DEF c
<1>5. Leaves(t, c) /\ delayed' \in [Heap -> SUBSET Block]
  BY <1>1, <1>3 DEF Leaves, IInv, TypeOK
<1> QED
  BY <1>1, <1>3, <1>4, <1>5, OnlyMoves

LEMMA ClaimStep ==
    ASSUME IInv, NEW t \in Thread, Claim(t)
    PROVE  IInv'
<1> DEFINE todo == UsedPages(page, pc[t].seg)
           c    == [pc[t] EXCEPT !.at = "reclaim", !.todo = todo]
<1>1. /\ pc' = [pc EXCEPT ![t] = c] /\ UNCHANGED <<page, delayed, live>>
      /\ pc[t].at = "check"
  BY DEF Claim
<1>2. pc[t] \in Control /\ Placed(pc[t]) /\ todo \in SUBSET Page
  BY DEF IInv, TypeOK, UsedPages
<1> HIDE DEF todo
<1>3. c \in Control /\ Placed(c) /\ Carries(t, c, {})
  BY <1>1, <1>2 DEF Control, Placed, Carries, InHand, Label
<1>4. OwnersTyped'
  BY <1>1, <1>2 DEF Claim, OwnersTyped, IInv, TypeOK
<1> HIDE DEF c
<1>5. Leaves(t, c) /\ delayed' \in [Heap -> SUBSET Block]
  BY <1>1, <1>3 DEF Leaves, IInv, TypeOK
<1> QED
  BY <1>1, <1>3, <1>4, <1>5, OnlyMoves

LEMMA PushVisitedStep ==
    ASSUME IInv, NEW t \in Thread, PushVisited(t)
    PROVE  IInv'
<1> DEFINE at == Resume(pc[t])
           c  == [pc[t] EXCEPT !.at = at, !.seg = NoSegment]
<1>1. /\ pc' = [pc EXCEPT ![t] = c] /\ UNCHANGED <<page, delayed, live>>
      /\ pc[t].at = "check"
  BY DEF PushVisited
<1>2. pc[t] \in Control /\ Placed(pc[t]) /\ at \in {"find", "abandoned", "all"}
  BY DEF IInv, TypeOK, Resume
<1> HIDE DEF at
<1>3. c \in Control /\ Placed(c) /\ Carries(t, c, {})
  BY <1>1, <1>2 DEF Control, Placed, Carries, InHand, Label
<1>4. OwnersTyped'
  BY <1>1, <1>2 DEF PushVisited, OwnersTyped, IInv, TypeOK, Placed
<1> HIDE DEF c
<1>5. Leaves(t, c) /\ delayed' \in [Heap -> SUBSET Block]
  BY <1>1, <1>3 DEF Leaves, IInv, TypeOK
<1> QED
  BY <1>1, <1>3, <1>4, <1>5, OnlyMoves

LEMMA ReclaimDoneStep ==
    ASSUME IInv, NEW t \in Thread, ReclaimDone(t)
    PROVE  IInv'
<1> DEFINE at == Resume(pc[t])
           c  == [pc[t] EXCEPT !.at = at, !.seg = NoSegment]
<1>1. /\ pc' = [pc EXCEPT ![t] = c] /\ UNCHANGED <<page, delayed, live>>
      /\ pc[t].at = "reclaim"
  BY DEF ReclaimDone
<1>2. pc[t] \in Control /\ Placed(pc[t]) /\ at \in {"find", "abandoned", "all"}
  BY DEF IInv, TypeOK, Resume
<1> HIDE DEF at
<1>3. c \in Control /\ Placed(c) /\ Carries(t, c, {})
  BY <1>1, <1>2 DEF Control, Placed, Carries, InHand, Label
<1>4. OwnersTyped'
  BY <1>1, <1>2 DEF ReclaimDone, OwnersTyped, IInv, TypeOK, Placed
<1> HIDE DEF c
<1>5. Leaves(t, c) /\ delayed' \in [Heap -> SUBSET Block]
  BY <1>1, <1>3 DEF Leaves, IInv, TypeOK
<1> QED
  BY <1>1, <1>3, <1>4, <1>5, OnlyMoves

LEMMA CollectDoneStep ==
    ASSUME IInv, NEW t \in Thread, CollectDone(t)
    PROVE  IInv'
<1>1. /\ pc[t].at = "abandoned" /\ pc[t] \in Control /\ Placed(pc[t])
      /\ UNCHANGED <<page, threadId, abandoned, live>>
  BY DEF CollectDone, IInv, TypeOK
<1>2. pc[t].heap \in Heap
  BY <1>1 DEF Placed
<1>3. CASE DropHeap(t, pc[t].heap)
  BY <1>1, <1>2, <1>3, DropHeapStep
<1>4. CASE /\ pc' = [pc EXCEPT ![t].at = "find", ![t].op = "retry"]
           /\ UNCHANGED <<delayed, heapThread>>
  <2> DEFINE c == [pc[t] EXCEPT !.at = "find", !.op = "retry"]
  <2>1. c \in Control /\ Placed(c) /\ Carries(t, c, {})
    BY <1>1 DEF Control, Placed, Carries, InHand, Label, Op
  <2>2. pc' = [pc EXCEPT ![t] = c]
    BY <1>4
  <2> HIDE DEF c
  <2>3. Leaves(t, c) /\ OwnersTyped' /\ delayed' \in [Heap -> SUBSET Block]
    BY <1>1, <1>4, <2>1, <2>2 DEF Leaves, OwnersTyped, IInv, TypeOK
  <2> QED
    BY <1>1, <1>4, <2>1, <2>3, OnlyMoves
<1>5. CASE /\ pc' = [pc EXCEPT ![t] = Idle]
           /\ UNCHANGED <<delayed, heapThread>>
  <2>1. /\ Leaves(t, Idle) /\ Carries(t, Idle, {}) /\ OwnersTyped'
        /\ delayed' \in [Heap -> SUBSET Block]
    BY <1>1, <1>5, IdleControl
       DEF Leaves, Carries, InHand, OwnersTyped, IInv, TypeOK
  <2> QED
    BY <1>1, <1>5, <2>1, OnlyMoves
<1> QED
  BY <1>3, <1>4, <1>5 DEF CollectDone

-----------------------------------------------------------------------------
(* Steps that take over a delayed list or drop a heap.                     *)

LEMMA HeapDeleteStep ==
    ASSUME IInv, NEW t \in Thread, NEW h \in Heap, HeapDelete(t, h)
    PROVE  IInv'
<1>1. UNCHANGED <<page, threadId, abandoned, live>> /\ "delete" \in Op
  BY DEF HeapDelete, Op, AllCalls
<1>2. CASE TakeDelayed(t, h, "delete") /\ UNCHANGED heapThread
  BY <1>1, <1>2, TakeDelayedStep
<1>3. CASE DropHeap(t, h)
  BY <1>1, <1>3, DropHeapStep
<1> QED
  BY <1>2, <1>3 DEF HeapDelete

LEMMA HeapCollectStep ==
    ASSUME IInv, NEW t \in Thread, NEW h \in Heap, NEW call,
           HeapCollect(t, h, call)
    PROVE  IInv'
<1>1. call \in Op
  BY DEF HeapCollect, Op, AllCalls
<1> QED
  BY <1>1, CollectStep DEF HeapCollect

LEMMA MallocGenericStep ==
    ASSUME IInv, NEW t \in Thread, NEW h \in Heap, MallocGeneric(t, h)
    PROVE  IInv'
<1>1. "malloc" \in Op
  BY DEF Op, AllCalls
<1> QED
  BY <1>1, TakeDelayedStep DEF MallocGeneric

LEMMA NeverDoneStep ==
    ASSUME IInv, NEW t \in Thread, NeverDone(t)
    PROVE  IInv'
<1>1. "done" \in Op /\ pc[t].heap \in Heap
  BY DEF NeverDone, IInv, TypeOK, Placed, Op, AllCalls
<1> QED
  BY <1>1, TakeDelayedStep DEF NeverDone

LEMMA AppendDoneStep ==
    ASSUME IInv, NEW t \in Thread, AppendDone(t)
    PROVE  IInv'
<1>1. "absorb" \in Op /\ pc[t].heap \in Heap
  BY DEF AppendDone, IInv, TypeOK, Placed, Op
<1> QED
  BY <1>1, TakeDelayedStep DEF AppendDone

LEMMA FindFailsStep ==
    ASSUME IInv, NEW t \in Thread, FindFails(t)
    PROVE  IInv'
<1>1. /\ "recollect" \in Op /\ pc[t].heap \in Heap
      /\ UNCHANGED <<page, heapThread, threadId, abandoned, live>>
  BY DEF FindFails, Searching, IInv, TypeOK, Placed, Op
<1>2. CASE Collect(t, pc[t].heap, "recollect")
  BY <1>1, <1>2, CollectStep
<1>3. CASE pc' = [pc EXCEPT ![t] = Idle] /\ UNCHANGED delayed
  <2>1. /\ Leaves(t, Idle) /\ Carries(t, Idle, {}) /\ OwnersTyped'
        /\ delayed' \in [Heap -> SUBSET Block]
    BY <1>1, <1>3, IdleControl
       DEF Leaves, Carries, InHand, OwnersTyped, IInv, TypeOK
  <2> QED
    BY <1>1, <1>3, <2>1, OnlyMoves
<1> QED
  BY <1>2, <1>3 DEF FindFails

LEMMA DelayedDoneStep ==
    ASSUME IInv, NEW t \in Thread, DelayedDone(t)
    PROVE  IInv'
<1> DEFINE h  == pc[t].heap
           op == pc[t].op
           to(at, todo) == [pc[t] EXCEPT !.at = at, !.todo = todo]
<1>1. /\ UNCHANGED <<page, threadId, abandoned, live>> /\ h \in Heap
      /\ pc[t] \in Control /\ Placed(pc[t]) /\ pc[t].at = "delayed"
      /\ Pages(h) \in SUBSET Page /\ op \in Op
  BY DEF DelayedDone, IInv, TypeOK, Placed, Pages, Control
<1>2. ASSUME NEW at \in {"find", "append", "pages"}, NEW todo \in SUBSET Page,
             pc' = [pc EXCEPT ![t] = to(at, todo)],
             UNCHANGED <<delayed, heapThread>>
      PROVE  IInv'
  <2> DEFINE c == to(at, todo)
  <2>1. c \in Control /\ Placed(c) /\ Carries(t, c, {})
    BY <1>1 DEF Control, Placed, Carries, InHand, Label
  <2> HIDE DEF to
  <2>2. Leaves(t, c) /\ OwnersTyped' /\ delayed' \in [Heap -> SUBSET Block]
    BY <1>1, <1>2, <2>1 DEF Leaves, OwnersTyped, IInv, TypeOK
  <2> QED
    BY <1>1, <1>2, <2>1, <2>2, OnlyMoves
<1>3. CASE pc' = [pc EXCEPT ![t].at = "find", ![t].todo = {}]
           /\ UNCHANGED <<delayed, heapThread>>
  <2> DEFINE none == {}
  <2>1. none \in SUBSET Page /\ pc' = [pc EXCEPT ![t] = to("find", none)]
    BY <1>3
  <2> HIDE DEF none, to
  <2> QED
    BY <1>2, <1>3, <2>1
<1>4. CASE pc' = [pc EXCEPT ![t].at = "append", ![t].todo = Pages(h)]
           /\ UNCHANGED <<delayed, heapThread>>
  BY <1>1, <1>2, <1>4
<1>5. CASE pc' = [pc EXCEPT ![t].at = "pages", ![t].todo = Pages(h)]
           /\ UNCHANGED <<delayed, heapThread>>
  BY <1>1, <1>2, <1>5
<1>6. CASE TakeDelayed(t, h, op) /\ UNCHANGED heapThread
  BY <1>1, <1>6, TakeDelayedStep
<1>7. CASE DropHeap(t, h)
  BY <1>1, <1>7, DropHeapStep
<1> QED
  BY <1>3, <1>4, <1>5, <1>6, <1>7 DEF DelayedDone

-----------------------------------------------------------------------------
(* The theorems.                                                           *)

LEMMA InitIInv == Init => IInv
<1> SUFFICES ASSUME Init PROVE IInv
  OBVIOUS
<1>1. TypeOK
  BY UnusedGood, IdleControl DEF Init, TypeOK, Good
<1>2. PagesOK
  BY UnusedGood DEF Init, PagesOK, Good
<1>3. \A t \in Thread : Carried(t) = {} /\ Hand(t) = {}
  BY IdleControl DEF Init, Carried, Hand
<1>4. AwayIsOut /\ AwayOnce
  BY <1>3 DEF Init, AwayIsOut, AwayOnce
<1> QED
  BY <1>1, <1>2, <1>4 DEF IInv, Exclusive

LEMMA CallStep ==
    ASSUME IInv, NEW t \in Thread, Call(t)
    PROVE  IInv' /\ PoolStep
<1>1. CASE ThreadInit(t) \/ ThreadDone(t)
  BY <1>1, ThreadInitStep, ThreadDoneStep DEF ThreadInit, ThreadDone, PoolStep
<1>2. ASSUME NEW p \in Page, NEW b \in Block, Malloc(t, p, b)
      PROVE  IInv' /\ PoolStep
  BY <1>2, MallocStep
<1>3. ASSUME NEW b \in Block, FreeOwned(t, b) \/ FreeMt(t, b)
      PROVE  IInv' /\ PoolStep
  <2>1. IInv'
    BY <1>3, FreeOwnedStep, FreeMtStep
  <2>2. b \in live /\ live' = live \ {b}
    BY <1>3 DEF FreeOwned, FreeMt
  <2> QED
    BY <2>1, <2>2 DEF PoolStep
<1>4. ASSUME NEW h \in Heap,
             MallocGeneric(t, h) \/ HeapNew(t, h) \/ HeapDelete(t, h)
      PROVE  IInv' /\ PoolStep
  BY <1>4, MallocGenericStep, HeapNewStep, HeapDeleteStep
     DEF MallocGeneric, HeapNew, HeapDelete, PoolStep
<1>5. ASSUME NEW h \in Heap, NEW call \in Calls[t], HeapCollect(t, h, call)
      PROVE  IInv' /\ PoolStep
  BY <1>5, HeapCollectStep DEF HeapCollect, PoolStep
<1> QED
  BY <1>1, <1>2, <1>3, <1>4, <1>5 DEF Call

LEMMA InnerStep ==
    ASSUME IInv, NEW t \in Thread, Step(t)
    PROVE  IInv' /\ PoolStep
<1>1. CASE LoadHeap(t) \/ PushDelayed(t) \/ ResetFlag(t)
  BY <1>1, LoadHeapStep, PushDelayedStep, ResetFlagStep
     DEF LoadHeap, PushDelayed, ResetFlag, PoolStep
<1>2. ASSUME NEW b \in Block, Reinsert(t, b) \/ TryUse(t, b)
      PROVE  IInv' /\ PoolStep
  BY <1>2, ReinsertStep, TryUseStep DEF Reinsert, TryUse, PoolStep
<1>3. CASE FreeDelayed(t) \/ DelayedDone(t)
  BY <1>3, FreeDelayedStep, DelayedDoneStep DEF FreeDelayed, DelayedDone, PoolStep
<1>4. ASSUME NEW p \in Page, FindPage(t, p) \/ FindExtend(t, p) \/ FindFresh(t, p)
      PROVE  IInv' /\ PoolStep
  BY <1>4, FindPageStep, FindExtendStep, FindFreshStep
<1>5. ASSUME NEW p \in Page, NeverDelayed(t, p) \/ PageCollect(t, p)
                            \/ CheckFree(t, p) \/ SetHeap(t, p)
                            \/ AppendPage(t, p)
      PROVE  IInv' /\ PoolStep
  BY <1>5, NeverDelayedStep, PageCollectStep, CheckFreeStep, SetHeapStep,
     AppendPageStep
     DEF NeverDelayed, PageCollect, CheckFree, SetHeap, AppendPage, PoolStep
<1>6. CASE ToFull(t) \/ FindFails(t) \/ NeverDone(t) \/ PagesDone(t)
  BY <1>6, ToFullStep, FindFailsStep, NeverDoneStep, PagesDoneStep
     DEF ToFull, FindFails, NeverDone, PagesDone, PoolStep
<1>7. CASE CollectDone(t) \/ Claim(t) \/ PushVisited(t) \/ AllowDelayed(t)
  BY <1>7, CollectDoneStep, ClaimStep, PushVisitedStep, AllowDelayedStep
     DEF CollectDone, Claim, PushVisited, AllowDelayed, PoolStep
<1>8. CASE GatherPage(t) \/ ReclaimDone(t) \/ AppendSpin(t) \/ AppendDone(t)
  BY <1>8, GatherPageStep, ReclaimDoneStep, AppendSpinStep, AppendDoneStep
     DEF GatherPage, ReclaimDone, AppendSpin, AppendDone, PoolStep
<1>9. ASSUME NEW s \in Segment, PopAbandoned(t, s)
      PROVE  IInv' /\ PoolStep
  BY <1>9, PopAbandonedStep DEF PopAbandoned, PoolStep
<1>10. CASE AllReclaimed(t)
  BY <1>10, AllReclaimedStep DEF AllReclaimed, PoolStep
<1> QED
  BY <1>1, <1>2, <1>3, <1>4, <1>5, <1>6, <1>7, <1>8, <1>9,
     <1>10 DEF Step

\* Every step keeps the invariant and is a step of the pool.
LEMMA NextStep == IInv /\ [Next]_vars => IInv' /\ PoolStep
<1> SUFFICES ASSUME IInv, [Next]_vars PROVE IInv' /\ PoolStep
  OBVIOUS
<1>1. CASE UNCHANGED vars
  <2>1. TypeOK'
    BY <1>1 DEF vars, IInv, TypeOK
  <2>2. PagesOK' /\ live' = live /\ delayed' = delayed /\ page' = page
    BY <1>1 DEF vars, IInv, Exclusive, PagesOK
  <2>3. \A t \in Thread : Carried(t)' = Carried(t) /\ Hand(t)' = Hand(t)
                          /\ pc'[t].taken = pc[t].taken
    BY <1>1 DEF vars, Carried, Hand
  <2>4. AwayIsOut' /\ AwayOnce'
    BY <2>2, <2>3 DEF IInv, Exclusive, AwayIsOut, AwayOnce
  <2> QED
    BY <2>1, <2>2, <2>4 DEF IInv, Exclusive, PoolStep
<1>2. CASE Next
  BY <1>2, CallStep, InnerStep DEF Next
<1> QED
  BY <1>1, <1>2

\* The allocator's bookkeeping is always typed and exclusive.
THEOREM Invariance == Spec => []IInv
<1> QED
  BY InitIInv, NextStep, PTL DEF Spec

\* Type correctness (ThreadFree's variables, `used` never below zero).
THEOREM TypeCorrect == Spec => []TypeOK
<1>1. IInv => TypeOK
  BY DEF IInv
<1> QED
  BY <1>1, Invariance, PTL

\* No block is ever in two places -- lists of pages, heaps and threads, or the
\* program -- and `used` counts exactly what is out of free and local_free,
\* whatever the interleaving of frees, collections, heap deletions, thread
\* exits and reclaims.
THEOREM BlocksExclusive == Spec => []Exclusive
<1>1. IInv => Exclusive
  BY DEF IInv
<1> QED
  BY <1>1, Invariance, PTL

\* A held block is out of its page's lists.
LEMMA HeldIsOut == IInv => Stock \subseteq Block \ live
<1> QED
  BY DEF IInv, Exclusive, AwayIsOut, Stock

\* The allocator implements BlockPool: malloc never hands out a block that is
\* held, and a block is held until the program frees it.
THEOREM PoolRefinement == Spec => ImplementsPool
<1>1. Init => Pool!Init
  BY DEF Init, Stock, Pool!Init
<1>2. IInv' => (Stock \subseteq Block \ live)'
  BY HeldIsOut, PTL
<1>3. PoolStep /\ IInv' => [Pool!Malloc \/ Pool!Free \/ Pool!Restock]_Pool!vars
  BY <1>2 DEF PoolStep, Pool!Malloc, Pool!Free, Pool!Restock, Pool!Stocked
<1> QED
  BY <1>1, <1>3, NextStep, Invariance, PTL DEF Spec, ImplementsPool, Pool!Spec


-----------------------------------------------------------------------------
(* What FullInv says of one page.                                          *)

\* The other threads have no claim on page p: it is in no heap of theirs, nor
\* among the pages they reclaim.
Spared(t, p) == \A u \in Thread \ {t} :
    Owner(p) # u /\ (pc[u].at \in ReclaimAt => p \notin pc[u].todo)

\* A thread owns the pages of its segments, and of the one it looks at.
LEMMA MineSpared ==
    ASSUME FullInv, NEW t \in Thread, NEW p \in Page,
           threadId[SegmentOf[p]] = t \/ pc[t].seg = SegmentOf[p]
    PROVE  Spared(t, p)
<1> SUFFICES ASSUME NEW u \in Thread \ {t}
             PROVE  Owner(p) # u /\ (pc[u].at \in ReclaimAt => p \notin pc[u].todo)
  BY DEF Spared
<1>1. u # NoThread /\ t # NoThread /\ SegmentOf[p] \in Segment
      /\ SegmentOf[p] # NoSegment
  BY ThreadFreeAssumption
<1>2. AtWork(u) /\ AtWork(t) /\ PageHeld(p) /\ SegmentsHeld
  BY DEF FullInv, Handover
<1>3. Owner(p) = u => threadId[SegmentOf[p]] = u
  BY <1>1, <1>2 DEF PageHeld, Owner
<1>4. pc[u].at \in ReclaimAt /\ p \in pc[u].todo =>
          pc[u].seg = SegmentOf[p] /\ threadId[SegmentOf[p]] = u
  BY <1>2 DEF AtWork, AtSegment
<1>5. pc[t].seg = SegmentOf[p] => threadId[SegmentOf[p]] \in {t, NoThread}
  BY <1>1, <1>2 DEF AtWork, AtHome, AtSegment, SegmentAt
<1> QED
  BY <1>1, <1>2, <1>3, <1>4, <1>5 DEF SegmentsHeld

\* The blocks on their way lie in pages that have an owner, and are out of them.
LEMMA OnItsWayHeld ==
    ASSUME FullInv, NEW b, OnItsWay(b)
    PROVE  /\ b \in Block /\ PageOf[b] \in Page
           /\ b \in Out(page[PageOf[b]]) /\ Owner(PageOf[b]) # NoThread
<1>1. CASE \E h \in Heap : b \in delayed[h]
  <2>1. PICK h \in Heap : b \in delayed[h]
    BY <1>1
  <2>2. b \in Block /\ b \in Out(page[PageOf[b]])
    BY <2>1 DEF FullInv, IInv, TypeOK, Exclusive, AwayIsOut
  <2>3. Owner(PageOf[b]) # NoThread
    BY <2>1 DEF FullInv, Handover, ListHeld
  <2> QED
    BY <2>2, <2>3, ThreadFreeAssumption
<1>2. CASE \E u \in Thread : b \in pc[u].taken
  <2>1. PICK u \in Thread : b \in pc[u].taken
    BY <1>2
  <2>2. b \in Carried(u)
    BY <2>1 DEF Carried
  <2>3. b \in Block /\ b \in Out(page[PageOf[b]])
    BY <2>2, CarriedOnly DEF FullInv
  <2>4. Owner(PageOf[b]) = u /\ u # NoThread
    BY <2>1, ThreadFreeAssumption DEF FullInv, Handover, TakenHeld
  <2> QED
    BY <2>3, <2>4, ThreadFreeAssumption
<1> QED
  BY <1>1, <1>2 DEF OnItsWay

LEMMA DelayedIsOnItsWay ==
    \A p : Delayed(p) <=> \E b \in Block : PageOf[b] = p /\ OnItsWay(b)
  BY DEF Delayed, OnItsWay, BlocksOf

\* A thread inside free_block_mt has a block out of a page in use.
LEMMA FreerOut ==
    ASSUME FullInv, NEW t \in Thread, pc[t].at \in FreeingAt
    PROVE  LET b == pc[t].block
           IN  /\ b \in Block /\ PageOf[b] \in Page /\ b \in Out(page[PageOf[b]])
               /\ page[PageOf[b]].flag = "freeing"
<1> DEFINE b == pc[t].block
<1>1. b \in Block /\ PageOf[b] \in Page
  BY ThreadFreeAssumption DEF FullInv, IInv, TypeOK, Placed, FreeingAt
<1>2. FreerHeld(t)
  BY DEF FullInv, Handover
<1>3. CASE pc[t].at = "reset"
  BY <1>1, <1>2, <1>3, OnItsWayHeld DEF FreerHeld
<1>4. CASE pc[t].at \in {"load", "push"}
  <2>1. b \in Carried(t)
    BY <1>4 DEF Carried, Hand
  <2> QED
    BY <1>1, <1>2, <2>1, CarriedOnly DEF FreerHeld, FullInv
<1> QED
  BY <1>3, <1>4 DEF FreeingAt

\* A page that is DELAYED_FREEING has a heap, ...
LEMMA FreeingHasHeap ==
    ASSUME FullInv, NEW p \in Page, page[p].flag = "freeing"
    PROVE  page[p].xheap # NoHeap /\ Owner(p) # NoThread /\ InUse(page[p])
  BY DEF FullInv, Handover, PageHeld

\* ... and a block out of it that neither the program nor a thread freeing
\* delayed blocks holds, so it is not cleared.
LEMMA FreeingIsOut ==
    ASSUME FullInv, NEW p \in Page, NEW b, page[p].flag = "freeing",
           Out(page[p]) \subseteq {b}
    PROVE  b \notin live /\ \A t \in Thread : pc[t].at = "collect" => pc[t].block # b
<1>1. PICK u \in Thread : Frees(u, p)
  BY DEF FullInv, Handover, Claimed
<1>2. pc[u].at \in FreeingAt /\ PageOf[pc[u].block] = p
  BY <1>1 DEF Frees
<1>3. pc[u].block = b
  BY <1>2, FreerOut
<1>4. CASE pc[u].at \in {"load", "push"}
  <2>1. b \in Carried(u)
    BY <1>3, <1>4 DEF Carried, Hand
  <2>2. \A t \in Thread : t # u => b \notin Carried(t)
    BY <2>1, CarriedOnly DEF FullInv, OnlyWith
  <2> QED
    BY <1>4, <2>1, <2>2, CarriedOnly DEF FullInv, Carried, Hand
<1>5. CASE pc[u].at = "reset"
  <2>1. OnItsWay(b)
    BY <1>3, <1>5 DEF FullInv, Handover, FreerHeld, FreeingAt
  <2>2. b \notin live
    BY <2>1 DEF OnItsWay, FullInv, IInv, Exclusive, AwayOnce, Carried
  <2>3. \A t \in Thread : b \notin Hand(t)
    BY <2>1 DEF OnItsWay, FullInv, IInv, Exclusive, AwayOnce, Carried
  <2> QED
    BY <2>2, <2>3 DEF Hand
<1> QED
  BY <1>2, <1>4, <1>5 DEF FreeingAt

-----------------------------------------------------------------------------
(* Threads that do not take the step.                                      *)

\* What other threads rely on in page p is as it was.
SameFace(p) ==
    /\ page'[p].xheap = page[p].xheap
    /\ InUse(page'[p]) <=> InUse(page[p])
    /\ page'[p].flag = "never" <=> page[p].flag = "never"

\* Page p is t's to change, and stays with t or with nobody.
OwnChange(t, p) ==
    /\ Spared(t, p)
    /\ page'[p].xheap = NoHeap \/ heapThread[page'[p].xheap] = t

\* Only heaps of t come and go.
OwnHeaps(t) == \A h \in Heap :
    \/ heapThread'[h] = heapThread[h]
    \/ heapThread[h] \in {t, NoThread} /\ heapThread'[h] \in {t, NoThread}

\* A segment another thread looks at stays what it is.
OwnSegments(t) == \A u \in Thread \ {t} : pc[u].seg # NoSegment =>
    /\ threadId'[pc[u].seg] = threadId[pc[u].seg]
    /\ pc[u].seg \notin abandoned => pc[u].seg \notin abandoned'

\* Nothing comes to the list of a heap that goes.
ClosedStay(t) == \A u \in Thread \ {t}, h \in Heap :
    pc[u].heap = h /\ pc[u].op \in {"done", "absorb"} /\ pc[u].at # "never"
        /\ delayed[h] = {} => delayed'[h] = {}

LEMMA OthersAtWork ==
    ASSUME FullInv, NEW t \in Thread, NEW c, Leaves(t, c),
           \A p \in Page : SameFace(p) \/ OwnChange(t, p),
           OwnHeaps(t), OwnSegments(t), ClosedStay(t)
    PROVE  \A u \in Thread \ {t} : AtWork(u)'
<1> SUFFICES ASSUME NEW u \in Thread \ {t} PROVE AtWork(u)'
  OBVIOUS
<1>1. pc'[u] = pc[u] /\ AtWork(u) /\ u # NoThread /\ u # t
  BY ThreadFreeAssumption DEF Leaves, FullInv, IInv, TypeOK, Handover
<1>2. pc[u] \in Control /\ Placed(pc[u])
  BY InControl DEF FullInv
<1>3. \A h \in Heap : heapThread'[h] = u <=> heapThread[h] = u
  BY <1>1 DEF OwnHeaps
<1>4. pc[u].at \notin FreeingAt \cup {"idle"} =>
          heapThread[pc[u].heap] = u /\ pc[u].heap \in Heap /\ pc[u].heap # NoHeap
  BY <1>1, <1>2, ThreadFreeAssumption DEF AtWork, AtHome, Placed, FreeingAt
<1>5. \A p \in Page, h \in Heap : heapThread[h] = u =>
          /\ page'[p].xheap = h <=> page[p].xheap = h
          /\ page[p].xheap = h => page'[p].flag = "never" <=> page[p].flag = "never"
  <2> SUFFICES ASSUME NEW p \in Page, NEW h \in Heap, heapThread[h] = u
               PROVE  /\ page'[p].xheap = h <=> page[p].xheap = h
                      /\ page[p].xheap = h =>
                           page'[p].flag = "never" <=> page[p].flag = "never"
    OBVIOUS
  <2>1. h # NoHeap
    BY ThreadFreeAssumption
  <2>2. CASE SameFace(p)
    BY <2>2 DEF SameFace
  <2>3. CASE OwnChange(t, p)
    BY <1>1, <2>1, <2>3 DEF OwnChange, Spared, Owner
  <2> QED
    BY <2>2, <2>3
<1>6. ASSUME NEW p \in Page, pc[u].at \in ReclaimAt, p \in pc[u].todo
      PROVE  /\ page'[p].xheap = page[p].xheap
             /\ InUse(page'[p]) <=> InUse(page[p])
  BY <1>6 DEF SameFace, OwnChange, Spared
<1>7. Pages(pc[u].heap)' = Pages(pc[u].heap) \/ pc[u].at \in FreeingAt \cup {"idle"}
  BY <1>1, <1>4, <1>5 DEF Pages
<1>8. AtHome(u)'
  BY <1>1, <1>3, <1>4, <1>7 DEF AtWork, AtHome, FreeingAt
<1>9. AtSegment(u)'
  <2>1. pc[u].at \in {"check"} \cup ReclaimAt =>
            pc[u].seg # NoSegment /\ pc[u].seg \in Segment
    BY <1>2, ThreadFreeAssumption DEF Placed, ReclaimAt
  <2>2. pc[u].at = "check" =>
            threadId'[pc[u].seg] = NoThread /\ pc[u].seg \notin abandoned'
    BY <1>1, <2>1 DEF OwnSegments, AtWork, AtSegment
  <2>3. pc[u].at \in ReclaimAt => threadId'[pc[u].seg] = u
    BY <1>1, <2>1 DEF OwnSegments, AtWork, AtSegment
  <2>4. pc[u].at \in {"allow", "gather"} => pc[u].page \in Page
    BY <1>2 DEF Placed
  <2>5. pc[u].todo \subseteq Page
    BY <1>2 DEF Control
  <2>6. pc[u].at \in {"allow", "gather"} => page'[pc[u].page].xheap = pc[u].heap
    BY <1>1, <1>4, <1>5, <2>4 DEF AtWork, AtSegment, FreeingAt
  <2>7. pc[u].at = "gather" => page'[pc[u].page].flag # "never"
    BY <1>1, <1>4, <1>5, <2>4 DEF AtWork, AtSegment, FreeingAt
  <2>8. pc[u].at \in ReclaimAt => \A q \in pc[u].todo :
            /\ SegmentOf[q] = pc[u].seg
            /\ InUse(page'[q]) /\ page'[q].xheap = NoHeap
    BY <1>1, <1>6, <2>5 DEF AtWork, AtSegment
  <2> QED
    BY <1>1, <2>2, <2>3, <2>6, <2>7, <2>8 DEF AtWork, AtSegment
<1>10. Ending(u)'
  <2>1. CASE pc[u].op # "done"
    BY <1>1, <2>1 DEF AtWork, Ending
  <2>2. CASE pc[u].op = "done"
    <3>1. Ending(u) /\ pc[u].heap = Backing[u] /\ Backing[u] \in Heap
          /\ heapThread[Backing[u]] = u
      BY <1>1, <1>4, <2>2, ThreadFreeAssumption DEF AtWork, Ending, FreeingAt
    <3>2. \A h \in Heap : heapThread'[h] = u => h = Backing[u]
      BY <1>3, <2>2, <3>1 DEF Ending
    <3>3. pc[u].at # "never" => delayed'[Backing[u]] = {} /\ ~pc[u].again
      BY <1>1, <2>2, <3>1 DEF Ending, ClosedStay
    <3>4. \A p \in Page : page'[p].xheap = Backing[u] =>
               \/ page'[p].flag = "never"
               \/ pc[u].at = "never" /\ p \in pc[u].todo
      BY <1>5, <2>2, <3>1 DEF Ending
    <3>5. pc[u].at \notin {"never", "delayed", "collect"} =>
               \A p \in Page : page'[p].xheap = Backing[u] =>
                   pc[u].at = "pages" /\ p \in pc[u].todo
      BY <1>5, <2>2, <3>1 DEF Ending
    <3> QED
      BY <1>1, <2>2, <3>1, <3>2, <3>3, <3>4, <3>5 DEF Ending
  <2> QED
    BY <2>1, <2>2
<1>11. Deleting(u)'
  <2>1. pc[u].at = "spin" => page'[pc[u].page].xheap = Backing[u]
    <3> SUFFICES ASSUME pc[u].at = "spin"
                 PROVE  page'[pc[u].page].xheap = Backing[u]
      OBVIOUS
    <3>1. pc[u].page \in Page /\ page[pc[u].page].xheap = Backing[u]
          /\ Backing[u] \in Heap
      BY <1>1, <1>2, ThreadFreeAssumption DEF Placed, AtWork, Deleting
    <3>2. heapThread[Backing[u]] = u
      BY <1>1, <1>4, ThreadFreeAssumption DEF FullInv, Handover, HeapsHeld, FreeingAt
    <3> QED
      BY <1>5, <3>1, <3>2
  <2>2. pc[u].op \in {"delete", "absorb"} => Pages(pc[u].heap)' = Pages(pc[u].heap)
    BY <1>1, <1>7 DEF AtWork, Deleting, FreeingAt
  <2>3. pc[u].op = "absorb" /\ ~pc[u].again => delayed'[pc[u].heap] = {}
    BY <1>1, <1>4 DEF AtWork, Deleting, ClosedStay, FreeingAt
  <2> QED
    BY <1>1, <2>1, <2>2, <2>3 DEF AtWork, Deleting
<1> QED
  BY <1>8, <1>9, <1>10, <1>11 DEF AtWork

-----------------------------------------------------------------------------
(* Claims, lists and blocks.                                               *)

\* A step that neither begins nor ends a claim on a page, changes no claimed page
\* and keeps the claimed pages' blocks on their way.
LEMMA ClaimsKept ==
    ASSUME FullInv, NEW t \in Thread, NEW c, Leaves(t, c),
           pc[t].at \notin FreeingAt, c.at \notin FreeingAt,
           pc[t].at = "spin" => page[pc[t].page].flag # "freeing",
           \A p \in Page : /\ page'[p].flag = "freeing" <=> page[p].flag = "freeing"
                           /\ page[p].flag = "freeing" =>
                                  page'[p].xheap = page[p].xheap,
           \A b \in Block : OnItsWay(b) /\ page[PageOf[b]].flag = "freeing" =>
                                OnItsWay(b)'
    PROVE  (\A u \in Thread : FreerHeld(u)') /\ (\A p \in Page : Claimed(p)')
<1>1. pc'[t] = c /\ \A u \in Thread : u # t => pc'[u] = pc[u]
  BY DEF Leaves, FullInv, IInv, TypeOK
<1>2. \A u \in Thread, p \in Page : Frees(u, p)' <=> Frees(u, p)
  BY <1>1 DEF Frees
<1>3. ASSUME NEW u \in Thread PROVE FreerHeld(u)'
  <2> SUFFICES ASSUME pc[u].at \in FreeingAt, u # t PROVE FreerHeld(u)'
    BY <1>1 DEF FreerHeld
  <2> DEFINE b == pc[u].block
             p == PageOf[b]
  <2>1. b \in Block /\ p \in Page /\ page[p].flag = "freeing" /\ pc'[u] = pc[u]
    BY <1>1, FreerOut
  <2>2. FreerHeld(u)
    BY DEF FullInv, Handover
  <2>3. page'[p].flag = "freeing" /\ page'[p].xheap = page[p].xheap
    BY <2>1
  <2>4. pc[u].at = "reset" => OnItsWay(b)'
    BY <2>1, <2>2 DEF FreerHeld
  <2>5. \A v \in Thread : pc[v].at = "spin" /\ pc[v].page = p => pc'[v] = pc[v]
    BY <1>1, <2>1
  <2>6. pc[u].at = "push" =>
           \/ pc[u].heap = page'[p].xheap
           \/ \E v \in Thread : pc'[v].at = "spin" /\ pc'[v].page = p
                                /\ pc'[v].heap = pc[u].heap
    BY <2>2, <2>3, <2>5 DEF FreerHeld
  <2>7. \A v \in Thread : v # u => ~Frees(v, p)'
    BY <1>2, <2>1, <2>2 DEF FreerHeld
  <2> HIDE DEF b, p
  <2> QED
    BY <2>1, <2>3, <2>4, <2>6, <2>7 DEF FreerHeld, b, p
<1>4. \A p \in Page : Claimed(p)'
  BY <1>2 DEF FullInv, Handover, Claimed
<1> QED
  BY <1>3, <1>4

\* No block of page p is on a delayed list, taken off one or about to be freed.
Bare(p) == \A b \in Block : PageOf[b] = p =>
    ~OnItsWay(b) /\ \A u \in Thread : pc[u].at = "collect" => pc[u].block # b

\* A step that puts no block on a list, and changes the heap or the owner only of
\* pages that have none on one.
LEMMA ListsKept ==
    ASSUME FullInv, TypeOK', NEW t \in Thread, NEW c, Leaves(t, c),
           \A h \in Heap : /\ delayed'[h] \subseteq delayed[h]
                           /\ delayed'[h] # {} => heapThread'[h] = heapThread[h]
                           /\ Absorbs(t, h) => Absorbs(t, h)' \/ delayed'[h] = {},
           c.taken \subseteq pc[t].taken,
           c.taken # {} => c.heap = pc[t].heap /\ c.op = pc[t].op,
           c.at = "collect" => \/ c.block \in pc[t].taken
                               \/ pc[t].at = "collect" /\ c.block = pc[t].block,
           \A p \in Page : \/ /\ Owner(p)' = Owner(p)
                              /\ page'[p].xheap = page[p].xheap
                           \/ Bare(p)'
    PROVE  (\A h \in Heap : ListHeld(h)') /\ (\A u \in Thread : TakenHeld(u)')
<1>1. pc'[t] = c /\ \A u \in Thread : u # t => pc'[u] = pc[u]
  BY DEF Leaves, FullInv, IInv, TypeOK
<1>2. ASSUME NEW h \in Heap PROVE ListHeld(h)'
  <2> SUFFICES ASSUME NEW b \in delayed'[h]
               PROVE  /\ heapThread'[h] # NoThread
                      /\ Owner(PageOf[b])' = heapThread'[h]
                      /\ \/ page'[PageOf[b]].xheap = h
                         \/ \E u \in Thread : Absorbs(u, h)'
    BY DEF ListHeld
  <2>1. b \in delayed[h] /\ heapThread'[h] = heapThread[h] /\ ListHeld(h)
    BY DEF FullInv, Handover
  <2>2. b \in Block /\ PageOf[b] \in Page /\ OnItsWay(b)'
    BY <2>1, ThreadFreeAssumption DEF OnItsWay, FullInv, IInv, TypeOK
  <2>3. Owner(PageOf[b])' = Owner(PageOf[b])
        /\ page'[PageOf[b]].xheap = page[PageOf[b]].xheap
    BY <2>2 DEF Bare
  <2>4. (\E u \in Thread : Absorbs(u, h)) => \E u \in Thread : Absorbs(u, h)'
    BY <1>1 DEF Absorbs
  <2> QED
    BY <2>1, <2>3, <2>4 DEF ListHeld
<1>3. ASSUME NEW u \in Thread PROVE TakenHeld(u)'
  <2>1. TakenHeld(u) /\ pc'[u] \in Control /\ Placed(pc'[u])
    BY DEF FullInv, Handover, TypeOK
  <2>2. /\ pc'[u].taken \subseteq pc[u].taken /\ pc'[u].taken \subseteq Block
        /\ pc'[u].taken # {} => pc'[u].heap = pc[u].heap /\ pc'[u].op = pc[u].op
    BY <1>1, <2>1 DEF Control
  <2>3. pc'[u].at = "collect" =>
            /\ \/ pc'[u].block \in pc[u].taken
               \/ pc[u].at = "collect" /\ pc'[u].block = pc[u].block
            /\ pc'[u].block \in Block
    BY <1>1, <2>1 DEF Placed
  <2>4. ASSUME NEW b \in pc'[u].taken
        PROVE  /\ Owner(PageOf[b])' = u
               /\ \/ page'[PageOf[b]].xheap = pc'[u].heap
                  \/ Absorbs(u, pc[u].heap)'
    <3>1. b \in pc[u].taken /\ b \in Block /\ PageOf[b] \in Page /\ OnItsWay(b)'
      BY <2>2, ThreadFreeAssumption DEF OnItsWay
    <3>2. Owner(PageOf[b])' = Owner(PageOf[b])
          /\ page'[PageOf[b]].xheap = page[PageOf[b]].xheap
      BY <3>1 DEF Bare
    <3> QED
      BY <2>1, <2>2, <3>1, <3>2 DEF TakenHeld, Absorbs
  <2>5. ASSUME NEW d, d = pc'[u].block, pc'[u].at = "collect"
        PROVE  Owner(PageOf[d])' = u
    <3>1. d \in Block /\ PageOf[d] \in Page /\ ~Bare(PageOf[d])'
      BY <2>3, <2>5, ThreadFreeAssumption DEF Bare
    <3>2. Owner(PageOf[d])' = Owner(PageOf[d])
      BY <3>1
    <3> QED
      BY <2>1, <2>3, <2>5, <3>2 DEF TakenHeld
  <2> QED
    BY <2>2, <2>4, <2>5 DEF TakenHeld
<1> QED
  BY <1>2, <1>3

\* A step that loses no block.
LEMMA OutKept ==
    ASSUME FullInv,
           \A p \in Page : Out(page'[p]) \subseteq Out(page[p]) \cup live',
           \A b : Away(b) => Away(b)' \/ b \notin Out(page'[PageOf[b]])
    PROVE  \A p \in Page : OutIsAway(p)'
<1> SUFFICES ASSUME NEW p \in Page, NEW b \in Out(page'[p]) PROVE Away(b)'
  BY DEF OutIsAway, Away
<1>1. b \in live' => Away(b)'
  BY DEF Away
<1>2. b \in Out(page[p]) => Away(b) /\ PageOf[b] = p
  BY DEF FullInv, Handover, OutIsAway, Away, IInv, Exclusive, PagesOK, PageOK,
         Out, BlocksOf
<1> QED
  BY <1>1, <1>2

\* The lists when a step changes none and t takes nothing off.
LEMMA SameLists ==
    ASSUME FullInv, NEW t \in Thread, NEW c, Leaves(t, c), UNCHANGED delayed,
           c.taken = pc[t].taken
    PROVE  /\ \A b : OnItsWay(b)' <=> OnItsWay(b)
           /\ \A p : Delayed(p)' <=> Delayed(p)
<1>1. \A u \in Thread : pc'[u].taken = pc[u].taken
  BY DEF Leaves, FullInv, IInv, TypeOK
<1> QED
  BY <1>1 DEF OnItsWay, Delayed

-----------------------------------------------------------------------------
(* Whole steps of one kind.                                                *)

\* The places where a thread holds a claim, a block, or a page half moved.
HoldsAt == FreeingAt \cup {"collect", "gather", "spin"}

\* t goes on from pc[t] to c without a block, and a heap it deletes stays so.
Passes(t, c) ==
    /\ Leaves(t, c)
    /\ pc[t].at \notin HoldsAt /\ c.at \notin HoldsAt
    /\ pc[t].taken = {} /\ c.taken = {}
    /\ pc[t].op \in {"delete", "absorb"} => c.op = pc[t].op /\ c.heap = pc[t].heap

\* The part of Handover that is about who owns what.
OwnersHeld ==
    /\ HeapsHeld /\ SegmentsHeld
    /\ \A p \in Page : PageHeld(p)
    /\ \A t \in Thread : AtWork(t)

\* A step that moves t, and at most a segment.
LEMMA Moves ==
    ASSUME FullInv, IInv', NEW t \in Thread, NEW c, Passes(t, c),
           UNCHANGED <<page, delayed, heapThread, live>>, OwnersHeld'
    PROVE  Handover'
<1>1. Leaves(t, c) /\ pc'[t] = c /\ \A u \in Thread : u # t => pc'[u] = pc[u]
  BY DEF Passes, Leaves, FullInv, IInv, TypeOK
<1>2. \A b : OnItsWay(b)' <=> OnItsWay(b)
  BY <1>1, SameLists DEF Passes
<1>3. \A p : Delayed(p)' <=> Delayed(p)
  BY <1>1, SameLists DEF Passes
<1>4. (\A u \in Thread : FreerHeld(u)') /\ (\A p \in Page : Claimed(p)')
  BY <1>1, <1>2, ClaimsKept DEF Passes, HoldsAt
<1>5. (\A h \in Heap : ListHeld(h)') /\ (\A u \in Thread : TakenHeld(u)')
  <2>1. \A p \in Page : Owner(p)' = Owner(p)
    BY DEF Owner
  <2>2. \A h \in Heap : Absorbs(t, h) => Absorbs(t, h)'
    BY <1>1 DEF Passes, Absorbs
  <2>3. TypeOK' /\ c.at # "collect" /\ c.taken = {}
    BY DEF IInv, Passes, HoldsAt
  <2> QED
    BY <1>1, <2>1, <2>2, <2>3, ListsKept
<1>6. \A p \in Page : Collecting(p)' <=> Collecting(p)
  BY <1>1 DEF Collecting, Passes, HoldsAt
<1>7. \A p \in Page : Returns(p)'
  BY <1>3, <1>6 DEF Returns, FullInv, Handover
<1>8. \A p \in Page : OutIsAway(p)'
  <2>1. \A u \in Thread : Carried(u)' = Carried(u)
    BY <1>1 DEF Carried, Hand, Passes, HoldsAt, FreeingAt
  <2>2. \A b : Away(b) => Away(b)'
    BY <2>1 DEF Away
  <2> QED
    BY <2>2, OutKept
<1> QED
  BY <1>4, <1>5, <1>7, <1>8 DEF Handover, OwnersHeld

\* A step that changes one page, whose blocks may come back or go to the program:
\* its heap, flag and use stay, or it is cleared.
Returned(p, pg, b) ==
    \/ /\ pg.xheap = page[p].xheap /\ pg.flag = page[p].flag
       /\ InUse(pg) <=> InUse(page[p])
       /\ pg.thread_free \subseteq page[p].thread_free \/ pg.flag # "use"
    \/ pg = Unused /\ Out(page[p]) \subseteq {b}

\* The page t has in hand is p, and its thread_free list is taken.
Handles(t, p, pg) ==
    \/ pc[t].at \notin {"collect", "gather"}
    \/ /\ pc[t].at = "collect" => PageOf[pc[t].block] = p
       /\ pc[t].at = "gather" => pc[t].page = p
       /\ pg.thread_free = {}

\* t goes on to c, and b is the one block that is no longer with it or the program.
Puts(t, c, b) ==
    /\ Leaves(t, c)
    /\ pc[t].at \notin FreeingAt \cup {"spin"} /\ c.at \notin HoldsAt
    /\ c.taken = pc[t].taken
    /\ c.taken # {} \/ c.op \in {"delete", "absorb"} \/ pc[t].op \in {"delete", "absorb"} =>
           c.heap = pc[t].heap /\ c.op = pc[t].op
    /\ pc[t].at = "collect" => b = pc[t].block
    /\ \A d \in live : d \in live' \/ d = b
    /\ b \in live \/ pc[t].at = "collect" \/ b = NoBlock

LEMMA PageStep ==
    ASSUME FullInv, IInv', NEW t \in Thread, NEW c, NEW b, Puts(t, c, b),
           NEW p \in Page, NEW pg, page' = [page EXCEPT ![p] = pg],
           Returned(p, pg, b), Handles(t, p, pg), UNCHANGED <<delayed, heapThread>>,
           Out(pg) \subseteq Out(page[p]) \cup live', b \notin Out(pg),
           b # NoBlock => PageOf[b] = p, OwnersHeld'
    PROVE  Handover'
<1>1. Leaves(t, c) /\ pc'[t] = c /\ \A u \in Thread : u # t => pc'[u] = pc[u]
  BY DEF Puts, Leaves, FullInv, IInv, TypeOK
<1>2. page'[p] = pg /\ \A q \in Page : q # p => page'[q] = page[q]
  BY DEF FullInv, IInv, TypeOK
<1>3. \A d : OnItsWay(d)' <=> OnItsWay(d)
  BY <1>1, SameLists DEF Puts
<1>4. \A q : Delayed(q)' <=> Delayed(q)
  BY <1>1, SameLists DEF Puts
<1>5. Unused.flag = "use" /\ Unused.thread_free = {} /\ Out(Unused) = {}
  BY DEF Unused, Out
<1>6. pg = Unused /\ Out(page[p]) \subseteq {b} => page[p].flag # "freeing"
  <2> SUFFICES ASSUME Out(page[p]) \subseteq {b}, page[p].flag = "freeing"
               PROVE  FALSE
    OBVIOUS
  <2>1. b \notin live /\ \A u \in Thread : pc[u].at = "collect" => pc[u].block # b
    BY FreeingIsOut
  <2>2. b = NoBlock
    BY <2>1 DEF Puts
  <2>3. PICK u \in Thread : Frees(u, p)
    BY DEF FullInv, Handover, Claimed
  <2>4. pc[u].block \in Block /\ pc[u].block \in Out(page[p])
    BY <2>3, FreerOut DEF Frees
  <2> QED
    BY <2>2, <2>4, ThreadFreeAssumption
<1>7. (\A u \in Thread : FreerHeld(u)') /\ (\A q \in Page : Claimed(q)')
  <2>1. \A q \in Page : /\ page'[q].flag = "freeing" <=> page[q].flag = "freeing"
                        /\ page[q].flag = "freeing" =>
                               page'[q].xheap = page[q].xheap
    BY <1>2, <1>5, <1>6 DEF Returned
  <2> QED
    BY <1>1, <1>3, <2>1, ClaimsKept DEF Puts, HoldsAt
<1>8. (\A h \in Heap : ListHeld(h)') /\ (\A u \in Thread : TakenHeld(u)')
  <2>1. \A q \in Page : q # p => /\ Owner(q)' = Owner(q)
                                 /\ page'[q].xheap = page[q].xheap
    BY <1>2 DEF Owner
  <2>2. \/ Owner(p)' = Owner(p) /\ page'[p].xheap = page[p].xheap
        \/ Bare(p)'
    <3>1. CASE pg.xheap = page[p].xheap
      BY <1>2, <3>1 DEF Owner
    <3>2. CASE pg = Unused
      <4>1. Out(page'[p]) = {}
        BY <1>2, <1>5, <3>2
      <4>2. \A d \in Block : PageOf[d] = p => ~Away(d)'
        BY <4>1 DEF IInv, Exclusive, AwayIsOut, Away
      <4>3. Bare(p)'
        BY <4>2 DEF Bare, Away, OnItsWay, Carried, Hand
      <4> QED
        BY <4>3
    <3> QED
      BY <3>1, <3>2 DEF Returned
  <2>3. \A h \in Heap : Absorbs(t, h) => Absorbs(t, h)'
    BY <1>1 DEF Puts, Absorbs
  <2>4. TypeOK' /\ c.at # "collect"
    BY DEF IInv, Puts, HoldsAt
  <2> QED
    BY <1>1, <2>1, <2>2, <2>3, <2>4, ListsKept DEF Puts
<1>9. \A q \in Page : Returns(q)'
  <2>1. ASSUME NEW q \in Page, q # p PROVE Returns(q)'
    <3>1. Collecting(q) => Collecting(q)'
      BY <1>1, <2>1 DEF Collecting, Handles
    <3> QED
      BY <1>2, <1>4, <2>1, <3>1 DEF Returns, FullInv, Handover
  <2>2. Returns(p)'
    <3>1. CASE pg = Unused
      BY <1>2, <1>5, <3>1 DEF Returns
    <3>2. CASE /\ pg.flag = page[p].flag
               /\ pg.thread_free \subseteq page[p].thread_free \/ pg.flag # "use"
      <4>1. Returns(p) /\ page[p].flag \in Flag
        BY DEF FullInv, Handover, IInv, TypeOK, PageRecord
      <4>2. pg.thread_free = {} \/ (Collecting(p) => Collecting(p)')
        BY <1>1 DEF Collecting, Handles
      <4> QED
        BY <1>2, <1>4, <3>2, <4>1, <4>2 DEF Returns, Flag
    <3> QED
      BY <3>1, <3>2 DEF Returned
  <2> QED
    BY <2>1, <2>2
<1>10. \A q \in Page : OutIsAway(q)'
  <2>1. \A u \in Thread : u # t => Carried(u)' = Carried(u)
    BY <1>1 DEF Carried, Hand
  <2>2. Carried(t) \subseteq Carried(t)' \cup {b}
    BY <1>1 DEF Carried, Hand, Puts, HoldsAt, FreeingAt
  <2>3. \A d : Away(d) => Away(d)' \/ d = b
    BY <2>1, <2>2 DEF Away, Puts
  <2>4. \A q \in Page : Out(page'[q]) \subseteq Out(page[q]) \cup live'
    BY <1>2
  <2>5. b \notin Out(page'[PageOf[b]]) \/ b = NoBlock
    BY <1>2
  <2>6. ~Away(NoBlock)
    BY ThreadFreeAssumption DEF Away, FullInv, IInv, TypeOK, Carried, Hand,
       Placed, Control
  <2> QED
    BY <2>3, <2>4, <2>5, <2>6, OutKept
<1> QED
  BY <1>7, <1>8, <1>9, <1>10 DEF Handover, OwnersHeld

-----------------------------------------------------------------------------
(* Owners.                                                                 *)

\* A step that changes no owner of a heap or a segment.
LEMMA OwnersKept ==
    ASSUME FullInv, NEW t \in Thread, NEW c, Leaves(t, c),
           UNCHANGED <<heapThread, threadId, abandoned>>,
           c.seg \in {pc[t].seg, NoSegment},
           \A p \in Page : SameFace(p) \/ OwnChange(t, p),
           \A p \in Page : page'[p] = page[p] \/ PageHeld(p)',
           ClosedStay(t), AtWork(t)'
    PROVE  OwnersHeld'
<1>1. pc'[t] = c /\ \A u \in Thread : u # t => pc'[u] = pc[u]
  BY DEF Leaves, FullInv, IInv, TypeOK
<1>2. HeapsHeld' /\ SegmentsHeld'
  BY <1>1 DEF FullInv, Handover, HeapsHeld, SegmentsHeld
<1>3. \A p \in Page : PageHeld(p)'
  BY DEF FullInv, Handover, PageHeld, Owner
<1>4. OwnHeaps(t) /\ OwnSegments(t)
  BY DEF OwnHeaps, OwnSegments
<1>5. \A u \in Thread : AtWork(u)'
  BY <1>4, OthersAtWork
<1> QED
  BY <1>2, <1>3, <1>5 DEF OwnersHeld

\* A step in which t changes a page of a segment of its own and settles it.
LEMMA OwnersSettled ==
    ASSUME FullInv, NEW t \in Thread, NEW c, Leaves(t, c),
           NEW p \in Page, NEW pg, Settle(p, pg), threadId[SegmentOf[p]] = t,
           pc[t].seg = NoSegment, c.seg = NoSegment,
           UNCHANGED <<delayed, heapThread>>,
           pg.xheap \in {page[p].xheap, NoHeap},
           ~InUse(pg) => pg.xheap = NoHeap /\ pg.flag = "use",
           InUse(pg) /\ pg.xheap = NoHeap => pg.flag = "never",
           AtWork(t)'
    PROVE  OwnersHeld'
<1> DEFINE s == SegmentOf[p]
<1>1. pc'[t] = c /\ \A u \in Thread : u # t => pc'[u] = pc[u]
  BY DEF Leaves, FullInv, IInv, TypeOK
<1>2. /\ page'[p] = pg /\ \A q \in Page : q # p => page'[q] = page[q]
      /\ page' = [page EXCEPT ![p] = pg]
  BY DEF Settle, FullInv, IInv, TypeOK
<1>3. s \in Segment /\ s # NoSegment /\ t # NoThread
  BY ThreadFreeAssumption
<1>4. /\ \A r \in Segment : r # s => threadId'[r] = threadId[r]
      /\ \/ threadId'[s] = t /\ abandoned' = abandoned
         \/ threadId'[s] = NoThread /\ abandoned' \subseteq abandoned \cup {s}
            /\ \A q \in UsedPages(page', s) : page'[q].xheap = NoHeap
  BY <1>3 DEF Settle, FullInv, IInv, TypeOK
<1>5. HeapsHeld'
  BY DEF FullInv, Handover, HeapsHeld
<1>6. \A u \in Thread \ {t} : pc[u].seg # s
  BY <1>3 DEF FullInv, Handover, AtWork, AtHome, AtSegment, SegmentAt
<1>7. SegmentsHeld'
  <2>1. s \notin abandoned /\ \A r \in abandoned : threadId[r] = NoThread
    BY <1>3 DEF FullInv, Handover, SegmentsHeld
  <2>2. \A r \in abandoned' : threadId'[r] = NoThread
    BY <1>4, <2>1 DEF FullInv, IInv, TypeOK
  <2>3. \A v, u \in Thread :
            v # u /\ pc'[v].seg # NoSegment => pc'[v].seg # pc'[u].seg
    BY <1>1 DEF FullInv, Handover, SegmentsHeld
  <2> QED
    BY <2>2, <2>3 DEF SegmentsHeld
<1>8. ASSUME NEW q \in Page PROVE PageHeld(q)'
  <2>1. PageHeld(q) /\ PageHeld(p)
    BY DEF FullInv, Handover
  <2>2. /\ ~InUse(page'[q]) => page'[q].xheap = NoHeap /\ page'[q].flag = "use"
        /\ InUse(page'[q]) /\ page'[q].xheap = NoHeap => page'[q].flag = "never"
        /\ page'[q].xheap # NoHeap => page'[q].xheap = page[q].xheap
    BY <1>2, <2>1 DEF PageHeld
  <2>3. page'[q].xheap # NoHeap =>
            /\ Owner(q)' # NoThread
            /\ Owner(q)' = threadId[SegmentOf[q]]
    BY <2>1, <2>2 DEF PageHeld, Owner
  <2>4. page'[q].xheap # NoHeap => threadId'[SegmentOf[q]] = threadId[SegmentOf[q]]
    <3>1. SegmentOf[q] \in Segment
      BY ThreadFreeAssumption
    <3>2. CASE SegmentOf[q] # s
      BY <1>4, <3>1, <3>2
    <3>3. CASE SegmentOf[q] = s
      BY <1>4, <2>2, <3>3 DEF UsedPages
    <3> QED
      BY <3>2, <3>3
  <2> QED
    BY <2>2, <2>3, <2>4 DEF PageHeld
<1>9. \A u \in Thread \ {t} : AtWork(u)'
  <2>1. OwnHeaps(t) /\ ClosedStay(t)
    BY DEF OwnHeaps, ClosedStay
  <2>2. OwnSegments(t)
    <3>1. \A u \in Thread : pc[u].seg \in Segment \cup {NoSegment}
      BY DEF FullInv, IInv, TypeOK, Control
    <3> QED
      BY <1>4, <1>6, <3>1 DEF OwnSegments
  <2>3. OwnChange(t, p)
    <3>1. Spared(t, p)
      BY MineSpared
    <3>2. page[p].xheap # NoHeap => heapThread[page[p].xheap] = t
      BY DEF FullInv, Handover, PageHeld, Owner
    <3> QED
      BY <1>2, <3>1, <3>2 DEF OwnChange
  <2>4. \A q \in Page : SameFace(q) \/ OwnChange(t, q)
    BY <1>2, <2>3 DEF SameFace
  <2> QED
    BY <2>1, <2>2, <2>4, OthersAtWork
<1> QED
  BY <1>5, <1>7, <1>8, <1>9 DEF OwnersHeld

\* A thread outside the allocator holds nothing.
LEMMA IdleAtWork ==
    ASSUME NEW t \in Thread, pc'[t] = Idle
    PROVE  AtWork(t)'
  BY DEF AtWork, AtHome, AtSegment, Ending, Deleting, Idle, FreeingAt,
         SegmentAt, ReclaimAt

\* The calls that neither end a thread nor delete a heap.
LEMMA PlainAtWork ==
    ASSUME NEW t \in Thread, NEW c, pc'[t] = c,
           c.op \notin {"done", "delete", "absorb"},
           c.at \in {"delayed", "find", "full", "pages", "abandoned", "all"},
           heapThread'[c.heap] = t, c.seg = NoSegment, c.block = NoBlock,
           c.taken = {} \/ c.at = "delayed",
           c.at = "pages" => c.todo \subseteq Pages(c.heap)'
    PROVE  AtWork(t)'
  BY DEF AtWork, AtHome, AtSegment, Ending, Deleting, FreeingAt, SegmentAt,
         ReclaimAt, Pages

\* A heap that is deleted is the deleting thread's.
LEMMA AbsorbsOwn ==
    ASSUME FullInv, NEW u \in Thread, NEW h, Absorbs(u, h)
    PROVE  heapThread[h] = u
  BY DEF Absorbs, FullInv, Handover, AtWork, AtHome, Deleting, FreeingAt

-----------------------------------------------------------------------------
(* Steps that take over a list, and heaps that come and go.                *)

LEMMA Takes ==
    ASSUME FullInv, IInv', NEW t \in Thread, NEW h \in Heap, NEW op \in Op,
           TakeDelayed(t, h, op), heapThread[h] = t,
           pc[t].at \notin HoldsAt, pc[t].taken = {},
           pc[t].op \in {"delete", "absorb"} =>
               pc[t].heap = h /\ op \in {"delete", "absorb"},
           UNCHANGED <<page, heapThread, threadId, abandoned, live>>,
           (Ending(t) /\ Deleting(t))'
    PROVE  Handover'
<1> DEFINE c == [Idle EXCEPT !.at = "delayed", !.op = op, !.heap = h,
                             !.taken = delayed[h]]
<1>1. pc' = [pc EXCEPT ![t] = c] /\ delayed' = [delayed EXCEPT ![h] = {}]
  BY DEF TakeDelayed
<1>2. /\ c.at = "delayed" /\ c.op = op /\ c.heap = h /\ c.taken = delayed[h]
      /\ c.seg = NoSegment /\ c.block = NoBlock /\ c \in Control /\ Placed(c)
  <2>1. delayed[h] \in SUBSET Block
    BY DEF FullInv, IInv, TypeOK
  <2> QED
    BY <2>1 DEF Idle, Control, Placed, Label
<1> HIDE DEF c
<1>3. Leaves(t, c) /\ pc'[t] = c /\ \A u \in Thread : u # t => pc'[u] = pc[u]
  BY <1>1, <1>2 DEF Leaves, FullInv, IInv, TypeOK
<1>4. delayed'[h] = {} /\ \A g \in Heap : g # h => delayed'[g] = delayed[g]
  BY <1>1 DEF FullInv, IInv, TypeOK
<1>5. \A b : OnItsWay(b)' <=> OnItsWay(b)
  BY <1>2, <1>3, <1>4 DEF OnItsWay
<1>6. OwnersHeld'
  <2>1. (AtHome(t) /\ AtSegment(t))'
    BY <1>2, <1>3 DEF AtHome, AtSegment, FreeingAt, SegmentAt, ReclaimAt
  <2>2. AtWork(t)'
    BY <2>1 DEF AtWork
  <2>3. \A p \in Page : SameFace(p) /\ page'[p] = page[p]
    BY DEF SameFace
  <2>4. ClosedStay(t)
    BY <1>4 DEF ClosedStay
  <2> QED
    BY <1>2, <1>3, <2>2, <2>3, <2>4, OwnersKept
<1>7. (\A u \in Thread : FreerHeld(u)') /\ (\A p \in Page : Claimed(p)')
  BY <1>2, <1>3, <1>5, ClaimsKept DEF HoldsAt, FreeingAt
<1>8. \A g \in Heap : Absorbs(t, g) => Absorbs(t, g)' /\ g = h
  BY <1>2, <1>3 DEF Absorbs
<1>9. ASSUME NEW g \in Heap PROVE ListHeld(g)'
  <2>1. \A u \in Thread : Absorbs(u, g) => Absorbs(u, g)'
    BY <1>3, <1>8 DEF Absorbs
  <2>2. \A p : Owner(p)' = Owner(p)
    BY DEF Owner
  <2>3. ListHeld(g) /\ delayed'[g] \subseteq delayed[g]
    BY <1>4 DEF FullInv, Handover
  <2> QED
    BY <2>1, <2>2, <2>3 DEF ListHeld
<1>10. ASSUME NEW u \in Thread PROVE TakenHeld(u)'
  <2>1. CASE u # t
    BY <1>3, <2>1 DEF FullInv, Handover, TakenHeld, Absorbs, Owner
  <2>2. CASE u = t
    <3>1. \A b \in delayed[h] :
              /\ Owner(PageOf[b]) = t
              /\ page[PageOf[b]].xheap = h \/ Absorbs(t, h)
      BY AbsorbsOwn DEF FullInv, Handover, ListHeld
    <3>2. Absorbs(t, h) => Absorbs(t, h)'
      BY <1>8
    <3> QED
      BY <1>2, <1>3, <2>2, <3>1, <3>2 DEF TakenHeld, Owner
  <2> QED
    BY <2>1, <2>2
<1>11. \A p \in Page : Returns(p)'
  <2>1. \A p : Delayed(p)' <=> Delayed(p)
    BY <1>2, <1>3, <1>4 DEF Delayed
  <2>2. \A p : Collecting(p)' <=> Collecting(p)
    BY <1>2, <1>3 DEF Collecting, HoldsAt
  <2> QED
    BY <2>1, <2>2 DEF Returns, FullInv, Handover
<1>12. \A p \in Page : OutIsAway(p)'
  <2>1. /\ \A u \in Thread : u # t => Carried(u)' = Carried(u)
        /\ Carried(t) = {} /\ Carried(t)' = delayed[h]
    BY <1>2, <1>3 DEF Carried, Hand, HoldsAt, FreeingAt
  <2>2. \A b : Away(b) => Away(b)'
    BY <1>4, <2>1 DEF Away
  <2> QED
    BY <2>2, OutKept
<1> QED
  BY <1>6, <1>7, <1>9, <1>10, <1>11, <1>12 DEF Handover, OwnersHeld

\* A heap that goes has no page and nothing on its list.
LEMMA Drops ==
    ASSUME FullInv, IInv', NEW t \in Thread, NEW h \in Heap, DropHeap(t, h),
           heapThread[h] = t, Pages(h) = {}, delayed[h] = {},
           h = Backing[t] => \A g \in Heap : heapThread[g] = t => g = h,
           pc[t].at \notin HoldsAt, pc[t].taken = {},
           pc[t].op \in {"delete", "absorb"} => pc[t].heap = h,
           UNCHANGED <<page, threadId, abandoned, live>>
    PROVE  Handover'
<1>1. Leaves(t, Idle) /\ pc'[t] = Idle /\ \A u \in Thread : u # t => pc'[u] = pc[u]
  BY IdleControl DEF DropHeap, Leaves, FullInv, IInv, TypeOK
<1>2. /\ heapThread'[h] = NoThread /\ delayed' = delayed
      /\ \A g \in Heap : g # h => heapThread'[g] = heapThread[g]
  BY DEF DropHeap, FullInv, IInv, TypeOK
<1>3. Idle.at = "idle" /\ Idle.taken = {} /\ Idle.seg = NoSegment /\ Idle.op = "none"
  BY DEF Idle
<1>4. \A p \in Page : page[p].xheap # h /\ Owner(p)' = Owner(p)
  <2>1. \A p \in Page : page[p].xheap # h /\ page[p].xheap \in Heap \cup {NoHeap}
    BY DEF Pages, FullInv, IInv, TypeOK, PageRecord
  <2> QED
    BY <1>2, <2>1 DEF Owner
<1>5. HeapsHeld'
  <2>1. HeapsHeld /\ t # NoThread
    BY ThreadFreeAssumption DEF FullInv, Handover
  <2>2. \A u \in Thread : heapThread'[Backing[u]] \in {u, NoThread}
    BY <1>2, <2>1, ThreadFreeAssumption DEF HeapsHeld
  <2>3. ASSUME NEW g \in Heap, heapThread'[g] # NoThread
        PROVE  heapThread'[Backing[heapThread'[g]]] = heapThread'[g]
    <3>1. g # h /\ heapThread'[g] = heapThread[g] /\ heapThread[g] \in Thread
      BY <1>2, <2>3 DEF FullInv, IInv, TypeOK
    <3>2. heapThread[Backing[heapThread[g]]] = heapThread[g]
      BY <2>1, <3>1, <2>3 DEF HeapsHeld
    <3>3. Backing[heapThread[g]] # h
      BY <3>1, <3>2
    <3> QED
      BY <1>2, <3>1, <3>2, <3>3, ThreadFreeAssumption
  <2> QED
    BY <2>2, <2>3 DEF HeapsHeld
<1>6. SegmentsHeld'
  BY <1>1, <1>3 DEF FullInv, Handover, SegmentsHeld
<1>7. \A p \in Page : PageHeld(p)'
  BY <1>4 DEF FullInv, Handover, PageHeld
<1>8. \A u \in Thread : AtWork(u)'
  <2>1. OwnHeaps(t) /\ OwnSegments(t) /\ ClosedStay(t)
    BY <1>2 DEF OwnHeaps, OwnSegments, ClosedStay
  <2>2. \A p \in Page : SameFace(p)
    BY DEF SameFace
  <2> QED
    BY <1>1, <2>1, <2>2, OthersAtWork, IdleAtWork
<1>9. \A b : OnItsWay(b)' <=> OnItsWay(b)
  BY <1>1, <1>2, <1>3, SameLists
<1>10. (\A u \in Thread : FreerHeld(u)') /\ (\A p \in Page : Claimed(p)')
  BY <1>1, <1>3, <1>9, ClaimsKept DEF HoldsAt, FreeingAt
<1>11. (\A g \in Heap : ListHeld(g)') /\ (\A u \in Thread : TakenHeld(u)')
  <2>1. \A g \in Heap : /\ delayed'[g] # {} => heapThread'[g] = heapThread[g]
                        /\ Absorbs(t, g) => delayed'[g] = {}
    BY <1>2 DEF Absorbs
  <2>2. TypeOK'
    BY DEF IInv
  <2> QED
    BY <1>1, <1>2, <1>3, <1>4, <2>1, <2>2, ListsKept
<1>12. \A p \in Page : Returns(p)'
  <2>1. \A p : Delayed(p)' <=> Delayed(p)
    BY <1>1, <1>2, <1>3, SameLists
  <2>2. \A p : Collecting(p)' <=> Collecting(p)
    BY <1>1, <1>3 DEF Collecting, HoldsAt
  <2> QED
    BY <2>1, <2>2 DEF Returns, FullInv, Handover
<1>13. \A p \in Page : OutIsAway(p)'
  <2>1. \A u \in Thread : Carried(u)' = Carried(u)
    BY <1>1, <1>3 DEF Carried, Hand, HoldsAt, FreeingAt
  <2>2. \A b : Away(b) => Away(b)'
    BY <1>2, <2>1 DEF Away
  <2> QED
    BY <2>2, OutKept
<1> QED
  BY <1>5, <1>6, <1>7, <1>8, <1>10, <1>11, <1>12, <1>13 DEF Handover

\* A heap of a thread that has its backing heap appears, or that heap itself.
LEMMA Appears ==
    ASSUME FullInv, IInv', NEW t \in Thread, NEW h \in Heap, heapThread[h] = NoThread,
           h = Backing[t] \/ /\ heapThread[Backing[t]] = t
                             /\ \A u \in Thread : Backing[u] # h,
           pc[t] = Idle, heapThread' = [heapThread EXCEPT ![h] = t],
           UNCHANGED <<page, delayed, threadId, abandoned, live, pc>>
    PROVE  Handover'
<1>1. Leaves(t, Idle) /\ pc'[t] = Idle /\ \A u \in Thread : u # t => pc'[u] = pc[u]
  BY IdleControl DEF Leaves, FullInv, IInv, TypeOK
<1>2. heapThread'[h] = t /\ \A g \in Heap : g # h => heapThread'[g] = heapThread[g]
  BY DEF FullInv, IInv, TypeOK
<1>3. Idle.at = "idle" /\ Idle.taken = {} /\ Idle.seg = NoSegment /\ Idle.op = "none"
  BY DEF Idle
<1>4. \A p \in Page : page[p].xheap # h /\ Owner(p)' = Owner(p)
  <2>1. \A p \in Page : PageHeld(p) /\ page[p].xheap \in Heap \cup {NoHeap}
    BY DEF FullInv, Handover, IInv, TypeOK, PageRecord
  <2>2. h # NoHeap
    BY ThreadFreeAssumption
  <2>3. \A p \in Page : page[p].xheap # h
    BY <2>1, <2>2 DEF PageHeld, Owner
  <2> QED
    BY <1>2, <2>1, <2>3 DEF Owner
<1>5. HeapsHeld'
  <2>1. HeapsHeld /\ t # NoThread
    BY ThreadFreeAssumption DEF FullInv, Handover
  <2>2. \A u \in Thread : heapThread'[Backing[u]] \in {u, NoThread}
    BY <1>2, <2>1, ThreadFreeAssumption DEF HeapsHeld
  <2>3. ASSUME NEW g \in Heap, heapThread'[g] # NoThread
        PROVE  heapThread'[Backing[heapThread'[g]]] = heapThread'[g]
    <3>1. CASE g = h
      BY <1>2, <3>1, ThreadFreeAssumption
    <3>2. CASE g # h
      <4>1. heapThread'[g] = heapThread[g] /\ heapThread[g] \in Thread
        BY <1>2, <2>3, <3>2 DEF FullInv, IInv, TypeOK
      <4>2. heapThread[Backing[heapThread[g]]] = heapThread[g]
        BY <2>1, <2>3, <4>1 DEF HeapsHeld
      <4>3. Backing[heapThread[g]] # h
        BY <2>3, <4>1, <4>2
      <4> QED
        BY <1>2, <4>1, <4>2, <4>3, ThreadFreeAssumption
    <3> QED
      BY <3>1, <3>2
  <2> QED
    BY <2>2, <2>3 DEF HeapsHeld
<1>6. SegmentsHeld'
  BY DEF FullInv, Handover, SegmentsHeld
<1>7. \A p \in Page : PageHeld(p)'
  BY <1>4 DEF FullInv, Handover, PageHeld
<1>8. \A u \in Thread : AtWork(u)'
  <2>1. OwnHeaps(t) /\ OwnSegments(t) /\ ClosedStay(t)
    BY <1>2 DEF OwnHeaps, OwnSegments, ClosedStay
  <2>2. \A p \in Page : SameFace(p)
    BY DEF SameFace
  <2> QED
    BY <1>1, <2>1, <2>2, OthersAtWork, IdleAtWork
<1>9. (\A u \in Thread : FreerHeld(u)') /\ (\A p \in Page : Claimed(p)')
  <2>1. \A b : OnItsWay(b)' <=> OnItsWay(b)
    BY DEF OnItsWay
  <2> QED
    BY <1>1, <1>3, <2>1, ClaimsKept DEF FreeingAt
<1>10. (\A g \in Heap : ListHeld(g)') /\ (\A u \in Thread : TakenHeld(u)')
  <2>1. delayed[h] = {}
    BY DEF FullInv, Handover, ListHeld
  <2>2. \A g \in Heap : /\ delayed'[g] # {} => heapThread'[g] = heapThread[g]
                        /\ Absorbs(t, g) => Absorbs(t, g)'
    BY <1>2, <2>1 DEF Absorbs
  <2>3. TypeOK'
    BY DEF IInv
  <2> QED
    BY <1>1, <1>3, <1>4, <2>2, <2>3, ListsKept
<1>11. \A p \in Page : Returns(p)' /\ OutIsAway(p)'
  BY DEF FullInv, Handover, Returns, Delayed, Collecting, OutIsAway, Carried, Hand
<1> QED
  BY <1>5, <1>6, <1>7, <1>8, <1>9, <1>10, <1>11 DEF Handover

-----------------------------------------------------------------------------
(* Steps that only move a thread.                                          *)

LEMMA Passed ==
    ASSUME FullInv, IInv', NEW t \in Thread, NEW c, Passes(t, c),
           c.seg \in {pc[t].seg, NoSegment},
           UNCHANGED <<page, delayed, heapThread, threadId, abandoned, live>>,
           AtWork(t)'
    PROVE  Handover'
<1>1. Leaves(t, c)
  BY DEF Passes
<1>2. \A p \in Page : SameFace(p) /\ page'[p] = page[p]
  BY DEF SameFace
<1>3. ClosedStay(t)
  BY DEF ClosedStay
<1>4. OwnersHeld'
  BY <1>1, <1>2, <1>3, OwnersKept
<1> QED
  BY <1>4, Moves

LEMMA PassesIdle ==
    ASSUME FullInv, NEW t \in Thread, pc' = [pc EXCEPT ![t] = Idle],
           pc[t].at \notin HoldsAt, pc[t].taken = {},
           pc[t].op \notin {"delete", "absorb"}
    PROVE  Passes(t, Idle) /\ Idle.seg = NoSegment /\ pc'[t] = Idle
<1>1. Idle.seg = NoSegment /\ Idle.at \notin HoldsAt
  BY DEF Idle, HoldsAt, FreeingAt
<1> QED
  BY <1>1, IdleControl DEF Passes, Leaves, FullInv, IInv, TypeOK

LEMMA PagesDoneHeld ==
    ASSUME FullInv, IInv', NEW t \in Thread, PagesDone(t)
    PROVE  Handover'
<1> DEFINE c == [pc[t] EXCEPT !.at = "abandoned"]
<1>1. /\ pc' = [pc EXCEPT ![t] = c] /\ pc[t].at = "pages" /\ pc[t].todo = {}
      /\ UNCHANGED <<page, delayed, heapThread, threadId, abandoned, live>>
  BY DEF PagesDone
<1>2. pc[t] \in Control /\ Placed(pc[t]) /\ AtWork(t)
  BY InControl DEF FullInv, Handover
<1>3. /\ c \in Control /\ Placed(c) /\ c.at = "abandoned" /\ c.op = pc[t].op
      /\ c.heap = pc[t].heap /\ c.seg = pc[t].seg /\ c.block = pc[t].block
      /\ c.taken = pc[t].taken /\ c.again = pc[t].again
  BY <1>1, <1>2 DEF Control, Placed, Label
<1> HIDE DEF c
<1>4. pc[t].taken = {} /\ pc'[t] = c
  BY <1>1, <1>2 DEF AtWork, AtHome, FullInv, IInv, TypeOK
<1>5. Passes(t, c)
  BY <1>1, <1>3, <1>4 DEF Passes, Leaves, HoldsAt, FreeingAt
<1>6. AtHome(t)' /\ AtSegment(t)' /\ Deleting(t)'
  BY <1>1, <1>2, <1>3, <1>4 DEF AtWork, AtHome, AtSegment, Deleting, FreeingAt,
     SegmentAt, ReclaimAt
<1>7. Ending(t)'
  BY <1>1, <1>2, <1>3, <1>4 DEF AtWork, Ending
<1> QED
  BY <1>1, <1>3, <1>5, <1>6, <1>7, Passed DEF AtWork

\* thread_done has checked that the backing heap is the last.
LEMMA ThreadDoneHeld ==
    ASSUME FullInv, IInv', NEW t \in Thread, ThreadDone(t)
    PROVE  Handover'
<1> DEFINE h == Backing[t]
           c == [Idle EXCEPT !.at = "never", !.op = "done", !.heap = h,
                             !.todo = Pages(h)]
<1>1. /\ pc' = [pc EXCEPT ![t] = c] /\ pc[t] = Idle /\ heapThread[h] = t
      /\ \A g \in Heap : heapThread[g] = t => g = h
      /\ UNCHANGED <<page, delayed, heapThread, threadId, abandoned, live>>
  BY DEF ThreadDone, Starts
<1>2. h \in Heap /\ Pages(h) \subseteq Page
  BY ThreadFreeAssumption DEF Pages
<1>3. /\ c \in Control /\ Placed(c) /\ c.at = "never" /\ c.op = "done"
      /\ c.heap = h /\ c.seg = NoSegment /\ c.block = NoBlock
      /\ c.taken = {} /\ c.todo = Pages(h)
  BY <1>2 DEF Idle, Control, Placed, Label, Op, AllCalls
<1>4. pc[t].taken = {} /\ pc[t].at = "idle" /\ pc[t].op = "none"
  BY <1>1 DEF Idle
<1> HIDE DEF c
<1>5. pc'[t] = c
  BY <1>1 DEF FullInv, IInv, TypeOK
<1>6. Passes(t, c)
  BY <1>1, <1>3, <1>4 DEF Passes, Leaves, HoldsAt, FreeingAt
<1>7. Pages(h)' = Pages(h)
  BY <1>1 DEF Pages
<1>8. AtHome(t)' /\ AtSegment(t)' /\ Deleting(t)'
  BY <1>1, <1>3, <1>5, <1>7 DEF AtHome, AtSegment, Deleting, FreeingAt, SegmentAt,
     ReclaimAt
<1>9. Ending(t)'
  BY <1>1, <1>3, <1>5 DEF Ending, Pages
<1> QED
  BY <1>1, <1>3, <1>6, <1>8, <1>9, Passed DEF AtWork

LEMMA CollectAllHeld ==
    ASSUME FullInv, IInv', NEW t \in Thread, NEW h \in Heap, NEW op \in Op,
           pc' = [pc EXCEPT ![t] = [Idle EXCEPT !.at = "all", !.op = op,
                                                !.heap = h, !.again = TRUE]],
           op \notin {"done", "delete", "absorb"}, heapThread[h] = t,
           pc[t].at \notin HoldsAt, pc[t].taken = {},
           pc[t].op \notin {"delete", "absorb"},
           UNCHANGED <<page, delayed, heapThread, threadId, abandoned, live>>
    PROVE  Handover'
<1> DEFINE c == [Idle EXCEPT !.at = "all", !.op = op, !.heap = h, !.again = TRUE]
<1>1. /\ c \in Control /\ Placed(c) /\ c.at = "all" /\ c.op = op
      /\ c.heap = h /\ c.seg = NoSegment /\ c.block = NoBlock /\ c.taken = {}
  BY DEF Idle, Control, Placed, Label
<1>2. pc' = [pc EXCEPT ![t] = c]
  OBVIOUS
<1> HIDE DEF c
<1>3. pc'[t] = c
  BY <1>2 DEF FullInv, IInv, TypeOK
<1>4. Passes(t, c)
  BY <1>1, <1>2 DEF Passes, Leaves, HoldsAt, FreeingAt
<1>5. AtWork(t)'
  BY <1>1, <1>3, PlainAtWork
<1> QED
  BY <1>1, <1>4, <1>5, Passed

-----------------------------------------------------------------------------
(* Steps that take over a list.                                            *)

\* The list of a heap that is neither ending nor deleted.
LEMMA TakesPlain ==
    ASSUME FullInv, IInv', NEW t \in Thread, NEW h \in Heap, NEW op \in Op,
           TakeDelayed(t, h, op), heapThread[h] = t,
           op \notin {"done", "delete", "absorb"},
           pc[t].at \notin HoldsAt, pc[t].taken = {},
           pc[t].op \notin {"delete", "absorb"},
           UNCHANGED <<page, heapThread, threadId, abandoned, live>>
    PROVE  Handover'
<1>1. pc'[t].op = op
  BY DEF TakeDelayed, FullInv, IInv, TypeOK, Idle
<1>2. pc'[t].at = "delayed"
  BY DEF TakeDelayed, FullInv, IInv, TypeOK, Idle
<1>3. (Ending(t) /\ Deleting(t))'
  BY <1>1, <1>2 DEF Ending, Deleting
<1> QED
  BY <1>3, Takes

LEMMA IdleFree ==
    /\ Idle.at = "idle" /\ Idle.at \notin HoldsAt /\ Idle.taken = {}
    /\ Idle.op \notin {"delete", "absorb"}
  BY DEF Idle, HoldsAt, FreeingAt

LEMMA MallocGenericHeld ==
    ASSUME FullInv, IInv', NEW t \in Thread, NEW h \in Heap, MallocGeneric(t, h)
    PROVE  Handover'
<1>1. "malloc" \in Op \ {"done", "delete", "absorb"}
  BY DEF Op, AllCalls
<1>2. pc[t] = Idle /\ heapThread[h] = t /\ TakeDelayed(t, h, "malloc")
      /\ UNCHANGED <<page, heapThread, threadId, abandoned, live>>
  BY DEF MallocGeneric, Starts
<1> QED
  BY <1>1, <1>2, IdleFree, TakesPlain

LEMMA CollectHeld ==
    ASSUME FullInv, IInv', NEW t \in Thread, NEW h \in Heap, NEW op \in Op,
           Collect(t, h, op), heapThread[h] = t,
           op \notin {"done", "delete", "absorb"},
           pc[t].at \notin HoldsAt, pc[t].taken = {},
           pc[t].op \notin {"delete", "absorb"},
           UNCHANGED <<page, heapThread, threadId, abandoned, live>>
    PROVE  Handover'
<1>1. CASE TakeDelayed(t, h, op)
  BY <1>1, TakesPlain
<1>2. CASE /\ pc' = [pc EXCEPT ![t] = [Idle EXCEPT !.at = "all", !.op = op,
                                                   !.heap = h, !.again = TRUE]]
           /\ UNCHANGED delayed
  BY <1>2, CollectAllHeld
<1> QED
  BY <1>1, <1>2 DEF Collect

LEMMA HeapCollectHeld ==
    ASSUME FullInv, IInv', NEW t \in Thread, NEW h \in Heap, NEW call,
           HeapCollect(t, h, call)
    PROVE  Handover'
<1>1. call \in Op /\ call \notin {"done", "delete", "absorb"}
  BY DEF HeapCollect, Op, AllCalls
<1>2. pc[t] = Idle /\ heapThread[h] = t /\ Collect(t, h, call)
      /\ UNCHANGED <<page, heapThread, threadId, abandoned, live>>
  BY DEF HeapCollect, Starts
<1> QED
  BY <1>1, <1>2, IdleFree, CollectHeld

LEMMA FindFailsHeld ==
    ASSUME FullInv, IInv', NEW t \in Thread, FindFails(t)
    PROVE  Handover'
<1>1. /\ pc[t].at = "find" /\ pc[t].at \notin HoldsAt /\ pc[t].op \in {"malloc", "retry"}
      /\ UNCHANGED <<page, heapThread, threadId, abandoned, live>>
  BY DEF FindFails, Searching, HoldsAt, FreeingAt
<1>2. Placed(pc[t]) /\ AtWork(t)
  BY InControl DEF FullInv, Handover
<1>3. pc[t].heap \in Heap /\ heapThread[pc[t].heap] = t /\ pc[t].taken = {}
  BY <1>1, <1>2 DEF Placed, AtWork, AtHome, FreeingAt
<1>4. "recollect" \in Op \ {"done", "delete", "absorb"}
  BY DEF Op
<1>5. CASE Collect(t, pc[t].heap, "recollect")
  BY <1>1, <1>3, <1>4, <1>5, CollectHeld
<1>6. CASE pc' = [pc EXCEPT ![t] = Idle] /\ UNCHANGED delayed
  BY <1>1, <1>3, <1>6, PassesIdle, IdleAtWork, Passed
<1> QED
  BY <1>5, <1>6 DEF FindFails

LEMMA AllReclaimedHeld ==
    ASSUME FullInv, IInv', NEW t \in Thread, AllReclaimed(t)
    PROVE  Handover'
<1>1. /\ pc[t].at = "all" /\ pc[t].at \notin HoldsAt
      /\ TakeDelayed(t, pc[t].heap, pc[t].op)
      /\ UNCHANGED <<page, heapThread, threadId, abandoned, live>>
  BY DEF AllReclaimed, HoldsAt, FreeingAt
<1>2. pc[t] \in Control /\ Placed(pc[t]) /\ AtWork(t)
  BY InControl DEF FullInv, Handover
<1>3. /\ pc[t].heap \in Heap /\ heapThread[pc[t].heap] = t /\ pc[t].taken = {}
      /\ pc[t].op \in Op /\ pc[t].op \notin {"done", "delete", "absorb"}
  BY <1>1, <1>2 DEF Control, Placed, AtWork, AtHome, Ending, Deleting, FreeingAt
<1> QED
  BY <1>1, <1>3, TakesPlain

\* All pages of the heap of a thread that ends are marked never.
LEMMA NeverDoneHeld ==
    ASSUME FullInv, IInv', NEW t \in Thread, NeverDone(t)
    PROVE  Handover'
<1>1. /\ pc[t].at = "never" /\ pc[t].at \notin HoldsAt /\ pc[t].todo = {}
      /\ TakeDelayed(t, pc[t].heap, "done")
      /\ UNCHANGED <<page, heapThread, threadId, abandoned, live>>
  BY DEF NeverDone, HoldsAt, FreeingAt
<1>2. Placed(pc[t]) /\ AtWork(t)
  BY InControl DEF FullInv, Handover
<1>3. /\ pc[t].heap \in Heap /\ heapThread[pc[t].heap] = t /\ pc[t].taken = {}
      /\ pc[t].op = "done" /\ pc[t].heap = Backing[t] /\ "done" \in Op
  BY <1>1, <1>2 DEF Placed, AtWork, AtHome, Ending, FreeingAt, Op, AllCalls
<1>4. /\ pc'[t].at = "delayed" /\ pc'[t].op = "done" /\ ~pc'[t].again
      /\ pc'[t].heap = Backing[t] /\ delayed'[Backing[t]] = {}
  BY <1>1, <1>3 DEF TakeDelayed, Idle, FullInv, IInv, TypeOK
<1>5. Ending(t)'
  BY <1>1, <1>2, <1>3, <1>4 DEF AtWork, Ending
<1>6. Deleting(t)'
  BY <1>4 DEF Deleting
<1> QED
  BY <1>1, <1>3, <1>5, <1>6, Takes

LEMMA AppendDoneHeld ==
    ASSUME FullInv, IInv', NEW t \in Thread, AppendDone(t)
    PROVE  Handover'
<1>1. /\ pc[t].at = "append" /\ pc[t].at \notin HoldsAt /\ pc[t].todo = {}
      /\ TakeDelayed(t, pc[t].heap, "absorb")
      /\ UNCHANGED <<page, heapThread, threadId, abandoned, live>>
  BY DEF AppendDone, HoldsAt, FreeingAt
<1>2. Placed(pc[t]) /\ AtWork(t)
  BY InControl DEF FullInv, Handover
<1>3. /\ pc[t].heap \in Heap /\ heapThread[pc[t].heap] = t /\ pc[t].taken = {}
      /\ pc[t].op = "delete" /\ pc[t].heap # Backing[t] /\ "absorb" \in Op
      /\ Pages(pc[t].heap) = {}
  BY <1>1, <1>2 DEF Placed, AtWork, AtHome, Deleting, FreeingAt, Op
<1>4. /\ pc'[t].at = "delayed" /\ pc'[t].op = "absorb"
      /\ pc'[t].heap = pc[t].heap /\ delayed'[pc[t].heap] = {}
  BY <1>1, <1>3 DEF TakeDelayed, Idle, FullInv, IInv, TypeOK
<1>5. Ending(t)'
  BY <1>4 DEF Ending
<1>6. Deleting(t)'
  BY <1>1, <1>3, <1>4 DEF Deleting, Pages
<1> QED
  BY <1>1, <1>3, <1>5, <1>6, Takes

\* Without pages a heap has nothing on its list either.
LEMMA HeapDeleteHeld ==
    ASSUME FullInv, IInv', NEW t \in Thread, NEW h \in Heap, HeapDelete(t, h)
    PROVE  Handover'
<1>1. /\ pc[t] = Idle /\ heapThread[h] = t /\ h # Backing[t]
      /\ UNCHANGED <<page, threadId, abandoned, live>>
  BY DEF HeapDelete, Starts
<1>2. "delete" \in Op
  BY DEF Op, AllCalls
<1>3. CASE TakeDelayed(t, h, "delete") /\ UNCHANGED heapThread
  <2>1. pc'[t].at = "delayed" /\ pc'[t].op = "delete" /\ pc'[t].heap = h
    BY <1>3 DEF TakeDelayed, Idle, FullInv, IInv, TypeOK
  <2>2. (Ending(t) /\ Deleting(t))'
    BY <1>1, <2>1 DEF Ending, Deleting
  <2> QED
    BY <1>1, <1>2, <1>3, <2>2, IdleFree, Takes
<1>4. CASE Pages(h) = {} /\ DropHeap(t, h)
  <2>1. \A u \in Thread : ~Absorbs(u, h)
    <3>1. ~Absorbs(t, h)
      BY <1>1, IdleFree DEF Absorbs
    <3> QED
      BY <1>1, <3>1, AbsorbsOwn
  <2>2. \A b \in delayed[h] : PageOf[b] \in Page
    BY ThreadFreeAssumption DEF FullInv, IInv, TypeOK
  <2>3. delayed[h] = {}
    BY <1>4, <2>1, <2>2 DEF FullInv, Handover, ListHeld, Pages
  <2> QED
    BY <1>1, <1>4, <2>3, IdleFree, Drops
<1> QED
  BY <1>3, <1>4 DEF HeapDelete

LEMMA CollectDoneHeld ==
    ASSUME FullInv, IInv', NEW t \in Thread, CollectDone(t)
    PROVE  Handover'
<1>1. /\ pc[t].at = "abandoned" /\ pc[t].at \notin HoldsAt
      /\ UNCHANGED <<page, threadId, abandoned, live>>
  BY DEF CollectDone, HoldsAt, FreeingAt
<1>2. pc[t] \in Control /\ Placed(pc[t]) /\ AtWork(t)
  BY InControl DEF FullInv, Handover
<1>3. /\ pc[t].heap \in Heap /\ heapThread[pc[t].heap] = t /\ pc[t].taken = {}
      /\ pc[t].seg = NoSegment /\ pc[t].block = NoBlock
      /\ pc[t].op \notin {"delete", "absorb"}
  BY <1>1, <1>2 DEF Placed, AtWork, AtHome, Deleting, FreeingAt, SegmentAt, ReclaimAt
<1>4. CASE pc[t].op = "done" /\ DropHeap(t, pc[t].heap)
  <2>1. /\ pc[t].heap = Backing[t] /\ delayed[Backing[t]] = {}
        /\ Pages(Backing[t]) = {}
        /\ \A g \in Heap : heapThread[g] = t => g = Backing[t]
    BY <1>1, <1>2, <1>4 DEF AtWork, Ending, Pages
  <2> QED
    BY <1>1, <1>3, <1>4, <2>1, Drops
<1>5. CASE /\ pc' = [pc EXCEPT ![t].at = "find", ![t].op = "retry"]
           /\ UNCHANGED <<delayed, heapThread>>
  <2> DEFINE c == [pc[t] EXCEPT !.at = "find", !.op = "retry"]
  <2>1. /\ c \in Control /\ Placed(c) /\ c.at = "find" /\ c.op = "retry"
        /\ c.heap = pc[t].heap /\ c.seg = NoSegment /\ c.block = NoBlock
        /\ c.taken = {}
    BY <1>1, <1>2, <1>3 DEF Control, Placed, Label, Op
  <2>2. pc' = [pc EXCEPT ![t] = c]
    BY <1>5
  <2> HIDE DEF c
  <2>3. pc'[t] = c
    BY <2>2 DEF FullInv, IInv, TypeOK
  <2>4. Passes(t, c)
    BY <1>1, <1>3, <2>1, <2>2 DEF Passes, Leaves, HoldsAt, FreeingAt
  <2>5. AtWork(t)'
    BY <1>3, <1>5, <2>1, <2>3, PlainAtWork
  <2> QED
    BY <1>1, <1>5, <2>1, <2>4, <2>5, Passed
<1>6. CASE pc' = [pc EXCEPT ![t] = Idle] /\ UNCHANGED <<delayed, heapThread>>
  BY <1>1, <1>3, <1>6, PassesIdle, IdleAtWork, Passed
<1> QED
  BY <1>4, <1>5, <1>6 DEF CollectDone

LEMMA ThreadInitHeld ==
    ASSUME FullInv, IInv', NEW t \in Thread, ThreadInit(t)
    PROVE  Handover'
  BY Appears, ThreadFreeAssumption DEF ThreadInit, Starts

LEMMA HeapNewHeld ==
    ASSUME FullInv, IInv', NEW t \in Thread, NEW h \in Heap, HeapNew(t, h)
    PROVE  Handover'
  BY Appears DEF HeapNew, Starts

\* The list has been gone through: the ways of DelayedDone.  A list gone through
\* without a block put back is empty for good, once the pages are marked never.
LEMMA DelayedDoneHeld ==
    ASSUME FullInv, IInv', NEW t \in Thread, DelayedDone(t)
    PROVE  Handover'
<1> DEFINE h  == pc[t].heap
           op == pc[t].op
           to(at, todo) == [pc[t] EXCEPT !.at = at, !.todo = todo]
<1>1. /\ pc[t].at = "delayed" /\ pc[t].at \notin HoldsAt /\ pc[t].taken = {}
      /\ UNCHANGED <<page, threadId, abandoned, live>>
  BY DEF DelayedDone, HoldsAt, FreeingAt
<1>2. pc[t] \in Control /\ Placed(pc[t]) /\ AtWork(t)
  BY InControl DEF FullInv, Handover
<1>3. /\ h \in Heap /\ heapThread[h] = t /\ op \in Op
      /\ pc[t].seg = NoSegment /\ pc[t].block = NoBlock
      /\ Pages(h) \in SUBSET Page
  BY <1>1, <1>2 DEF Control, Placed, AtWork, AtHome, FreeingAt, SegmentAt, ReclaimAt,
     Pages
<1>4. ASSUME NEW at \in {"find", "append", "pages"}, NEW todo \in SUBSET Page,
             pc' = [pc EXCEPT ![t] = to(at, todo)],
             UNCHANGED <<delayed, heapThread>>
      PROVE  LET c == to(at, todo)
             IN  /\ Passes(t, c) /\ pc'[t] = c /\ c.at = at /\ c.todo = todo
                 /\ c.op = op /\ c.heap = h /\ c.seg = NoSegment
                 /\ c.block = NoBlock /\ c.taken = {} /\ c.again = pc[t].again
  <2> DEFINE c == to(at, todo)
  <2>1. /\ c \in Control /\ Placed(c) /\ c.at = at /\ c.op = op /\ c.heap = h
        /\ c.seg = NoSegment /\ c.block = NoBlock /\ c.taken = {}
        /\ c.todo = todo /\ c.again = pc[t].again
    BY <1>1, <1>2, <1>3 DEF Control, Placed, Label
  <2> HIDE DEF to
  <2>2. pc'[t] = c
    BY <1>4 DEF FullInv, IInv, TypeOK
  <2>3. Passes(t, c)
    BY <1>1, <1>3, <1>4, <2>1, <2>2 DEF Passes, Leaves, HoldsAt, FreeingAt
  <2> QED
    BY <2>1, <2>2, <2>3
<1>5. CASE op = "malloc" /\ pc' = [pc EXCEPT ![t].at = "find", ![t].todo = {}]
           /\ UNCHANGED <<delayed, heapThread>>
  <2> DEFINE none == {}
             c == to("find", none)
  <2>1. none \in SUBSET Page /\ pc' = [pc EXCEPT ![t] = to("find", none)]
    BY <1>5
  <2> HIDE DEF none
  <2>2. /\ Passes(t, c) /\ pc'[t] = c /\ c.at = "find" /\ c.op = op /\ c.heap = h
        /\ c.seg = NoSegment /\ c.block = NoBlock /\ c.taken = {}
    BY <1>4, <1>5, <2>1
  <2> HIDE DEF to
  <2>3. AtWork(t)'
    BY <1>3, <1>5, <2>2, PlainAtWork
  <2> QED
    BY <1>1, <1>5, <2>2, <2>3, Passed
<1>6. CASE op = "delete" /\ pc' = [pc EXCEPT ![t].at = "append", ![t].todo = Pages(h)]
           /\ UNCHANGED <<delayed, heapThread>>
  <2> DEFINE mine == Pages(h)
             c == to("append", mine)
  <2>1. mine \in SUBSET Page /\ pc' = [pc EXCEPT ![t] = to("append", mine)]
    BY <1>3, <1>6
  <2> HIDE DEF mine
  <2>2. /\ Passes(t, c) /\ pc'[t] = c /\ c.at = "append" /\ c.op = op /\ c.heap = h
        /\ c.seg = NoSegment /\ c.block = NoBlock /\ c.taken = {}
        /\ c.todo = mine
    BY <1>4, <1>6, <2>1
  <2> HIDE DEF to
  <2>3. Pages(h)' = mine
    BY <1>1, <2>2 DEF Pages, mine
  <2>4. AtHome(t)' /\ AtSegment(t)' /\ Ending(t)'
    BY <1>3, <1>6, <2>2 DEF AtHome, AtSegment, Ending, FreeingAt, SegmentAt, ReclaimAt
  <2>5. Deleting(t)'
    BY <1>1, <1>2, <1>6, <2>2, <2>3 DEF AtWork, Deleting
  <2> QED
    BY <1>1, <1>6, <2>2, <2>4, <2>5, Passed DEF AtWork
<1>7. CASE /\ op \in {"collect", "force", "recollect", "done"} /\ ~pc[t].again
           /\ pc' = [pc EXCEPT ![t].at = "pages", ![t].todo = Pages(h)]
           /\ UNCHANGED <<delayed, heapThread>>
  <2> DEFINE mine == Pages(h)
             c == to("pages", mine)
  <2>1. mine \in SUBSET Page /\ pc' = [pc EXCEPT ![t] = to("pages", mine)]
    BY <1>3, <1>7
  <2> HIDE DEF mine
  <2>2. /\ Passes(t, c) /\ pc'[t] = c /\ c.at = "pages" /\ c.op = op /\ c.heap = h
        /\ c.seg = NoSegment /\ c.block = NoBlock /\ c.taken = {}
        /\ c.todo = mine /\ c.again = pc[t].again
    BY <1>4, <1>7, <2>1
  <2> HIDE DEF to
  <2>3. Pages(h)' = mine
    BY <1>1, <2>2 DEF Pages, mine
  <2>4. AtHome(t)' /\ AtSegment(t)' /\ Deleting(t)'
    BY <1>3, <1>7, <2>2, <2>3 DEF AtHome, AtSegment, Deleting, FreeingAt, SegmentAt,
       ReclaimAt
  <2>5. Ending(t)'
    BY <1>1, <1>2, <1>7, <2>2, <2>3 DEF AtWork, Ending, Pages, mine
  <2> QED
    BY <1>1, <1>7, <2>2, <2>4, <2>5, Passed DEF AtWork
<1>8. CASE /\ op \in {"collect", "force", "recollect", "done", "absorb"}
           /\ pc[t].again /\ TakeDelayed(t, h, op) /\ UNCHANGED heapThread
  <2>1. op # "done"
    BY <1>1, <1>2, <1>8 DEF AtWork, Ending
  <2>2. CASE op = "absorb"
    <3>1. h # Backing[t] /\ Pages(h) = {}
      BY <1>2, <2>2 DEF AtWork, Deleting
    <3>2. /\ pc'[t].at = "delayed" /\ pc'[t].op = "absorb"
          /\ pc'[t].heap = h /\ delayed'[h] = {}
      BY <1>3, <1>8, <2>2 DEF TakeDelayed, Idle, FullInv, IInv, TypeOK
    <3>3. (Ending(t) /\ Deleting(t))'
      BY <1>1, <3>1, <3>2 DEF Ending, Deleting, Pages
    <3> QED
      BY <1>1, <1>3, <1>8, <2>2, <3>3, Takes
  <2>3. CASE op # "absorb"
    BY <1>1, <1>3, <1>8, <2>1, <2>3, TakesPlain
  <2> QED
    BY <2>2, <2>3
<1>9. CASE op = "absorb" /\ ~pc[t].again /\ DropHeap(t, h)
  <2>1. Pages(h) = {} /\ delayed[h] = {} /\ h # Backing[t]
    BY <1>2, <1>9 DEF AtWork, Deleting
  <2> QED
    BY <1>1, <1>3, <1>9, <2>1, Drops
<1> QED
  BY <1>5, <1>6, <1>7, <1>8, <1>9 DEF DelayedDone

-----------------------------------------------------------------------------
(* Steps that move a segment.                                              *)

\* Segment s is t's to change.
LEMMA MovesSegment ==
    ASSUME FullInv, IInv', NEW t \in Thread, NEW c, Passes(t, c),
           UNCHANGED <<page, delayed, heapThread, live>>, NEW s \in Segment,
           \A r \in Segment : r # s => /\ threadId'[r] = threadId[r]
                                       /\ r \in abandoned' <=> r \in abandoned,
           \A u \in Thread \ {t} : pc[u].seg # s,
           c.seg \in {s, NoSegment},
           s \in abandoned' => threadId'[s] = NoThread,
           \A p \in Page : SegmentOf[p] = s /\ page[p].xheap # NoHeap =>
                              threadId'[s] = threadId[s],
           AtWork(t)'
    PROVE  Handover'
<1>1. Leaves(t, c) /\ pc'[t] = c /\ \A u \in Thread : u # t => pc'[u] = pc[u]
  BY DEF Passes, Leaves, FullInv, IInv, TypeOK
<1>2. HeapsHeld'
  BY DEF FullInv, Handover, HeapsHeld
<1>3. SegmentsHeld'
  <2>1. \A r \in abandoned' : threadId'[r] = NoThread
    BY DEF IInv, TypeOK, FullInv, Handover, SegmentsHeld
  <2>2. \A u \in Thread \ {t} : pc'[u].seg # s
    BY <1>1
  <2>3. \A v, u \in Thread :
            v # u /\ pc'[v].seg # NoSegment => pc'[v].seg # pc'[u].seg
    BY <1>1, <2>2 DEF FullInv, Handover, SegmentsHeld
  <2> QED
    BY <2>1, <2>3 DEF SegmentsHeld
<1>4. ASSUME NEW p \in Page PROVE PageHeld(p)'
  <2>1. PageHeld(p) /\ SegmentOf[p] \in Segment
    BY ThreadFreeAssumption DEF FullInv, Handover
  <2>2. page[p].xheap # NoHeap => threadId'[SegmentOf[p]] = threadId[SegmentOf[p]]
    BY <2>1
  <2> QED
    BY <2>1, <2>2 DEF PageHeld, Owner
<1>5. \A u \in Thread \ {t} : AtWork(u)'
  <2>1. OwnHeaps(t) /\ ClosedStay(t) /\ \A p \in Page : SameFace(p)
    BY DEF OwnHeaps, ClosedStay, SameFace
  <2>2. OwnSegments(t)
    BY DEF OwnSegments, FullInv, IInv, TypeOK, Control
  <2> QED
    BY <1>1, <2>1, <2>2, OthersAtWork
<1>6. OwnersHeld'
  BY <1>2, <1>3, <1>4, <1>5 DEF OwnersHeld
<1> QED
  BY <1>6, Moves

LEMMA PopAbandonedHeld ==
    ASSUME FullInv, IInv', NEW t \in Thread, NEW s \in Segment, PopAbandoned(t, s)
    PROVE  Handover'
<1> DEFINE todo == IF pc[t].at = "all" THEN {} ELSE UsedPages(page, s)
           c    == [pc[t] EXCEPT !.at = "check", !.seg = s, !.todo = todo]
<1>1. /\ pc' = [pc EXCEPT ![t] = c] /\ s \in abandoned
      /\ abandoned' = abandoned \ {s}
      /\ UNCHANGED <<page, delayed, heapThread, threadId, live>>
      /\ pc[t].at \in {"abandoned", "find", "all"} /\ pc[t].at \notin HoldsAt
  BY DEF PopAbandoned, Exhausted, Searching, HoldsAt, FreeingAt
<1>2. pc[t] \in Control /\ Placed(pc[t]) /\ AtWork(t)
  BY InControl DEF FullInv, Handover
<1>3. todo \in SUBSET Page /\ \A q \in todo : SegmentOf[q] = s
  BY DEF UsedPages
<1> HIDE DEF todo
<1>4. /\ c \in Control /\ Placed(c) /\ c.at = "check" /\ c.op = pc[t].op
      /\ c.heap = pc[t].heap /\ c.seg = s /\ c.block = pc[t].block
      /\ c.taken = pc[t].taken /\ c.again = pc[t].again /\ c.todo = todo
  BY <1>1, <1>2, <1>3 DEF Control, Placed, Label
<1> HIDE DEF c
<1>5. pc[t].taken = {} /\ pc[t].seg = NoSegment /\ pc[t].block = NoBlock
      /\ pc'[t] = c
  BY <1>1, <1>2 DEF AtWork, AtHome, FullInv, IInv, TypeOK, FreeingAt, SegmentAt,
     ReclaimAt
<1>6. Passes(t, c)
  BY <1>1, <1>4, <1>5 DEF Passes, Leaves, HoldsAt, FreeingAt
<1>7. threadId[s] = NoThread
  BY <1>1 DEF FullInv, Handover, SegmentsHeld
<1>8. \A u \in Thread \ {t} : pc[u].seg # s
  <2> SUFFICES ASSUME NEW u \in Thread, pc[u].seg = s PROVE FALSE
    OBVIOUS
  <2>1. AtWork(u) /\ s # NoSegment /\ u # NoThread
    BY ThreadFreeAssumption DEF FullInv, Handover
  <2> QED
    BY <1>1, <1>7, <2>1 DEF AtWork, AtHome, AtSegment, SegmentAt
<1>9. AtHome(t)' /\ AtSegment(t)' /\ Deleting(t)'
  BY <1>1, <1>2, <1>3, <1>4, <1>5, <1>7 DEF AtWork, AtHome, AtSegment, Deleting,
     FreeingAt, SegmentAt, ReclaimAt
<1>10. Ending(t)'
  BY <1>1, <1>2, <1>4, <1>5 DEF AtWork, Ending
<1> QED
  BY <1>1, <1>4, <1>6, <1>7, <1>8, <1>9, <1>10, MovesSegment DEF AtWork

\* What is known of a thread that looks at an abandoned segment.
LEMMA AtCheck ==
    ASSUME FullInv, NEW t \in Thread, pc[t].at = "check"
    PROVE  LET s == pc[t].seg
           IN  /\ s \in Segment /\ s # NoSegment /\ threadId[s] = NoThread
               /\ s \notin abandoned /\ \A u \in Thread \ {t} : pc[u].seg # s
               /\ \A p \in Page : SegmentOf[p] = s => page[p].xheap = NoHeap
               /\ pc[t].op = "done" => Resume(pc[t]) = "abandoned"
               /\ Resume(pc[t]) \in {"find", "abandoned", "all"}
<1> DEFINE s == pc[t].seg
<1>1. pc[t] \in Control /\ Placed(pc[t]) /\ AtWork(t) /\ NoSegment \notin Segment
  BY InControl, ThreadFreeAssumption DEF FullInv, Handover
<1>2. s \in Segment /\ s # NoSegment
  BY <1>1 DEF Placed
<1>3. threadId[s] = NoThread /\ s \notin abandoned
  BY <1>1 DEF AtWork, AtSegment
<1>4. \A u \in Thread \ {t} : pc[u].seg # s
  BY <1>2 DEF FullInv, Handover, SegmentsHeld
<1>5. \A p \in Page : SegmentOf[p] = s => page[p].xheap = NoHeap
  BY <1>3 DEF FullInv, Handover, PageHeld
<1>6. pc[t].op = "done" => Resume(pc[t]) = "abandoned"
  BY <1>1 DEF AtWork, Ending, Resume
<1> QED
  BY <1>2, <1>3, <1>4, <1>5, <1>6 DEF Resume

LEMMA ClaimHeld ==
    ASSUME FullInv, IInv', NEW t \in Thread, Claim(t)
    PROVE  Handover'
<1> DEFINE s    == pc[t].seg
           todo == UsedPages(page, s)
           c    == [pc[t] EXCEPT !.at = "reclaim", !.todo = todo]
<1>1. /\ pc' = [pc EXCEPT ![t] = c] /\ pc[t].at = "check"
      /\ todo = {} \/ Resume(pc[t]) # "abandoned"
      /\ threadId' = [threadId EXCEPT ![s] = t]
      /\ UNCHANGED <<page, delayed, heapThread, abandoned, live>>
  BY DEF Claim
<1>2. pc[t] \in Control /\ Placed(pc[t]) /\ AtWork(t)
  BY InControl DEF FullInv, Handover
<1>3. /\ s \in Segment /\ s # NoSegment /\ threadId[s] = NoThread
      /\ s \notin abandoned /\ \A u \in Thread \ {t} : pc[u].seg # s
      /\ \A p \in Page : SegmentOf[p] = s => page[p].xheap = NoHeap
      /\ pc[t].op = "done" => todo = {}
  BY <1>1, AtCheck
<1>4. todo \in SUBSET Page /\ \A q \in todo :
          SegmentOf[q] = s /\ InUse(page[q]) /\ page[q].xheap = NoHeap
  BY <1>3 DEF UsedPages
<1> HIDE DEF todo, s
<1>5. /\ c \in Control /\ Placed(c) /\ c.at = "reclaim" /\ c.op = pc[t].op
      /\ c.heap = pc[t].heap /\ c.seg = s /\ c.block = pc[t].block
      /\ c.taken = pc[t].taken /\ c.again = pc[t].again /\ c.todo = todo
  BY <1>1, <1>2, <1>3, <1>4 DEF Control, Placed, Label, s
<1> HIDE DEF c
<1>6. pc[t].taken = {} /\ pc[t].block = NoBlock /\ pc'[t] = c
      /\ pc[t].op \notin {"delete", "absorb"} /\ pc[t].at \notin HoldsAt
  BY <1>1, <1>2 DEF AtWork, AtHome, Deleting, FullInv, IInv, TypeOK, HoldsAt, FreeingAt
<1>7. Passes(t, c)
  BY <1>1, <1>5, <1>6 DEF Passes, Leaves, HoldsAt, FreeingAt
<1>8. /\ \A r \in Segment : r # s => /\ threadId'[r] = threadId[r]
                                     /\ r \in abandoned' <=> r \in abandoned
      /\ threadId'[s] = t /\ s \notin abandoned'
  BY <1>1, <1>3 DEF FullInv, IInv, TypeOK
<1>9. AtHome(t)' /\ AtSegment(t)' /\ Deleting(t)'
  BY <1>1, <1>2, <1>4, <1>5, <1>6, <1>8 DEF AtWork, AtHome, AtSegment, Deleting,
     FreeingAt, SegmentAt, ReclaimAt
<1>10. Ending(t)'
  BY <1>1, <1>2, <1>3, <1>5, <1>6 DEF AtWork, Ending
<1> QED
  BY <1>1, <1>3, <1>5, <1>7, <1>8, <1>9, <1>10, MovesSegment DEF AtWork

LEMMA PushVisitedHeld ==
    ASSUME FullInv, IInv', NEW t \in Thread, PushVisited(t)
    PROVE  Handover'
<1> DEFINE s  == pc[t].seg
           at == Resume(pc[t])
           c  == [pc[t] EXCEPT !.at = at, !.seg = NoSegment]
<1>1. /\ pc' = [pc EXCEPT ![t] = c] /\ pc[t].at = "check"
      /\ abandoned' = abandoned \cup {s}
      /\ UNCHANGED <<page, delayed, heapThread, threadId, live>>
  BY DEF PushVisited
<1>2. pc[t] \in Control /\ Placed(pc[t]) /\ AtWork(t)
  BY InControl DEF FullInv, Handover
<1>3. /\ s \in Segment /\ threadId[s] = NoThread
      /\ \A u \in Thread \ {t} : pc[u].seg # s
      /\ pc[t].op = "done" => at = "abandoned"
      /\ at \in {"find", "abandoned", "all"}
  BY <1>1, AtCheck
<1> HIDE DEF at, s
<1>4. /\ c \in Control /\ Placed(c) /\ c.at = at /\ c.op = pc[t].op
      /\ c.heap = pc[t].heap /\ c.seg = NoSegment /\ c.block = pc[t].block
      /\ c.taken = pc[t].taken /\ c.again = pc[t].again
  BY <1>1, <1>2, <1>3 DEF Control, Placed, Label
<1> HIDE DEF c
<1>5. pc[t].taken = {} /\ pc[t].block = NoBlock /\ pc'[t] = c
      /\ pc[t].op \notin {"delete", "absorb"} /\ pc[t].at \notin HoldsAt
  BY <1>1, <1>2 DEF AtWork, AtHome, Deleting, FullInv, IInv, TypeOK, HoldsAt, FreeingAt
<1>6. Passes(t, c)
  BY <1>1, <1>3, <1>4, <1>5 DEF Passes, Leaves, HoldsAt, FreeingAt
<1>7. AtHome(t)' /\ AtSegment(t)' /\ Deleting(t)'
  BY <1>1, <1>2, <1>3, <1>4, <1>5 DEF AtWork, AtHome, AtSegment, Deleting,
     FreeingAt, SegmentAt, ReclaimAt
<1>8. Ending(t)'
  BY <1>1, <1>2, <1>3, <1>4, <1>5 DEF AtWork, Ending
<1> QED
  BY <1>1, <1>3, <1>4, <1>6, <1>7, <1>8, MovesSegment DEF AtWork

\* A page with a heap is in use, so a segment without pages in use is nobody's.
LEMMA ReclaimDoneHeld ==
    ASSUME FullInv, IInv', NEW t \in Thread, ReclaimDone(t)
    PROVE  Handover'
<1> DEFINE s  == pc[t].seg
           at == Resume(pc[t])
           c  == [pc[t] EXCEPT !.at = at, !.seg = NoSegment]
<1>1. /\ pc' = [pc EXCEPT ![t] = c] /\ pc[t].at = "reclaim"
      /\ threadId' = IF UsedPages(page, s) = {}
                       THEN [threadId EXCEPT ![s] = NoThread] ELSE threadId
      /\ UNCHANGED <<page, delayed, heapThread, abandoned, live>>
  BY DEF ReclaimDone
<1>2. pc[t] \in Control /\ Placed(pc[t]) /\ AtWork(t) /\ NoSegment \notin Segment
      /\ t # NoThread
  BY InControl, ThreadFreeAssumption DEF FullInv, Handover
<1>3. /\ s \in Segment /\ threadId[s] = t /\ s \notin abandoned
      /\ at \in {"find", "abandoned", "all"}
      /\ pc[t].op = "done" => at = "abandoned"
  BY <1>1, <1>2 DEF Placed, AtWork, AtSegment, Ending, Resume, ReclaimAt, FullInv,
     Handover, SegmentsHeld
<1>4. \A u \in Thread \ {t} : pc[u].seg # s
  BY <1>2, <1>3 DEF FullInv, Handover, SegmentsHeld
<1>5. /\ \A r \in Segment : r # s => threadId'[r] = threadId[r]
      /\ UsedPages(page, s) # {} => threadId'[s] = threadId[s]
  BY <1>1, <1>3 DEF FullInv, IInv, TypeOK
<1>6. \A p \in Page : SegmentOf[p] = s /\ page[p].xheap # NoHeap =>
                         threadId'[s] = threadId[s]
  BY <1>5 DEF UsedPages, FullInv, Handover, PageHeld
<1> HIDE DEF at, s
<1>7. /\ c \in Control /\ Placed(c) /\ c.at = at /\ c.op = pc[t].op
      /\ c.heap = pc[t].heap /\ c.seg = NoSegment /\ c.block = pc[t].block
      /\ c.taken = pc[t].taken /\ c.again = pc[t].again
  BY <1>1, <1>2, <1>3 DEF Control, Placed, Label
<1> HIDE DEF c
<1>8. pc[t].taken = {} /\ pc[t].block = NoBlock /\ pc'[t] = c
      /\ pc[t].op \notin {"delete", "absorb"} /\ pc[t].at \notin HoldsAt
  BY <1>1, <1>2 DEF AtWork, AtHome, Deleting, FullInv, IInv, TypeOK, HoldsAt, FreeingAt
<1>9. Passes(t, c)
  BY <1>1, <1>3, <1>7, <1>8 DEF Passes, Leaves, HoldsAt, FreeingAt
<1>10. AtHome(t)' /\ AtSegment(t)' /\ Deleting(t)'
  BY <1>1, <1>2, <1>3, <1>7, <1>8 DEF AtWork, AtHome, AtSegment, Deleting,
     FreeingAt, SegmentAt, ReclaimAt
<1>11. Ending(t)'
  BY <1>1, <1>2, <1>3, <1>7, <1>8 DEF AtWork, Ending
<1> QED
  BY <1>1, <1>3, <1>4, <1>5, <1>6, <1>7, <1>9, <1>10, <1>11, MovesSegment DEF AtWork

-----------------------------------------------------------------------------
(* Steps that change a page and leave its claim and its heap alone.        *)

\* What the operations on one page_t keep of it.
LEMMA CollectedFields ==
    ASSUME NEW pg \in PageRecord, NEW force \in BOOLEAN
    PROVE  LET new == Collected(pg, force)
           IN  /\ new.xheap = pg.xheap /\ new.flag = pg.flag
               /\ new.capacity = pg.capacity /\ new.thread_free = {}
  BY DEF Collected, PageRecord

LEMMA ExtendedFields ==
    ASSUME NEW pg \in PageRecord, NEW add
    PROVE  LET new == Extended(pg, add)
           IN  /\ new.xheap = pg.xheap /\ new.flag = pg.flag
               /\ new.capacity = pg.capacity \cup add
               /\ new.thread_free = pg.thread_free
  BY DEF Extended, PageRecord

LEMMA PoppedFields ==
    ASSUME NEW pg \in PageRecord, NEW b
    PROVE  LET new == Popped(pg, b)
           IN  /\ new.xheap = pg.xheap /\ new.flag = pg.flag
               /\ new.capacity = pg.capacity /\ new.thread_free = pg.thread_free
  BY DEF Popped, PageRecord

LEMMA FreedFields ==
    ASSUME NEW pg \in PageRecord, NEW b
    PROVE  LET new == FreedLocally(pg, b)
           IN  /\ new.xheap = pg.xheap /\ new.flag = pg.flag
               /\ new.capacity = pg.capacity /\ new.thread_free = pg.thread_free
  BY DEF FreedLocally, PageRecord

\* Page p keeps its heap, its flag and its use, and may lose its thread_free list.
SamePage(p, pg) ==
    /\ pg.xheap = page[p].xheap /\ pg.flag = page[p].flag
    /\ InUse(pg) <=> InUse(page[p])
    /\ pg.thread_free = {} \/ pg.thread_free = page[p].thread_free

LEMMA CollectedSame ==
    ASSUME NEW p \in Page, page[p] \in PageRecord, NEW force \in BOOLEAN
    PROVE  SamePage(p, Collected(page[p], force))
<1> DEFINE col == Collected(page[p], force)
<1>1. /\ col.xheap = page[p].xheap /\ col.flag = page[p].flag
      /\ col.capacity = page[p].capacity /\ col.thread_free = {}
  BY CollectedFields
<1> HIDE DEF col
<1> QED
  BY <1>1 DEF SamePage, InUse, col

\* A step that changes the blocks of one page, and nobody's page.
LEMMA Touches ==
    ASSUME FullInv, IInv', NEW t \in Thread, NEW c, Puts(t, c, NoBlock),
           NEW p \in Page, NEW pg, Good(p, pg), page' = [page EXCEPT ![p] = pg],
           SamePage(p, pg), pc[t].at \notin {"collect", "gather"},
           Out(pg) \subseteq Out(page[p]) \cup live',
           UNCHANGED <<delayed, heapThread, threadId, abandoned>>,
           c.seg \in {pc[t].seg, NoSegment}, AtWork(t)'
    PROVE  Handover'
<1>1. page'[p] = pg /\ \A q \in Page : q # p => page'[q] = page[q]
  BY DEF FullInv, IInv, TypeOK
<1>2. \A q \in Page : SameFace(q)
  BY <1>1 DEF SameFace, SamePage
<1>3. \A q \in Page : PageHeld(q)'
  BY <1>1 DEF FullInv, Handover, PageHeld, Owner, SamePage
<1>4. Leaves(t, c) /\ ClosedStay(t)
  BY DEF Puts, ClosedStay
<1>5. OwnersHeld'
  BY <1>2, <1>3, <1>4, OwnersKept
<1>6. NoBlock \notin Out(pg)
  BY ThreadFreeAssumption DEF Good, PageRecord, Out
<1>7. Returned(p, pg, NoBlock) /\ Handles(t, p, pg)
  BY DEF Returned, SamePage, Handles
<1> QED
  BY <1>5, <1>6, <1>7, PageStep

\* The end of malloc, on whatever way the page was found.
LEMMA PopHeld ==
    ASSUME FullInv, IInv', NEW t \in Thread, NEW p \in Page, NEW pg, Good(p, pg),
           Out(pg) = Out(page[p]), SamePage(p, pg), NEW b \in pg.free,
           page' = [page EXCEPT ![p] = Popped(pg, b)], live' = live \cup {b},
           pc' = [pc EXCEPT ![t] = Idle], pc[t].taken = {},
           pc[t].at \in {"idle", "find"}, pc[t].op \notin {"delete", "absorb"},
           UNCHANGED <<delayed, heapThread, threadId, abandoned>>
    PROVE  Handover'
<1>1. Good(p, Popped(pg, b)) /\ Out(Popped(pg, b)) = Out(page[p]) \cup {b}
  BY PoppedGood
<1>2. SamePage(p, Popped(pg, b))
  BY PoppedFields DEF Good, SamePage, InUse
<1>3. Idle.op = "none" /\ Idle.seg = NoSegment
  BY DEF Idle
<1>4. Puts(t, Idle, NoBlock)
  BY <1>3, IdleControl, IdleFree DEF Puts, Leaves, HoldsAt, FreeingAt
<1>5. AtWork(t)'
  <2>1. pc'[t] = Idle
    BY DEF FullInv, IInv, TypeOK
  <2> QED
    BY <2>1, IdleAtWork
<1> QED
  BY <1>1, <1>2, <1>3, <1>4, <1>5, Touches

LEMMA MallocHeld ==
    ASSUME FullInv, IInv', NEW t \in Thread, NEW p \in Page, NEW b \in Block,
           Malloc(t, p, b)
    PROVE  Handover'
<1>1. /\ pc[t] = Idle /\ b \in page[p].free /\ live' = live \cup {b}
      /\ page' = [page EXCEPT ![p] = Popped(page[p], b)]
      /\ UNCHANGED <<delayed, heapThread, threadId, abandoned, pc>>
  BY DEF Malloc, Starts
<1>2. Good(p, page[p]) /\ SamePage(p, page[p])
  BY PagesGood DEF FullInv, SamePage
<1>3. pc' = [pc EXCEPT ![t] = Idle]
  BY <1>1 DEF FullInv, IInv, TypeOK
<1> QED
  BY <1>1, <1>2, <1>3, IdleFree, PopHeld

\* A thread that searches, and the pages it looks at.
LEMMA AtFind ==
    ASSUME FullInv, NEW t \in Thread, Searching(t)
    PROVE  /\ pc[t].at = "find" /\ pc[t] \in Control /\ Placed(pc[t])
           /\ pc[t].heap \in Heap /\ heapThread[pc[t].heap] = t
           /\ pc[t].taken = {} /\ pc[t].block = NoBlock /\ pc[t].seg = NoSegment
           /\ pc[t].op \notin {"done", "delete", "absorb"}
           /\ \A p \in Queue(pc[t].heap) : p \in Page /\ InUse(page[p])
<1>1. pc[t] \in Control /\ Placed(pc[t]) /\ AtWork(t) /\ pc[t].at = "find"
  BY InControl DEF FullInv, Handover, Searching
<1>2. \A p \in Queue(pc[t].heap) : p \in Page /\ page[p].xheap = pc[t].heap
  BY DEF Queue, Pages
<1>3. pc[t].heap \in Heap /\ pc[t].heap # NoHeap
  BY <1>1, ThreadFreeAssumption DEF Placed
<1>4. \A p \in Queue(pc[t].heap) : InUse(page[p])
  BY <1>2, <1>3 DEF FullInv, Handover, PageHeld
<1> QED
  BY <1>1, <1>2, <1>3, <1>4 DEF AtWork, AtHome, Ending, Deleting, FreeingAt, SegmentAt,
     ReclaimAt

LEMMA PopFromHeld ==
    ASSUME FullInv, IInv', NEW t \in Thread, NEW p \in Page, NEW pg, Good(p, pg),
           Out(pg) = Out(page[p]), SamePage(p, pg), Searching(t), PopFrom(t, p, pg),
           UNCHANGED <<delayed, heapThread, threadId, abandoned>>
    PROVE  Handover'
<1>1. PICK b \in pg.free : /\ page' = [page EXCEPT ![p] = Popped(pg, b)]
                           /\ live' = live \cup {b}
                           /\ pc' = [pc EXCEPT ![t] = Idle]
  BY DEF PopFrom
<1> QED
  BY <1>1, AtFind, PopHeld

LEMMA FindPageHeld ==
    ASSUME FullInv, IInv', NEW t \in Thread, NEW p \in Page, FindPage(t, p)
    PROVE  Handover'
<1> DEFINE pg  == Collected(page[p], FALSE)
           new == BlocksOf(p) \ pg.capacity
           c   == [pc[t] EXCEPT !.at = "full", !.page = p]
<1>1. /\ Searching(t) /\ p \in Queue(pc[t].heap)
      /\ UNCHANGED <<delayed, heapThread, threadId, abandoned>>
  BY DEF FindPage
<1>2. Good(p, page[p]) /\ Good(p, pg) /\ Out(pg) = Out(page[p])
  BY PagesGood, CollectedGood DEF FullInv
<1>3. SamePage(p, pg) /\ InUse(page[p])
  BY <1>1, <1>2, AtFind, CollectedSame DEF Good
<1>4. CASE PopFrom(t, p, pg)
  BY <1>1, <1>2, <1>3, <1>4, PopFromHeld
<1>5. ASSUME NEW add \in SUBSET new, PopFrom(t, p, Extended(pg, add))
      PROVE  Handover'
  <2>1. Good(p, Extended(pg, add)) /\ Out(Extended(pg, add)) = Out(page[p])
    BY <1>2, ExtendedGood
  <2> HIDE DEF pg
  <2>2. SamePage(p, Extended(pg, add))
    BY <1>2, <1>3, ExtendedFields DEF Good, SamePage, InUse
  <2> QED
    BY <1>1, <1>5, <2>1, <2>2, PopFromHeld
<1>6. CASE /\ page' = [page EXCEPT ![p] = pg]
           /\ pc' = [pc EXCEPT ![t] = c] /\ UNCHANGED live
  <2>1. /\ c \in Control /\ Placed(c) /\ c.at = "full" /\ c.op = pc[t].op
        /\ c.heap = pc[t].heap /\ c.seg = NoSegment /\ c.block = NoBlock
        /\ c.taken = {}
    <3>1. /\ pc[t] \in Control /\ pc[t].heap \in Heap /\ pc[t].taken = {}
          /\ pc[t].block = NoBlock /\ pc[t].seg = NoSegment
      BY <1>1, AtFind
    <3> QED
      BY <3>1 DEF Control, Placed, Label
  <2> HIDE DEF c, pg
  <2>2. Puts(t, c, NoBlock)
    BY <1>1, <1>6, <2>1, AtFind DEF Puts, Leaves, HoldsAt, FreeingAt
  <2>3. pc'[t] = c
    BY <1>6 DEF FullInv, IInv, TypeOK
  <2>4. AtWork(t)'
    BY <1>1, <2>1, <2>3, AtFind, PlainAtWork
  <2> QED
    BY <1>1, <1>2, <1>3, <1>6, <2>1, <2>2, <2>4, AtFind, Touches
<1> QED
  BY <1>4, <1>5, <1>6 DEF FindPage

LEMMA FindExtendHeld ==
    ASSUME FullInv, IInv', NEW t \in Thread, NEW p \in Page, FindExtend(t, p)
    PROVE  Handover'
<1>1. PICK add \in SUBSET (BlocksOf(p) \ page[p].capacity) :
           PopFrom(t, p, Extended(page[p], add))
  BY DEF FindExtend
<1>2. /\ Searching(t) /\ p \in Queue(pc[t].heap)
      /\ UNCHANGED <<delayed, heapThread, threadId, abandoned>>
  BY DEF FindExtend
<1>3. Good(p, page[p]) /\ InUse(page[p])
  BY <1>2, PagesGood, AtFind DEF FullInv
<1>4. Good(p, Extended(page[p], add)) /\ Out(Extended(page[p], add)) = Out(page[p])
  BY <1>3, ExtendedGood
<1>5. SamePage(p, Extended(page[p], add))
  BY <1>3, ExtendedFields DEF Good, SamePage, InUse
<1> QED
  BY <1>1, <1>2, <1>4, <1>5, PopFromHeld

LEMMA ToFullHeld ==
    ASSUME FullInv, IInv', NEW t \in Thread, ToFull(t)
    PROVE  Handover'
<1> DEFINE p   == pc[t].page
           col == Collected(page[p], FALSE)
           pg  == [col EXCEPT !.in_full = TRUE]
           c   == [pc[t] EXCEPT !.at = "find", !.page = NoPage]
<1>1. /\ pc[t].at = "full" /\ page' = [page EXCEPT ![p] = pg]
      /\ pc' = [pc EXCEPT ![t] = c]
      /\ UNCHANGED <<delayed, heapThread, threadId, abandoned, live>>
  BY DEF ToFull
<1>2. pc[t] \in Control /\ Placed(pc[t]) /\ AtWork(t) /\ p \in Page
  BY <1>1, InControl DEF FullInv, Handover, Placed
<1>3. Good(p, page[p]) /\ Good(p, col) /\ Out(col) = Out(page[p])
  BY <1>2, PagesGood, CollectedGood DEF FullInv
<1>4. Good(p, pg) /\ Out(pg) = Out(page[p]) /\ SamePage(p, pg)
  <2>1. SamePage(p, col)
    BY <1>2, <1>3, CollectedSame DEF Good
  <2> HIDE DEF col, p
  <2>2. Good(p, pg) /\ Out(pg) = Out(page[p])
    BY <1>2, <1>3, FullGood
  <2>3. SamePage(p, pg)
    BY <1>3, <2>1 DEF Good, PageRecord, SamePage, InUse
  <2> QED
    BY <2>2, <2>3
<1>5. /\ heapThread[pc[t].heap] = t
      /\ pc[t].taken = {} /\ pc[t].block = NoBlock /\ pc[t].seg = NoSegment
      /\ pc[t].op \notin {"done", "delete", "absorb"}
  BY <1>1, <1>2 DEF Placed, AtWork, AtHome, Ending, Deleting, FreeingAt, SegmentAt,
     ReclaimAt
<1>6. /\ c \in Control /\ Placed(c) /\ c.at = "find" /\ c.op = pc[t].op
      /\ c.heap = pc[t].heap /\ c.seg = NoSegment /\ c.block = NoBlock
      /\ c.taken = {}
  BY <1>1, <1>2, <1>5 DEF Control, Placed, Label
<1> HIDE DEF c, pg, p
<1>7. Puts(t, c, NoBlock)
  BY <1>1, <1>5, <1>6 DEF Puts, Leaves, HoldsAt, FreeingAt
<1>8. pc'[t] = c
  BY <1>1 DEF FullInv, IInv, TypeOK
<1>9. AtWork(t)'
  BY <1>1, <1>5, <1>6, <1>8, PlainAtWork
<1> QED
  BY <1>1, <1>2, <1>4, <1>6, <1>7, <1>9, Touches

\* A free to the page's own list, by a thread that does not own the page.
LEMMA FreeMtPushHeld ==
    ASSUME FullInv, IInv', NEW t \in Thread, NEW b \in live, pc[t] = Idle,
           live' = live \ {b}, page[PageOf[b]].flag # "use",
           page' = [page EXCEPT ![PageOf[b]].thread_free = @ \cup {b}],
           UNCHANGED <<delayed, heapThread, threadId, abandoned, pc>>
    PROVE  Handover'
<1> DEFINE p  == PageOf[b]
           pg == [page[p] EXCEPT !.thread_free = @ \cup {b}]
<1>1. p \in Page /\ b \in Block /\ b \in Out(page[p]) /\ page[p] \in PageRecord
  BY LiveOnly DEF FullInv, IInv, TypeOK
<1>2. /\ page' = [page EXCEPT ![p] = pg]
      /\ page'[p] = pg /\ \A q \in Page : q # p => page'[q] = page[q]
  BY <1>1 DEF FullInv, IInv, TypeOK
<1>3. /\ pg.xheap = page[p].xheap /\ pg.flag = page[p].flag
      /\ pg.capacity = page[p].capacity /\ pg.free = page[p].free
      /\ pg.local_free = page[p].local_free
      /\ pg.thread_free = page[p].thread_free \cup {b}
  BY <1>1 DEF PageRecord
<1> HIDE DEF pg, p
<1>4. Out(pg) = Out(page[p]) \ {b}
  BY <1>3 DEF Out
<1>5. Returned(p, pg, b)
  BY <1>3 DEF Returned, InUse, p
<1>6. Handles(t, p, pg)
  BY DEF Handles, Idle
<1>7. Leaves(t, Idle) /\ Idle = pc[t]
  BY StaysPut DEF FullInv
<1>8. Puts(t, Idle, b)
  BY <1>7, IdleFree DEF Puts, HoldsAt
<1>9. \A q \in Page : SameFace(q) /\ PageHeld(q)'
  BY <1>2, <1>3 DEF SameFace, InUse, FullInv, Handover, PageHeld, Owner
<1>10. AtWork(t)' /\ ClosedStay(t)
  BY IdleAtWork DEF ClosedStay
<1>11. OwnersHeld'
  BY <1>7, <1>9, <1>10, OwnersKept
<1>12. PageOf[b] = p
  BY DEF p
<1> QED
  BY <1>1, <1>2, <1>4, <1>5, <1>6, <1>8, <1>11, <1>12, PageStep

\* A collected page, or the cleared one when all its blocks are back.
OrCleared(pg, full) == IF pg.used = 0 THEN Unused ELSE [pg EXCEPT !.in_full = full]

\* pg is page p collected.
IsCollected(p, pg) ==
    /\ Good(p, pg) /\ Out(pg) = Out(page[p])
    /\ pg.xheap = page[p].xheap /\ pg.flag = page[p].flag
    /\ pg.capacity = page[p].capacity /\ pg.thread_free = {}

LEMMA CollectedIs ==
    ASSUME FullInv, NEW p \in Page, NEW force \in BOOLEAN
    PROVE  IsCollected(p, Collected(page[p], force))
<1> DEFINE col == Collected(page[p], force)
<1>1. Good(p, page[p]) /\ Good(p, col) /\ Out(col) = Out(page[p])
  BY PagesGood, CollectedGood DEF FullInv
<1>2. /\ col.xheap = page[p].xheap /\ col.flag = page[p].flag
      /\ col.capacity = page[p].capacity /\ col.thread_free = {}
  BY <1>1, CollectedFields DEF Good
<1> HIDE DEF col
<1> QED
  BY <1>1, <1>2 DEF IsCollected, col

LEMMA CollectedOrCleared ==
    ASSUME NEW p \in Page, NEW col, IsCollected(p, col), NEW full,
           NEW pg, pg = OrCleared(col, full)
    PROVE  /\ Returned(p, pg, NoBlock) /\ pg.thread_free = {}
           /\ pg.xheap \in {page[p].xheap, NoHeap}
           /\ Out(pg) \subseteq Out(page[p])
           /\ pg = Unused \/ /\ pg.xheap = page[p].xheap /\ pg.flag = page[p].flag
                             /\ InUse(pg) <=> InUse(page[p])
<1> DEFINE kept == [col EXCEPT !.in_full = full]
<1>1. Good(p, col) /\ Out(col) = Out(page[p])
  BY DEF IsCollected
<1>2. /\ col.xheap = page[p].xheap /\ col.flag = page[p].flag
      /\ col.capacity = page[p].capacity /\ col.thread_free = {}
  BY DEF IsCollected
<1>3. pg = IF col.used = 0 THEN Unused ELSE kept
  BY DEF OrCleared
<1>4. CASE col.used = 0
  <2>1. Out(page[p]) = {}
    BY <1>1, <1>4, EmptyPage
  <2>2. pg = Unused
    BY <1>3, <1>4
  <2> QED
    BY <2>1, <2>2 DEF Returned, Unused, Out
<1>5. CASE col.used # 0
  <2>1. /\ kept.xheap = col.xheap /\ kept.flag = col.flag
        /\ kept.capacity = col.capacity /\ kept.free = col.free
        /\ kept.local_free = col.local_free /\ kept.thread_free = {}
    BY <1>1, <1>2 DEF Good, PageRecord
  <2>2. pg = kept
    BY <1>3, <1>5
  <2> HIDE DEF kept
  <2>3. Out(pg) = Out(page[p])
    BY <1>1, <1>2, <2>1, <2>2 DEF Out
  <2> QED
    BY <1>2, <2>1, <2>2, <2>3 DEF Returned, InUse
<1> QED
  BY <1>4, <1>5

LEMMA UnusedFields ==
    /\ Unused.xheap = NoHeap /\ Unused.flag = "use" /\ ~InUse(Unused)
    /\ Out(Unused) = {} /\ Unused.thread_free = {}
  BY DEF Unused, InUse, Out

\* A step of t that changes a page of its own, or of the segment it looks at, and
\* no block.
LEMMA OwnPageStep ==
    ASSUME FullInv, IInv', NEW t \in Thread, NEW c, Puts(t, c, NoBlock),
           NEW p \in Page, NEW pg, page' = [page EXCEPT ![p] = pg],
           Spared(t, p), page[p].xheap = NoHeap \/ heapThread[page[p].xheap] = t,
           Returned(p, pg, NoBlock), pg.thread_free = {},
           pg = Unused \/ /\ pg.xheap = page[p].xheap /\ pg.flag = page[p].flag
                          /\ InUse(pg) <=> InUse(page[p]),
           pg.xheap \in {page[p].xheap, NoHeap},
           pc[t].at \in {"collect", "gather"} => Handles(t, p, pg),
           Out(pg) \subseteq Out(page[p]), c.seg \in {pc[t].seg, NoSegment},
           UNCHANGED <<delayed, heapThread, threadId, abandoned, live>>,
           AtWork(t)'
    PROVE  Handover'
<1>1. page'[p] = pg /\ \A q \in Page : q # p => page'[q] = page[q]
  BY DEF FullInv, IInv, TypeOK
<1>2. \A q \in Page : SameFace(q) \/ OwnChange(t, q)
  BY <1>1 DEF SameFace, OwnChange
<1>3. \A q \in Page : page'[q] = page[q] \/ PageHeld(q)'
  BY <1>1, UnusedFields DEF FullInv, Handover, PageHeld, Owner
<1>4. Leaves(t, c) /\ ClosedStay(t)
  BY DEF Puts, ClosedStay
<1>5. OwnersHeld'
  BY <1>2, <1>3, <1>4, OwnersKept
<1>6. NoBlock \notin Out(pg)
  BY PagesGood, ThreadFreeAssumption DEF FullInv, Good, PageRecord, Out
<1>7. Handles(t, p, pg)
  BY DEF Handles
<1> QED
  BY <1>5, <1>6, <1>7, PageStep

LEMMA CheckFreeHeld ==
    ASSUME FullInv, IInv', NEW t \in Thread, NEW p \in Page, CheckFree(t, p)
    PROVE  Handover'
<1> DEFINE col  == Collected(page[p], FALSE)
           pg   == IF col.used = 0 THEN Unused ELSE col
           left == pc[t].todo \ {p}
           c    == [pc[t] EXCEPT !.todo = left]
<1>1. /\ pc[t].at = "check" /\ p \in pc[t].todo
      /\ page' = [page EXCEPT ![p] = pg] /\ pc' = [pc EXCEPT ![t] = c]
      /\ UNCHANGED <<delayed, heapThread, threadId, abandoned, live>>
  BY DEF CheckFree
<1>2. pc[t] \in Control /\ Placed(pc[t]) /\ AtWork(t)
  BY InControl DEF FullInv, Handover
<1>3. /\ SegmentOf[p] = pc[t].seg /\ page[p].xheap = NoHeap
  BY <1>1, <1>2, AtCheck DEF AtWork, AtSegment
<1>4. pg = OrCleared(col, col.in_full) /\ IsCollected(p, col)
  <2>1. col \in PageRecord /\ IsCollected(p, col)
    BY CollectedIs DEF IsCollected, Good
  <2> HIDE DEF col
  <2> QED
    BY <2>1 DEF PageRecord, OrCleared
<1> HIDE DEF pg, col
<1>5. /\ Returned(p, pg, NoBlock) /\ pg.thread_free = {}
      /\ pg.xheap \in {page[p].xheap, NoHeap} /\ Out(pg) \subseteq Out(page[p])
      /\ pg = Unused \/ /\ pg.xheap = page[p].xheap /\ pg.flag = page[p].flag
                        /\ InUse(pg) <=> InUse(page[p])
  BY <1>4, CollectedOrCleared
<1>6. left \in SUBSET Page /\ left \subseteq pc[t].todo
  BY <1>2 DEF Control
<1> HIDE DEF left
<1>7. /\ c \in Control /\ Placed(c) /\ c.at = "check" /\ c.op = pc[t].op
      /\ c.heap = pc[t].heap /\ c.seg = pc[t].seg /\ c.block = pc[t].block
      /\ c.taken = pc[t].taken /\ c.again = pc[t].again /\ c.todo = left
  BY <1>1, <1>2, <1>6 DEF Control, Placed
<1> HIDE DEF c
<1>8. /\ pc'[t] = c /\ page'[p] = pg
      /\ \A q \in Page : q # p => page'[q] = page[q]
  BY <1>1 DEF FullInv, IInv, TypeOK
<1>9. pc[t].taken = {} /\ pc[t].op \notin {"delete", "absorb"}
  BY <1>1, <1>2 DEF AtWork, AtHome, Deleting
<1>10. Puts(t, c, NoBlock)
  BY <1>1, <1>7, <1>9 DEF Puts, Leaves, HoldsAt, FreeingAt
<1>11. AtHome(t)' /\ AtSegment(t)' /\ Deleting(t)'
  BY <1>1, <1>2, <1>6, <1>7, <1>8, <1>9 DEF AtWork, AtHome, AtSegment, Deleting,
     FreeingAt, SegmentAt, ReclaimAt
<1>12. Ending(t)'
  <2>1. pc[t].op = "done" => Backing[t] \in Heap /\ Backing[t] # NoHeap
    BY ThreadFreeAssumption
  <2>2. page'[p].xheap = NoHeap
    BY <1>3, <1>5, <1>8
  <2> QED
    BY <1>1, <1>2, <1>7, <1>8, <2>1, <2>2 DEF AtWork, Ending
<1>13. Spared(t, p)
  BY <1>3, MineSpared
<1> QED
  BY <1>1, <1>3, <1>5, <1>7, <1>10, <1>11, <1>12, <1>13, OwnPageStep DEF AtWork

\* The page t gave a heap is t's.
LEMMA GatherPageHeld ==
    ASSUME FullInv, IInv', NEW t \in Thread, GatherPage(t)
    PROVE  Handover'
<1> DEFINE p   == pc[t].page
           col == Collected(page[p], FALSE)
           pg  == IF col.used = 0 THEN Unused ELSE [col EXCEPT !.in_full = FALSE]
           c   == [pc[t] EXCEPT !.at = "reclaim", !.page = NoPage]
<1>1. /\ pc[t].at = "gather"
      /\ page' = [page EXCEPT ![p] = pg] /\ pc' = [pc EXCEPT ![t] = c]
      /\ UNCHANGED <<delayed, heapThread, threadId, abandoned, live>>
  BY DEF GatherPage
<1>2. pc[t] \in Control /\ Placed(pc[t]) /\ AtWork(t) /\ p \in Page
      /\ pc[t].heap \in Heap /\ NoHeap \notin Heap
  BY <1>1, InControl, ThreadFreeAssumption DEF FullInv, Handover, Placed
<1>3. page[p].xheap = pc[t].heap /\ heapThread[pc[t].heap] = t
  BY <1>1, <1>2 DEF AtWork, AtHome, AtSegment, FreeingAt
<1>4. page[p].xheap # NoHeap /\ threadId[SegmentOf[p]] = t
  BY <1>2, <1>3 DEF FullInv, Handover, PageHeld, Owner
<1>5. /\ Returned(p, pg, NoBlock) /\ pg.thread_free = {}
      /\ pg.xheap \in {page[p].xheap, NoHeap} /\ Out(pg) \subseteq Out(page[p])
      /\ pg = Unused \/ /\ pg.xheap = page[p].xheap /\ pg.flag = page[p].flag
                        /\ InUse(pg) <=> InUse(page[p])
  <2> DEFINE full == FALSE
  <2>1. pg = OrCleared(col, full) /\ IsCollected(p, col)
    BY <1>2, CollectedIs DEF OrCleared
  <2> HIDE DEF pg, col, p, full
  <2> QED
    BY <1>2, <2>1, CollectedOrCleared
<1> HIDE DEF pg
<1>6. /\ c \in Control /\ Placed(c) /\ c.at = "reclaim" /\ c.op = pc[t].op
      /\ c.heap = pc[t].heap /\ c.seg = pc[t].seg /\ c.block = pc[t].block
      /\ c.taken = pc[t].taken /\ c.again = pc[t].again /\ c.todo = pc[t].todo
  BY <1>1, <1>2 DEF Control, Placed, Label
<1> HIDE DEF c
<1>7. /\ pc'[t] = c /\ page'[p] = pg
      /\ \A q \in Page : q # p => page'[q] = page[q]
  BY <1>1, <1>2 DEF FullInv, IInv, TypeOK
<1>8. /\ pc[t].taken = {} /\ pc[t].op \notin {"done", "delete", "absorb"}
      /\ pc[t].block = NoBlock
  BY <1>1, <1>2 DEF AtWork, AtHome, Ending, Deleting, FreeingAt
<1>9. Puts(t, c, NoBlock)
  BY <1>1, <1>6, <1>8 DEF Puts, Leaves, HoldsAt, FreeingAt
<1>10. p \notin pc[t].todo /\ pc[t].todo \subseteq Page
  BY <1>1, <1>2, <1>4 DEF AtWork, AtSegment, ReclaimAt, Control
<1>11. AtSegment(t)'
  BY <1>1, <1>2, <1>6, <1>7, <1>10 DEF AtWork, AtSegment, ReclaimAt
<1>12. AtHome(t)' /\ Ending(t)' /\ Deleting(t)'
  BY <1>1, <1>3, <1>6, <1>7, <1>8 DEF AtHome, Ending, Deleting, FreeingAt,
     SegmentAt, ReclaimAt
<1>13. Spared(t, p) /\ Handles(t, p, pg)
  BY <1>1, <1>2, <1>4, <1>5, MineSpared DEF Handles
<1> QED
  BY <1>1, <1>2, <1>3, <1>5, <1>6, <1>9, <1>11, <1>12, <1>13, OwnPageStep DEF AtWork

\* A collection frees the pages that are empty, and keeps the others unless the
\* thread ends.
LEMMA PageFreedHeld ==
    ASSUME FullInv, IInv', NEW t \in Thread, NEW p \in Page, PageCollect(t, p),
           pc[t].op # "done" \/ Collected(page[p], pc[t].op # "collect").used = 0
    PROVE  Handover'
<1> DEFINE col  == Collected(page[p], pc[t].op # "collect")
           pg   == IF col.used = 0 THEN Unused ELSE col
           left == pc[t].todo \ {p}
           c    == [pc[t] EXCEPT !.todo = left]
<1>1. /\ pc[t].at = "pages" /\ p \in pc[t].todo /\ Settle(p, pg)
      /\ pc' = [pc EXCEPT ![t] = c] /\ UNCHANGED <<delayed, heapThread, live>>
  BY DEF PageCollect
<1>2. pc[t] \in Control /\ Placed(pc[t]) /\ AtWork(t) /\ IsCollected(p, col)
  BY InControl, CollectedIs DEF FullInv, Handover
<1>3. /\ pc[t].heap \in Heap /\ heapThread[pc[t].heap] = t
      /\ page[p].xheap = pc[t].heap /\ NoHeap \notin Heap
      /\ pc[t].taken = {} /\ pc[t].seg = NoSegment /\ pc[t].block = NoBlock
      /\ pc[t].op \notin {"delete", "absorb"}
  BY <1>1, <1>2, ThreadFreeAssumption DEF Placed, AtWork, AtHome, Deleting, Pages,
     FreeingAt, SegmentAt, ReclaimAt
<1>4. threadId[SegmentOf[p]] = t
  BY <1>3 DEF FullInv, Handover, PageHeld, Owner
<1>5. pg = OrCleared(col, col.in_full)
  <2>1. col \in PageRecord
    BY <1>2 DEF IsCollected, Good
  <2> HIDE DEF col
  <2> QED
    BY <2>1 DEF PageRecord, OrCleared
<1>6. pc[t].op = "done" => pg = Unused
  OBVIOUS
<1> HIDE DEF pg, col
<1>7. /\ Returned(p, pg, NoBlock) /\ pg.thread_free = {}
      /\ pg.xheap \in {page[p].xheap, NoHeap} /\ Out(pg) \subseteq Out(page[p])
      /\ pg = Unused \/ /\ pg.xheap = page[p].xheap /\ pg.flag = page[p].flag
                        /\ InUse(pg) <=> InUse(page[p])
  BY <1>2, <1>5, CollectedOrCleared
<1>8. left \in SUBSET Page /\ left \subseteq pc[t].todo /\ p \notin left
  BY <1>2 DEF Control
<1> HIDE DEF left
<1>9. /\ c \in Control /\ Placed(c) /\ c.at = "pages" /\ c.op = pc[t].op
      /\ c.heap = pc[t].heap /\ c.seg = NoSegment /\ c.block = NoBlock
      /\ c.taken = {} /\ c.again = pc[t].again /\ c.todo = left
  BY <1>1, <1>2, <1>3, <1>8 DEF Control, Placed
<1> HIDE DEF c
<1>10. /\ pc'[t] = c /\ page' = [page EXCEPT ![p] = pg] /\ page'[p] = pg
       /\ \A q \in Page : q # p => page'[q] = page[q]
  BY <1>1 DEF Settle, FullInv, IInv, TypeOK
<1>11. Puts(t, c, NoBlock)
  BY <1>1, <1>3, <1>9 DEF Puts, Leaves, HoldsAt, FreeingAt
<1>12. left \subseteq Pages(pc[t].heap)'
  BY <1>1, <1>2, <1>8, <1>9, <1>10 DEF AtWork, AtHome, Pages
<1>13. AtHome(t)' /\ AtSegment(t)' /\ Deleting(t)'
  BY <1>1, <1>3, <1>9, <1>10, <1>12 DEF AtHome, AtSegment, Deleting, FreeingAt,
     SegmentAt, ReclaimAt
<1>14. Ending(t)'
  <2>1. CASE pc[t].op # "done"
    BY <1>9, <1>10, <2>1 DEF Ending
  <2>2. CASE pc[t].op = "done"
    <3>1. page'[p].xheap = NoHeap /\ Backing[t] = pc[t].heap
      BY <1>2, <1>6, <1>10, <2>2, UnusedFields DEF AtWork, Ending
    <3>2. left = pc[t].todo \ {p}
      BY DEF left
    <3> QED
      BY <1>1, <1>2, <1>3, <1>9, <1>10, <2>2, <3>1, <3>2 DEF AtWork, Ending
  <2> QED
    BY <2>1, <2>2
<1>15. OwnersHeld'
  <2>1. /\ ~InUse(pg) => pg.xheap = NoHeap /\ pg.flag = "use"
        /\ InUse(pg) /\ pg.xheap = NoHeap => pg.flag = "never"
    BY <1>7, UnusedFields DEF FullInv, Handover, PageHeld
  <2>2. Leaves(t, c) /\ AtWork(t)'
    BY <1>11, <1>13, <1>14 DEF Puts, AtWork
  <2> QED
    BY <1>1, <1>3, <1>4, <1>7, <1>9, <2>1, <2>2, OwnersSettled
<1>16. NoBlock \notin Out(pg) /\ Handles(t, p, pg)
  BY <1>1, <1>7, PagesGood, ThreadFreeAssumption
     DEF FullInv, Good, PageRecord, Out, Handles
<1> QED
  BY <1>1, <1>7, <1>10, <1>11, <1>15, <1>16, PageStep

\* A page that got block b back: retired, or kept.
LEMMA RestedKept ==
    ASSUME NEW p \in Page, NEW pg, Good(p, pg), Out(pg) = Out(page[p]), NEW b \in Out(pg),
           pg.xheap = page[p].xheap, pg.flag = page[p].flag,
           pg.capacity = page[p].capacity,
           pg.thread_free \subseteq page[p].thread_free,
           NEW new, new = Rested(p, FreedLocally(pg, b))
    PROVE  /\ Returned(p, new, b) /\ new.thread_free \subseteq pg.thread_free
           /\ new.xheap \in {page[p].xheap, NoHeap} /\ Out(new) = Out(page[p]) \ {b}
           /\ new = Unused \/ /\ new.xheap = page[p].xheap /\ new.flag = page[p].flag
                              /\ InUse(new) <=> InUse(page[p])
<1> DEFINE fre  == FreedLocally(pg, b)
           kept == [fre EXCEPT !.in_full = FALSE]
<1>1. /\ fre.xheap = pg.xheap /\ fre.flag = pg.flag
      /\ fre.capacity = pg.capacity /\ fre.thread_free = pg.thread_free
  BY FreedFields DEF Good
<1>2. Good(p, fre) /\ Out(fre) = Out(pg) \ {b}
  BY FreedLocallyGood
<1>3. Out(new) = Out(page[p]) \ {b}
  BY <1>2, RestedGood
<1>4. new \in {fre, kept, Unused} /\ (new = Unused /\ fre.used # 0 => new = kept)
  BY DEF Rested
<1> HIDE DEF fre
<1>5. CASE new = fre
  BY <1>1, <1>3, <1>5 DEF Returned, InUse
<1>6. CASE new = kept
  <2>1. /\ kept.xheap = fre.xheap /\ kept.flag = fre.flag
        /\ kept.capacity = fre.capacity /\ kept.thread_free = fre.thread_free
    BY <1>2 DEF Good, PageRecord
  <2> HIDE DEF kept
  <2> QED
    BY <1>1, <1>3, <1>6, <2>1 DEF Returned, InUse
<1>7. CASE new = Unused /\ fre.used = 0
  <2>1. Out(fre) = {}
    BY <1>2, <1>7, EmptyPage
  <2> QED
    BY <1>2, <1>3, <1>7, <2>1, UnusedFields DEF Returned
<1> QED
  BY <1>4, <1>5, <1>6, <1>7

\* The owner frees a block the program held.
LEMMA FreeOwnedHeld ==
    ASSUME FullInv, IInv', NEW t \in Thread, NEW b \in Block, FreeOwned(t, b)
    PROVE  Handover'
<1> DEFINE p  == PageOf[b]
           pg == Rested(p, FreedLocally(page[p], b))
<1>1. /\ pc[t] = Idle /\ b \in live /\ threadId[SegmentOf[p]] = t /\ Settle(p, pg)
      /\ live' = live \ {b} /\ UNCHANGED <<delayed, heapThread, pc>>
  BY DEF FreeOwned, Starts
<1>2. p \in Page /\ b \in Out(page[p]) /\ Good(p, page[p])
  BY <1>1, LiveOnly, PagesGood DEF FullInv
<1> HIDE DEF p
<1>3. /\ Returned(p, pg, b) /\ pg.xheap \in {page[p].xheap, NoHeap}
      /\ Out(pg) = Out(page[p]) \ {b}
      /\ pg = Unused \/ /\ pg.xheap = page[p].xheap /\ pg.flag = page[p].flag
                        /\ InUse(pg) <=> InUse(page[p])
  BY <1>2, RestedKept
<1> HIDE DEF pg
<1>4. Leaves(t, Idle) /\ Idle = pc[t] /\ Idle.seg = NoSegment
  BY <1>1, StaysPut DEF FullInv, Idle
<1>5. Puts(t, Idle, b) /\ Handles(t, p, pg)
  BY <1>1, <1>4, IdleFree DEF Puts, HoldsAt, Handles, FreeingAt
<1>6. AtWork(t)'
  BY <1>1, IdleAtWork
<1>7. /\ ~InUse(pg) => pg.xheap = NoHeap /\ pg.flag = "use"
      /\ InUse(pg) /\ pg.xheap = NoHeap => pg.flag = "never"
  BY <1>2, <1>3, UnusedFields DEF FullInv, Handover, PageHeld
<1>8. OwnersHeld'
  BY <1>1, <1>2, <1>3, <1>4, <1>6, <1>7, OwnersSettled
<1>9. page' = [page EXCEPT ![p] = pg] /\ PageOf[b] = p
  BY <1>1 DEF Settle, p
<1> QED
  BY <1>1, <1>2, <1>3, <1>5, <1>8, <1>9, PageStep

\* The owner frees a block it took off its delayed list.
LEMMA FreeDelayedHeld ==
    ASSUME FullInv, IInv', NEW t \in Thread, FreeDelayed(t)
    PROVE  Handover'
<1> DEFINE b   == pc[t].block
           p   == PageOf[b]
           col == Collected(page[p], FALSE)
           pg  == Rested(p, FreedLocally(col, b))
           c   == [pc[t] EXCEPT !.at = "delayed", !.block = NoBlock]
<1>1. /\ pc[t].at = "collect" /\ Settle(p, pg) /\ pc' = [pc EXCEPT ![t] = c]
      /\ UNCHANGED <<delayed, heapThread, live>>
  BY DEF FreeDelayed
<1>2. pc[t] \in Control /\ Placed(pc[t]) /\ AtWork(t) /\ TakenHeld(t)
  BY InControl DEF FullInv, Handover
<1>3. b \in Carried(t)
  BY <1>1 DEF Carried, Hand
<1>4. p \in Page /\ b \in Block /\ b \in Out(page[p]) /\ b \notin live
  BY <1>3, CarriedOnly DEF FullInv
<1>5. Owner(p) = t /\ t # NoThread
  BY <1>1, <1>2, ThreadFreeAssumption DEF TakenHeld
<1>6. /\ page[p].xheap # NoHeap /\ heapThread[page[p].xheap] = t
      /\ threadId[SegmentOf[p]] = t
  BY <1>4, <1>5 DEF FullInv, Handover, PageHeld, Owner
<1>7. /\ heapThread[pc[t].heap] = t /\ pc[t].seg = NoSegment
  BY <1>1, <1>2 DEF AtWork, AtHome, FreeingAt, SegmentAt, ReclaimAt
<1>8. IsCollected(p, col)
  BY <1>4, CollectedIs
<1>9. /\ c \in Control /\ Placed(c) /\ c.at = "delayed" /\ c.op = pc[t].op
      /\ c.heap = pc[t].heap /\ c.seg = NoSegment /\ c.block = NoBlock
      /\ c.taken = pc[t].taken /\ c.again = pc[t].again
  BY <1>1, <1>2, <1>7 DEF Control, Placed, Label
<1> HIDE DEF c, b, p, col
<1>10. /\ Returned(p, pg, b) /\ pg.thread_free = {}
       /\ pg.xheap \in {page[p].xheap, NoHeap} /\ Out(pg) = Out(page[p]) \ {b}
       /\ pg = Unused \/ /\ pg.xheap = page[p].xheap /\ pg.flag = page[p].flag
                         /\ InUse(pg) <=> InUse(page[p])
  <2>1. /\ Good(p, col) /\ Out(col) = Out(page[p]) /\ b \in Out(col)
        /\ col.xheap = page[p].xheap /\ col.flag = page[p].flag
        /\ col.capacity = page[p].capacity /\ col.thread_free = {}
        /\ col.thread_free \subseteq page[p].thread_free
    BY <1>4, <1>8 DEF IsCollected
  <2>2. /\ Returned(p, pg, b) /\ pg.thread_free \subseteq col.thread_free
        /\ pg.xheap \in {page[p].xheap, NoHeap} /\ Out(pg) = Out(page[p]) \ {b}
        /\ pg = Unused \/ /\ pg.xheap = page[p].xheap /\ pg.flag = page[p].flag
                          /\ InUse(pg) <=> InUse(page[p])
    BY <1>4, <2>1, RestedKept
  <2> QED
    BY <2>1, <2>2
<1> HIDE DEF pg
<1>11. /\ pc'[t] = c /\ page' = [page EXCEPT ![p] = pg] /\ page'[p] = pg
       /\ \A q \in Page : q # p => page'[q] = page[q]
  BY <1>1, <1>4 DEF Settle, FullInv, IInv, TypeOK
<1>12. Puts(t, c, b) /\ Handles(t, p, pg)
  BY <1>1, <1>9, <1>10 DEF Puts, Leaves, HoldsAt, FreeingAt, Handles, b, p
<1>13. AtHome(t)' /\ AtSegment(t)'
  BY <1>1, <1>7, <1>9, <1>11 DEF AtHome, AtSegment, FreeingAt, SegmentAt, ReclaimAt
<1>14. Ending(t)' /\ Deleting(t)'
  <2>1. \A q \in Page : \/ page'[q].xheap = page[q].xheap /\ page'[q].flag = page[q].flag
                       \/ page'[q].xheap = NoHeap
    BY <1>10, <1>11, UnusedFields
  <2>2. NoHeap \notin Heap /\ Backing[t] \in Heap /\ pc[t].heap \in Heap
    BY <1>1, <1>2, ThreadFreeAssumption DEF Placed
  <2>3. Ending(t)'
    BY <1>1, <1>2, <1>9, <1>11, <2>1, <2>2 DEF AtWork, Ending
  <2>4. Pages(pc[t].heap) = {} => Pages(pc[t].heap)' = {}
    BY <1>9, <1>11, <2>1, <2>2 DEF Pages
  <2>5. Deleting(t)'
    BY <1>1, <1>2, <1>9, <1>11, <2>4 DEF AtWork, Deleting
  <2> QED
    BY <2>3, <2>5
<1>15. OwnersHeld'
  <2>1. /\ ~InUse(pg) => pg.xheap = NoHeap /\ pg.flag = "use"
        /\ InUse(pg) /\ pg.xheap = NoHeap => pg.flag = "never"
    BY <1>4, <1>10, UnusedFields DEF FullInv, Handover, PageHeld
  <2>2. Leaves(t, c) /\ AtWork(t)'
    BY <1>12, <1>13, <1>14 DEF Puts, AtWork
  <2> QED
    BY <1>1, <1>4, <1>6, <1>7, <1>9, <1>10, <2>1, <2>2, OwnersSettled
<1>16. PageOf[b] = p /\ b \notin Out(pg)
  BY <1>10 DEF p
<1> QED
  BY <1>1, <1>4, <1>10, <1>11, <1>12, <1>15, <1>16, PageStep

-----------------------------------------------------------------------------
(* Steps that change what a page_t says of itself, and none of its lists.  *)

\* The lists of every page are as they were.
SameBlocks == \A q \in Page :
    /\ Out(page'[q]) = Out(page[q]) /\ page'[q].thread_free = page[q].thread_free
    /\ InUse(page'[q]) <=> InUse(page[q])

LEMMA FlagSet ==
    ASSUME FullInv, NEW p \in Page, NEW f \in Flag,
           page' = [page EXCEPT ![p].flag = f]
    PROVE  /\ SameBlocks /\ page'[p].flag = f
           /\ \A q \in Page : page'[q].xheap = page[q].xheap
           /\ \A q \in Page : q # p => page'[q] = page[q]
  BY DEF FullInv, IInv, TypeOK, PageRecord, SameBlocks, Out, InUse

LEMMA HeapSet ==
    ASSUME FullInv, NEW p \in Page, NEW h, page' = [page EXCEPT ![p].xheap = h]
    PROVE  /\ SameBlocks /\ page'[p].xheap = h
           /\ \A q \in Page : page'[q].flag = page[q].flag
           /\ \A q \in Page : q # p => page'[q] = page[q]
  BY DEF FullInv, IInv, TypeOK, PageRecord, SameBlocks, Out, InUse

\* The waits of the owner set the flag back, unless it is never.
LEMMA UsingSet ==
    ASSUME FullInv, NEW p \in Page, page[p].flag # "freeing",
           page' = [page EXCEPT ![p] = UsingDelayed(@)]
    PROVE  /\ SameBlocks
           /\ page'[p].flag = IF page[p].flag = "never" THEN "never" ELSE "use"
           /\ \A q \in Page : page'[q].xheap = page[q].xheap
           /\ \A q \in Page : q # p => page'[q] = page[q]
<1> DEFINE f == IF page[p].flag = "never" THEN "never" ELSE "use"
<1>1. page' = [page EXCEPT ![p].flag = f] /\ f \in Flag
  BY DEF UsingDelayed, Flag
<1> HIDE DEF f
<1>2. /\ SameBlocks /\ page'[p].flag = f
      /\ \A q \in Page : page'[q].xheap = page[q].xheap
      /\ \A q \in Page : q # p => page'[q] = page[q]
  BY <1>1, FlagSet
<1> QED
  BY <1>2 DEF f

\* Blocks that stay where they are, or move between a list and its thread, are
\* still somewhere.
LEMMA OutSame ==
    ASSUME FullInv, SameBlocks, \A b : Away(b) => Away(b)'
    PROVE  \A p \in Page : OutIsAway(p)'
  BY OutKept DEF SameBlocks

\* The heaps, and who owns the pages, when a step of t changes at most pages of its
\* own.
LEMMA FacesKept ==
    ASSUME FullInv, NEW t \in Thread, NEW c, Leaves(t, c), c.seg = pc[t].seg,
           \A p \in Page : SameFace(p) \/ OwnChange(t, p),
           \A p \in Page : page'[p] = page[p] \/ PageHeld(p)',
           UNCHANGED <<delayed, heapThread, threadId, abandoned>>, AtWork(t)'
    PROVE  OwnersHeld'
<1>1. ClosedStay(t)
  BY DEF ClosedStay
<1> QED
  BY <1>1, OwnersKept

\* The claims of the other threads, when the step leaves their pages claimed and their
\* blocks on their way, and t claims at most a page nobody claimed.
LEMMA FreersStay ==
    ASSUME FullInv, NEW t \in Thread, NEW c, Leaves(t, c),
           NEW u \in Thread, u # t,
           c.at \in FreeingAt => \/ pc[t].at \in FreeingAt /\ c.block = pc[t].block
                                \/ page[PageOf[c.block]].flag # "freeing",
           pc[t].at = "spin" => page[pc[t].page].flag # "freeing",
           \A p \in Page : Frees(u, p) => /\ page'[p].flag = "freeing"
                                         /\ page'[p].xheap = page[p].xheap,
           \A b \in Block : OnItsWay(b) => OnItsWay(b)'
    PROVE  FreerHeld(u)'
<1> SUFFICES ASSUME pc[u].at \in FreeingAt PROVE FreerHeld(u)'
  BY DEF Leaves, FullInv, IInv, TypeOK, FreerHeld
<1> DEFINE b == pc[u].block
           p == PageOf[b]
<1>1. pc'[t] = c /\ \A v \in Thread : v # t => pc'[v] = pc[v]
  BY DEF Leaves, FullInv, IInv, TypeOK
<1>2. b \in Block /\ p \in Page /\ page[p].flag = "freeing" /\ Frees(u, p)
      /\ FreerHeld(u)
  BY FreerOut DEF Frees, FullInv, Handover
<1>3. page'[p].flag = "freeing" /\ page'[p].xheap = page[p].xheap
  BY <1>2
<1>4. ASSUME NEW v \in Thread, v # u
      PROVE  ~(pc'[v].at \in FreeingAt /\ PageOf[pc'[v].block] = p)
  <2>1. ~Frees(v, p)
    BY <1>2, <1>4 DEF FreerHeld
  <2> HIDE DEF p
  <2> QED
    BY <1>1, <1>2, <2>1 DEF Frees
<1>5. pc[u].at = "push" =>
          \/ pc[u].heap = page'[p].xheap
          \/ \E v \in Thread : pc'[v].at = "spin" /\ pc'[v].page = p
                               /\ pc'[v].heap = pc[u].heap
  BY <1>1, <1>2, <1>3 DEF FreerHeld
<1>6. pc'[u] = pc[u]
  BY <1>1
<1>7. pc[u].at = "reset" => OnItsWay(pc[u].block)'
  <2>1. ASSUME NEW d \in Block, d = pc'[u].block, pc[u].at = "reset"
        PROVE  OnItsWay(d)'
    BY <1>2, <1>6, <2>1 DEF FreerHeld
  <2> QED
    BY <1>2, <1>6, <2>1
<1> QED
  BY <1>3, <1>4, <1>5, <1>6, <1>7 DEF FreerHeld, Frees

-----------------------------------------------------------------------------
(* free_block_mt.                                                          *)

LEMMA LoadHeapHeld ==
    ASSUME FullInv, IInv', NEW t \in Thread, LoadHeap(t)
    PROVE  Handover'
<1> DEFINE p == PageOf[pc[t].block]
           h == page[p].xheap
           c == [pc[t] EXCEPT !.heap = h, !.at = "push"]
<1>1. pc[t].at = "load" /\ UNCHANGED <<page, delayed, heapThread, threadId, abandoned, live>>
  BY DEF LoadHeap
<1>2. pc[t] \in Control /\ Placed(pc[t]) /\ AtWork(t) /\ FreerHeld(t)
  BY InControl DEF FullInv, Handover
<1>3. p \in Page /\ page[p].flag = "freeing" /\ pc[t].block \in Block
  BY <1>1, FreerOut DEF FreeingAt
<1>4. h \in Heap /\ h # NoHeap
  BY <1>3, FreeingHasHeap DEF FullInv, IInv, TypeOK, PageRecord
<1>5. pc' = [pc EXCEPT ![t] = c]
  BY <1>4 DEF LoadHeap
<1> HIDE DEF h
<1>6. /\ c \in Control /\ Placed(c) /\ c.at = "push" /\ c.op = pc[t].op
      /\ c.heap = h /\ c.seg = pc[t].seg /\ c.block = pc[t].block
      /\ c.taken = pc[t].taken /\ c.again = pc[t].again
  BY <1>1, <1>2, <1>3, <1>4 DEF Control, Placed, Label
<1> HIDE DEF c
<1>7. Leaves(t, c) /\ pc'[t] = c /\ \A u \in Thread : u # t => pc'[u] = pc[u]
  BY <1>5, <1>6 DEF Leaves, FullInv, IInv, TypeOK
<1>8. /\ pc[t].taken = {} /\ pc[t].seg = NoSegment
      /\ pc[t].op \notin {"done", "delete", "absorb"}
  BY <1>1, <1>2 DEF AtWork, AtHome, Ending, Deleting, SegmentAt, ReclaimAt
<1>9. AtWork(t)'
  BY <1>6, <1>7, <1>8 DEF AtWork, AtHome, AtSegment, Ending, Deleting, FreeingAt,
     SegmentAt, ReclaimAt
<1>10. OwnersHeld'
  BY <1>1, <1>6, <1>7, <1>9, FacesKept DEF SameFace
<1>11. (\A b : OnItsWay(b)' <=> OnItsWay(b)) /\ \A q : Delayed(q)' <=> Delayed(q)
  BY <1>1, <1>6, <1>7, SameLists
<1>12. \A u \in Thread, q \in Page : Frees(u, q)' <=> Frees(u, q)
  BY <1>1, <1>6, <1>7 DEF Frees, FreeingAt
<1>13. \A u \in Thread : FreerHeld(u)'
  <2>1. FreerHeld(t)'
    <3>1. \A u \in Thread : u # t =>
              ~(pc'[u].at \in FreeingAt /\ PageOf[pc'[u].block] = p)
      BY <1>1, <1>2, <1>7 DEF FreerHeld, FreeingAt, Frees
    <3>2. h = page'[p].xheap /\ page'[p].flag = "freeing"
      BY <1>1, <1>3 DEF h
    <3> QED
      BY <1>6, <1>7, <3>1, <3>2 DEF FreerHeld, Frees
  <2>2. ASSUME NEW u \in Thread, u # t PROVE FreerHeld(u)'
    <3>1. \A q \in Page : Frees(u, q) => page[q].flag = "freeing"
      BY FreerOut DEF Frees
    <3> QED
      BY <1>1, <1>6, <1>7, <1>11, <2>2, <3>1, FreersStay DEF FreeingAt
  <2> QED
    BY <2>1, <2>2
<1>14. \A q \in Page : Claimed(q)'
  BY <1>1, <1>12 DEF FullInv, Handover, Claimed
<1>15. (\A g \in Heap : ListHeld(g)') /\ (\A u \in Thread : TakenHeld(u)')
  BY <1>1, <1>6, <1>7, <1>8, ListsKept DEF IInv, Absorbs, Owner
<1>16. \A q \in Page : Returns(q)'
  <2>1. \A q \in Page : Collecting(q)' <=> Collecting(q)
    BY <1>1, <1>6, <1>7 DEF Collecting
  <2> QED
    BY <1>1, <1>11, <2>1 DEF Returns, FullInv, Handover
<1>17. \A q \in Page : OutIsAway(q)'
  <2>1. \A u \in Thread : Carried(u)' = Carried(u)
    BY <1>1, <1>6, <1>7 DEF Carried, Hand
  <2>2. (\A b : Away(b) => Away(b)') /\ SameBlocks
    BY <1>1, <2>1 DEF Away, SameBlocks
  <2> QED
    BY <2>2, OutSame
<1> QED
  BY <1>10, <1>13, <1>14, <1>15, <1>16, <1>17 DEF Handover, OwnersHeld

\* Another thread frees the first block of a page whose flag is "use".
LEMMA FreeMtClaimHeld ==
    ASSUME FullInv, IInv', NEW t \in Thread, NEW b \in live, pc[t] = Idle,
           live' = live \ {b}, page[PageOf[b]].flag = "use",
           page' = [page EXCEPT ![PageOf[b]].flag = "freeing"],
           pc' = [pc EXCEPT ![t].at = "load", ![t].op = "free", ![t].block = b],
           UNCHANGED <<delayed, heapThread, threadId, abandoned>>
    PROVE  Handover'
<1> DEFINE p == PageOf[b]
           c == [Idle EXCEPT !.at = "load", !.op = "free", !.block = b]
           f == "freeing"
<1>1. p \in Page /\ b \in Block /\ b \in Out(page[p])
  BY LiveOnly DEF FullInv
<1>2. f \in Flag /\ page' = [page EXCEPT ![p].flag = f] /\ PageOf[b] = p
  BY DEF Flag
<1> HIDE DEF p, f
<1>3. /\ SameBlocks /\ page'[p].flag = f
      /\ \A q \in Page : page'[q].xheap = page[q].xheap
      /\ \A q \in Page : q # p => page'[q] = page[q]
  BY <1>1, <1>2, FlagSet
<1>4. /\ c \in Control /\ Placed(c) /\ c.at = "load" /\ c.op = "free"
      /\ c.heap = NoHeap /\ c.seg = NoSegment /\ c.block = b /\ c.taken = {}
      /\ pc' = [pc EXCEPT ![t] = c]
  BY <1>1 DEF Control, Placed, Label, Op, AllCalls, Idle
<1> HIDE DEF c
<1>5. Leaves(t, c) /\ pc'[t] = c /\ \A u \in Thread : u # t => pc'[u] = pc[u]
  BY <1>4 DEF Leaves, FullInv, IInv, TypeOK
<1>6. /\ pc[t].taken = {} /\ pc[t].seg = NoSegment /\ pc[t].at = "idle"
      /\ pc[t].op = "none"
  BY DEF Idle
<1>7. page[p].xheap # NoHeap /\ page[p].flag = "use"
  BY <1>1, <1>2 DEF FullInv, Handover, PageHeld, Out, InUse
<1>8. AtWork(t)'
  BY <1>4, <1>5 DEF AtWork, AtHome, AtSegment, Ending, Deleting, FreeingAt,
     SegmentAt, ReclaimAt
<1>9. OwnersHeld'
  <2>1. \A q \in Page : SameFace(q)
    BY <1>3, <1>7 DEF SameFace, SameBlocks, f
  <2>2. PageHeld(p)'
    <3>1. PageHeld(p) /\ InUse(page'[p])
      BY <1>1, <1>3, <1>7 DEF FullInv, Handover, PageHeld, SameBlocks
    <3> QED
      BY <1>1, <1>3, <1>7, <3>1 DEF PageHeld, Owner
  <2> QED
    BY <1>3, <1>4, <1>5, <1>6, <1>8, <2>1, <2>2, FacesKept
<1>10. (\A d : OnItsWay(d)' <=> OnItsWay(d)) /\ \A q : Delayed(q)' <=> Delayed(q)
  BY <1>4, <1>5, <1>6, SameLists
<1>11. \A u \in Thread : ~Frees(u, p)
  BY <1>7, FreerOut DEF Frees
<1>12. \A u \in Thread : FreerHeld(u)'
  <2>1. FreerHeld(t)'
    <3>1. page'[p].flag = "freeing"
      BY <1>3 DEF f
    <3>2. pc'[t].at = "load" /\ PageOf[pc'[t].block] = p
      BY <1>2, <1>4, <1>5
    <3>3. \A u \in Thread : u # t =>
              ~(pc'[u].at \in FreeingAt /\ PageOf[pc'[u].block] = p)
      BY <1>5, <1>11 DEF Frees
    <3> QED
      BY <3>1, <3>2, <3>3 DEF FreerHeld, Frees
  <2>2. ASSUME NEW u \in Thread, u # t PROVE FreerHeld(u)'
    <3>1. \A q \in Page : Frees(u, q) => page[q].flag = "freeing" /\ q # p
      BY <1>11, FreerOut DEF Frees
    <3> QED
      BY <1>2, <1>3, <1>4, <1>5, <1>6, <1>7, <1>10, <2>2, <3>1, FreersStay
  <2> QED
    BY <2>1, <2>2
<1>13. ASSUME NEW q \in Page PROVE Claimed(q)'
  <2>1. CASE q = p
    BY <1>2, <1>4, <1>5, <2>1 DEF Claimed, Frees, FreeingAt
  <2>2. CASE q # p
    <3>1. \A u \in Thread : Frees(u, q) => Frees(u, q)'
      BY <1>5, <1>6 DEF Frees, FreeingAt
    <3> QED
      BY <1>3, <2>2, <3>1 DEF FullInv, Handover, Claimed
  <2> QED
    BY <2>1, <2>2
<1>14. (\A g \in Heap : ListHeld(g)') /\ (\A u \in Thread : TakenHeld(u)')
  BY <1>3, <1>4, <1>5, <1>6, ListsKept DEF IInv, Absorbs, Owner
<1>15. ASSUME NEW q \in Page PROVE Returns(q)'
  <2>1. Collecting(q) => Collecting(q)'
    BY <1>5, <1>6 DEF Collecting
  <2>2. q # p \/ page'[q].flag = "freeing"
    BY <1>3 DEF f
  <2> QED
    BY <1>3, <1>10, <2>1, <2>2 DEF Returns, FullInv, Handover
<1>16. \A q \in Page : OutIsAway(q)'
  <2>1. /\ b \in Carried(t)'
        /\ \A u \in Thread : u # t => Carried(u)' = Carried(u)
        /\ Carried(t) = {}
    BY <1>4, <1>5, <1>6 DEF Carried, Hand
  <2>2. \A d : Away(d) => Away(d)'
    BY <2>1 DEF Away
  <2> QED
    BY <1>3, <2>2, OutSame
<1> QED
  BY <1>9, <1>12, <1>13, <1>14, <1>15, <1>16 DEF Handover, OwnersHeld

LEMMA FreeMtHeld ==
    ASSUME FullInv, IInv', NEW t \in Thread, NEW b \in Block, FreeMt(t, b)
    PROVE  Handover'
<1>1. /\ pc[t] = Idle /\ b \in live /\ live' = live \ {b}
      /\ UNCHANGED <<delayed, heapThread, threadId, abandoned>>
  BY DEF FreeMt, Starts
<1>2. CASE page[PageOf[b]].flag = "use"
  BY <1>1, <1>2, FreeMtClaimHeld DEF FreeMt
<1>3. CASE page[PageOf[b]].flag # "use"
  BY <1>1, <1>3, FreeMtPushHeld DEF FreeMt
<1> QED
  BY <1>2, <1>3

\* The heap a thread pushes to is there, has the owner of the page, and is not going.
LEMMA PushesHome ==
    ASSUME FullInv, NEW t \in Thread, pc[t].at = "push"
    PROVE  LET h == pc[t].heap
               p == PageOf[pc[t].block]
           IN  /\ h \in Heap /\ heapThread[h] # NoThread /\ Owner(p) = heapThread[h]
               /\ page[p].xheap = h \/ \E u \in Thread : Absorbs(u, h)
               /\ \A u \in Thread : pc[u].heap = h =>
                      pc[u].at = "never" \/ pc[u].op \notin {"done", "absorb"}
<1> DEFINE h == pc[t].heap
           p == PageOf[pc[t].block]
<1>1. h \in Heap /\ NoHeap \notin Heap
  BY InControl, ThreadFreeAssumption DEF FullInv, Placed
<1>2. p \in Page /\ page[p].flag = "freeing"
  BY FreerOut DEF FreeingAt
<1>3. page[p].xheap # NoHeap /\ Owner(p) # NoThread
  BY <1>2, FreeingHasHeap
<1>4. \/ page[p].xheap = h
      \/ \E u \in Thread : /\ pc[u].at = "spin" /\ pc[u].page = p
                           /\ pc[u].heap = h
  BY DEF FullInv, Handover, FreerHeld, FreeingAt
<1> HIDE DEF h, p
<1>5. ASSUME NEW u \in Thread, pc[u].heap = h, pc[u].at # "never",
             pc[u].op \in {"done", "absorb"}
      PROVE  heapThread[h] = u /\ page[p].xheap # h
  <2>1. AtWork(u)
    BY DEF FullInv, Handover
  <2>2. heapThread[h] = u
    BY <1>5, <2>1 DEF AtWork, AtHome, Ending, Deleting, FreeingAt
  <2>3. CASE pc[u].op = "done"
    BY <1>2, <1>5, <2>1, <2>2, <2>3 DEF AtWork, Ending
  <2>4. CASE pc[u].op = "absorb"
    BY <1>2, <1>5, <2>1, <2>2, <2>4 DEF AtWork, Deleting, Pages
  <2> QED
    BY <1>5, <2>2, <2>3, <2>4
<1>6. CASE page[p].xheap = h
  BY <1>1, <1>3, <1>5, <1>6 DEF Owner, h, p
<1>7. ASSUME NEW v \in Thread, pc[v].at = "spin", pc[v].page = p, pc[v].heap = h
      PROVE  /\ heapThread[h] = v /\ Owner(p) = v /\ Absorbs(v, h)
             /\ pc[v].op = "delete" /\ v # NoThread
  <2>1. AtWork(v) /\ Backing[v] \in Heap /\ v # NoThread
    BY ThreadFreeAssumption DEF FullInv, Handover
  <2>2. heapThread[h] = v /\ pc[v].op = "delete" /\ page[p].xheap = Backing[v]
    BY <1>7, <2>1 DEF AtWork, AtHome, Deleting, FreeingAt
  <2>3. heapThread[Backing[v]] = v
    BY <1>1, <2>1, <2>2 DEF FullInv, Handover, HeapsHeld
  <2> QED
    BY <1>1, <1>7, <2>1, <2>2, <2>3 DEF Owner, Absorbs
<1>8. ASSUME NEW v \in Thread, pc[v].at = "spin", pc[v].page = p, pc[v].heap = h
      PROVE  \A u \in Thread : pc[u].heap = h =>
                 pc[u].at = "never" \/ pc[u].op \notin {"done", "absorb"}
  BY <1>5, <1>7, <1>8
<1> QED
  BY <1>1, <1>4, <1>6, <1>7, <1>8 DEF h, p

LEMMA PushDelayedHeld ==
    ASSUME FullInv, IInv', NEW t \in Thread, PushDelayed(t)
    PROVE  Handover'
<1> DEFINE b == pc[t].block
           h == pc[t].heap
           c == [pc[t] EXCEPT !.at = "reset"]
<1>1. /\ pc[t].at = "push" /\ pc' = [pc EXCEPT ![t] = c]
      /\ delayed' = [delayed EXCEPT ![h] = @ \cup {b}]
      /\ UNCHANGED <<page, heapThread, threadId, abandoned, live>>
  BY DEF PushDelayed
<1>2. pc[t] \in Control /\ Placed(pc[t]) /\ AtWork(t) /\ FreerHeld(t)
  BY InControl DEF FullInv, Handover
<1>3. b \in Block /\ PageOf[b] \in Page /\ page[PageOf[b]].flag = "freeing"
  BY <1>1, FreerOut DEF FreeingAt
<1>4. /\ h \in Heap /\ heapThread[h] # NoThread /\ Owner(PageOf[b]) = heapThread[h]
      /\ page[PageOf[b]].xheap = h \/ \E u \in Thread : Absorbs(u, h)
      /\ \A u \in Thread : pc[u].heap = h =>
             pc[u].at = "never" \/ pc[u].op \notin {"done", "absorb"}
  BY <1>1, PushesHome
<1>5. /\ c \in Control /\ Placed(c) /\ c.at = "reset" /\ c.op = pc[t].op
      /\ c.heap = h /\ c.seg = pc[t].seg /\ c.block = b
      /\ c.taken = pc[t].taken /\ c.again = pc[t].again
  BY <1>1, <1>2 DEF Control, Placed, Label
<1> HIDE DEF c, b, h
<1>6. Leaves(t, c) /\ pc'[t] = c /\ \A u \in Thread : u # t => pc'[u] = pc[u]
  BY <1>1, <1>5 DEF Leaves, FullInv, IInv, TypeOK
<1>7. /\ delayed'[h] = delayed[h] \cup {b}
      /\ \A g \in Heap : g # h => delayed'[g] = delayed[g]
  BY <1>1, <1>4 DEF FullInv, IInv, TypeOK
<1>8. /\ pc[t].taken = {} /\ pc[t].seg = NoSegment
      /\ pc[t].op \notin {"done", "delete", "absorb"}
  BY <1>1, <1>2 DEF AtWork, AtHome, Ending, Deleting, SegmentAt, ReclaimAt
<1>9. AtWork(t)'
  BY <1>5, <1>6, <1>8 DEF AtWork, AtHome, AtSegment, Ending, Deleting, FreeingAt,
     SegmentAt, ReclaimAt
<1>10. OwnersHeld'
  <2>1. ClosedStay(t)
    BY <1>4, <1>7 DEF ClosedStay
  <2> QED
    BY <1>1, <1>5, <1>6, <1>9, <2>1, OwnersKept DEF SameFace
<1>11. \A u \in Thread : pc'[u].taken = pc[u].taken
  BY <1>5, <1>6
<1>12. \A d : /\ (\E g \in Heap : d \in delayed[g]) => \E g \in Heap : d \in delayed'[g]
              /\ OnItsWay(d) => OnItsWay(d)'
  BY <1>7, <1>11 DEF OnItsWay
<1>13. \A q : Delayed(q) => Delayed(q)'
  <2>1. \A q : Delayed(q)' <=> \E d \in Block : PageOf[d] = q /\ OnItsWay(d)'
    BY DEF Delayed, OnItsWay, BlocksOf
  <2> QED
    BY <1>12, <2>1, DelayedIsOnItsWay
<1>14. \A u \in Thread, q \in Page : Frees(u, q)' <=> Frees(u, q)
  BY <1>1, <1>5, <1>6 DEF Frees, FreeingAt, b
<1>15. \A u \in Thread : FreerHeld(u)'
  <2>1. FreerHeld(t)'
    <3>1. OnItsWay(pc[t].block)'
      BY <1>4, <1>5, <1>6, <1>7 DEF OnItsWay
    <3>2. page'[PageOf[pc'[t].block]].flag = "freeing" /\ pc'[t].at = "reset"
      BY <1>1, <1>3, <1>5, <1>6
    <3>3. \A u \in Thread : u # t =>
              ~(pc'[u].at \in FreeingAt /\ PageOf[pc'[u].block] = PageOf[pc'[t].block])
      BY <1>1, <1>2, <1>5, <1>6 DEF FreerHeld, FreeingAt, Frees, b
    <3> QED
      BY <3>1, <3>2, <3>3 DEF FreerHeld, Frees
  <2>2. ASSUME NEW u \in Thread, u # t PROVE FreerHeld(u)'
    <3>1. \A q \in Page : Frees(u, q) => page[q].flag = "freeing"
      BY FreerOut DEF Frees
    <3> QED
      BY <1>1, <1>5, <1>6, <1>12, <2>2, <3>1, FreersStay DEF FreeingAt, b
  <2> QED
    BY <2>1, <2>2
<1>16. \A q \in Page : Claimed(q)'
  BY <1>1, <1>14 DEF FullInv, Handover, Claimed
<1>17. ASSUME NEW g \in Heap PROVE ListHeld(g)'
  <2> SUFFICES ASSUME NEW d \in delayed'[g]
               PROVE  /\ heapThread[g] # NoThread /\ Owner(PageOf[d]) = heapThread[g]
                      /\ page[PageOf[d]].xheap = g \/ \E u \in Thread : Absorbs(u, g)'
    BY <1>1 DEF ListHeld, Owner
  <2>1. (\E u \in Thread : Absorbs(u, g)) => \E u \in Thread : Absorbs(u, g)'
    BY <1>5, <1>6, <1>8 DEF Absorbs
  <2>2. CASE d \in delayed[g]
    BY <2>1, <2>2 DEF FullInv, Handover, ListHeld
  <2>3. CASE g = h /\ d = b
    BY <1>4, <2>1, <2>3
  <2> QED
    BY <1>7, <2>2, <2>3
<1>18. \A u \in Thread : TakenHeld(u)'
  <2>1. TakenHeld(t)'
    BY <1>5, <1>6, <1>8 DEF TakenHeld
  <2>2. ASSUME NEW u \in Thread, u # t PROVE TakenHeld(u)'
    BY <1>1, <1>6, <2>2 DEF FullInv, Handover, TakenHeld, Owner, Absorbs
  <2> QED
    BY <2>1, <2>2
<1>19. \A q \in Page : Returns(q)'
  <2>1. \A q \in Page : Collecting(q)' <=> Collecting(q)
    BY <1>1, <1>5, <1>6 DEF Collecting
  <2> QED
    BY <1>1, <1>13, <2>1 DEF Returns, FullInv, Handover
<1>20. \A q \in Page : OutIsAway(q)'
  <2>1. \A u \in Thread : \A d : d \in Carried(u) => d \in Carried(u)' \/ d = b
    BY <1>1, <1>5, <1>6 DEF Carried, Hand, b
  <2>2. ASSUME NEW d, Away(d) PROVE Away(d)'
    <3>1. d = b => \E g \in Heap : d \in delayed'[g]
      BY <1>4, <1>7
    <3> QED
      BY <1>1, <1>12, <2>1, <2>2, <3>1 DEF Away
  <2>3. SameBlocks
    BY <1>1 DEF SameBlocks
  <2> QED
    BY <2>2, <2>3, OutSame
<1> QED
  BY <1>10, <1>15, <1>16, <1>17, <1>18, <1>19, <1>20 DEF Handover, OwnersHeld

LEMMA ResetFlagHeld ==
    ASSUME FullInv, IInv', NEW t \in Thread, ResetFlag(t)
    PROVE  Handover'
<1> DEFINE b == pc[t].block
           p == PageOf[b]
           f == "no"
<1>1. /\ pc[t].at = "reset" /\ pc' = [pc EXCEPT ![t] = Idle]
      /\ page' = [page EXCEPT ![p].flag = f]
      /\ UNCHANGED <<delayed, heapThread, threadId, abandoned, live>>
  BY DEF ResetFlag
<1>2. pc[t] \in Control /\ Placed(pc[t]) /\ AtWork(t) /\ FreerHeld(t)
  BY InControl DEF FullInv, Handover
<1>3. b \in Block /\ p \in Page /\ page[p].flag = "freeing"
  BY <1>1, FreerOut DEF FreeingAt
<1>4. OnItsWay(b)
  BY <1>1, <1>2 DEF FreerHeld, FreeingAt
<1>5. \A u \in Thread : u # t => ~Frees(u, p)
  BY <1>1, <1>2 DEF FreerHeld, FreeingAt
<1>6. PageOf[b] = p /\ f \in Flag
  BY DEF Flag
<1> HIDE DEF b, p, f
<1>7. /\ SameBlocks /\ page'[p].flag = f
      /\ \A q \in Page : page'[q].xheap = page[q].xheap
      /\ \A q \in Page : q # p => page'[q] = page[q]
  BY <1>1, <1>3, <1>6, FlagSet
<1>8. /\ Leaves(t, Idle) /\ pc'[t] = Idle
      /\ \A u \in Thread : u # t => pc'[u] = pc[u]
  BY <1>1, IdleControl DEF Leaves, FullInv, IInv, TypeOK
<1>9. /\ pc[t].taken = {} /\ pc[t].seg = NoSegment
      /\ pc[t].op \notin {"done", "delete", "absorb"}
      /\ Idle.seg = NoSegment /\ Idle.taken = {} /\ Idle.at = "idle"
  BY <1>1, <1>2 DEF AtWork, AtHome, Ending, Deleting, SegmentAt, ReclaimAt, Idle
<1>10. OwnersHeld'
  <2>1. \A q \in Page : SameFace(q)
    BY <1>3, <1>7 DEF SameFace, SameBlocks, f
  <2>2. ASSUME NEW q \in Page, q = p PROVE PageHeld(q)'
    <3>1. PageHeld(q) /\ InUse(page'[q]) /\ page[q].xheap # NoHeap
      BY <1>3, <1>7, <2>2, FreeingHasHeap DEF FullInv, Handover, SameBlocks
    <3> QED
      BY <1>1, <1>7, <3>1 DEF PageHeld, Owner
  <2> QED
    BY <1>1, <1>7, <1>8, <1>9, <2>1, <2>2, FacesKept, IdleAtWork
<1>11. (\A d : OnItsWay(d)' <=> OnItsWay(d)) /\ \A q : Delayed(q)' <=> Delayed(q)
  BY <1>1, <1>8, <1>9, SameLists
<1>12. \A u \in Thread : FreerHeld(u)'
  <2>1. FreerHeld(t)'
    BY <1>8, <1>9 DEF FreerHeld, FreeingAt
  <2>2. ASSUME NEW u \in Thread, u # t PROVE FreerHeld(u)'
    <3>1. \A q \in Page : Frees(u, q) => page[q].flag = "freeing" /\ q # p
      BY <1>5, <2>2, FreerOut DEF Frees
    <3> QED
      BY <1>1, <1>7, <1>8, <1>9, <1>11, <2>2, <3>1, FreersStay DEF FreeingAt
  <2> QED
    BY <2>1, <2>2
<1>13. ASSUME NEW q \in Page PROVE Claimed(q)'
  <2>1. q = p => page'[q].flag # "freeing"
    BY <1>7 DEF f
  <2>2. q # p => \A u \in Thread : Frees(u, q) => Frees(u, q)'
    BY <1>6, <1>8 DEF Frees, b
  <2> QED
    BY <1>7, <2>1, <2>2 DEF FullInv, Handover, Claimed
<1>14. (\A g \in Heap : ListHeld(g)') /\ (\A u \in Thread : TakenHeld(u)')
  BY <1>1, <1>7, <1>8, <1>9, ListsKept DEF IInv, Absorbs, Owner
<1>15. ASSUME NEW q \in Page PROVE Returns(q)'
  <2>1. Collecting(q) => Collecting(q)'
    BY <1>1, <1>8 DEF Collecting
  <2>2. q = p => Delayed(q)'
    BY <1>3, <1>4, <1>6, <1>11, DelayedIsOnItsWay
  <2> QED
    BY <1>7, <1>11, <2>1, <2>2 DEF Returns, FullInv, Handover, SameBlocks
<1>16. \A q \in Page : OutIsAway(q)'
  <2>1. \A u \in Thread : Carried(u)' = Carried(u)
    BY <1>1, <1>8, <1>9 DEF Carried, Hand
  <2>2. \A d : Away(d) => Away(d)'
    BY <1>1, <2>1 DEF Away
  <2> QED
    BY <1>7, <2>2, OutSame
<1> QED
  BY <1>10, <1>12, <1>13, <1>14, <1>15, <1>16 DEF Handover, OwnersHeld

-----------------------------------------------------------------------------
(* heap_delayed_free_partial.                                              *)

LEMMA ReinsertHeld ==
    ASSUME FullInv, IInv', NEW t \in Thread, NEW b \in Block, Reinsert(t, b)
    PROVE  Handover'
<1> DEFINE h    == pc[t].heap
           left == pc[t].taken \ {b}
           c    == [pc[t] EXCEPT !.taken = left, !.again = TRUE]
<1>1. /\ pc[t].at = "delayed" /\ b \in pc[t].taken /\ page[PageOf[b]].flag = "freeing"
      /\ delayed' = [delayed EXCEPT ![h] = @ \cup {b}]
      /\ pc' = [pc EXCEPT ![t] = c]
      /\ UNCHANGED <<page, heapThread, threadId, abandoned, live>>
  BY DEF Reinsert
<1>2. pc[t] \in Control /\ Placed(pc[t]) /\ AtWork(t) /\ TakenHeld(t)
  BY InControl DEF FullInv, Handover
<1>3. PageOf[b] \in Page /\ h \in Heap /\ t # NoThread
  BY <1>1, <1>2, ThreadFreeAssumption DEF Placed
<1>4. /\ heapThread[h] = t /\ Owner(PageOf[b]) = t
      /\ page[PageOf[b]].xheap = h \/ Absorbs(t, h)
  BY <1>1, <1>2 DEF AtWork, AtHome, FreeingAt, TakenHeld
<1>5. pc[t].op # "done"
  BY <1>1, <1>2, <1>3, <1>4 DEF AtWork, Ending, Absorbs
<1>6. left \in SUBSET Block /\ left \subseteq pc[t].taken
  BY <1>2 DEF Control
<1> HIDE DEF left
<1>7. /\ c \in Control /\ Placed(c) /\ c.at = "delayed" /\ c.op = pc[t].op
      /\ c.heap = h /\ c.seg = pc[t].seg /\ c.block = pc[t].block
      /\ c.taken = left /\ c.again = TRUE
  BY <1>1, <1>2, <1>6 DEF Control, Placed
<1> HIDE DEF c, h
<1>8. Leaves(t, c) /\ pc'[t] = c /\ \A u \in Thread : u # t => pc'[u] = pc[u]
  BY <1>1, <1>7 DEF Leaves, FullInv, IInv, TypeOK
<1>9. /\ delayed'[h] = delayed[h] \cup {b}
      /\ \A g \in Heap : g # h => delayed'[g] = delayed[g]
  BY <1>1, <1>3 DEF FullInv, IInv, TypeOK
<1>10. AtWork(t)'
  <2>1. AtHome(t)' /\ AtSegment(t)' /\ Ending(t)'
    BY <1>1, <1>2, <1>5, <1>7, <1>8 DEF AtWork, AtHome, AtSegment, Ending,
       FreeingAt, SegmentAt, ReclaimAt, h
  <2>2. Pages(pc[t].heap)' = Pages(pc[t].heap)
    BY <1>1, <1>7, <1>8 DEF Pages, h
  <2>3. Deleting(t)'
    BY <1>1, <1>2, <1>7, <1>8, <2>2 DEF AtWork, Deleting, h
  <2> QED
    BY <2>1, <2>3 DEF AtWork
<1>11. OwnersHeld'
  <2>1. ASSUME NEW u \in Thread \ {t}, pc[u].heap = h, pc[u].op \in {"done", "absorb"}
        PROVE  FALSE
    <3>1. AtWork(u)
      BY DEF FullInv, Handover
    <3> QED
      BY <1>4, <2>1, <3>1 DEF AtWork, AtHome, Ending, Deleting, FreeingAt
  <2>2. ClosedStay(t)
    BY <1>9, <2>1 DEF ClosedStay
  <2> QED
    BY <1>1, <1>7, <1>8, <1>10, <2>2, OwnersKept DEF SameFace
<1>12. \A d : OnItsWay(d) => OnItsWay(d)'
  <2>1. \A u \in Thread : \A d : d \in pc[u].taken => d \in pc'[u].taken \/ d = b
    BY <1>7, <1>8 DEF left
  <2> QED
    BY <1>3, <1>9, <2>1 DEF OnItsWay
<1>13. \A q : Delayed(q) => Delayed(q)'
  <2>1. \A q : Delayed(q)' <=> \E d \in Block : PageOf[d] = q /\ OnItsWay(d)'
    BY DEF Delayed, OnItsWay, BlocksOf
  <2> QED
    BY <1>12, <2>1, DelayedIsOnItsWay
<1>14. \A u \in Thread : FreerHeld(u)'
  <2>1. FreerHeld(t)'
    BY <1>7, <1>8 DEF FreerHeld, FreeingAt
  <2>2. ASSUME NEW u \in Thread, u # t PROVE FreerHeld(u)'
    <3>1. \A q \in Page : Frees(u, q) => page[q].flag = "freeing"
      BY FreerOut DEF Frees
    <3> QED
      BY <1>1, <1>7, <1>8, <1>12, <2>2, <3>1, FreersStay DEF FreeingAt
  <2> QED
    BY <2>1, <2>2
<1>15. \A q \in Page : Claimed(q)'
  <2>1. \A u \in Thread, q \in Page : Frees(u, q)' <=> Frees(u, q)
    BY <1>1, <1>7, <1>8 DEF Frees, FreeingAt
  <2> QED
    BY <1>1, <2>1 DEF FullInv, Handover, Claimed
<1>16. ASSUME NEW g \in Heap PROVE ListHeld(g)'
  <2> SUFFICES ASSUME NEW d \in delayed'[g]
               PROVE  /\ heapThread[g] # NoThread /\ Owner(PageOf[d]) = heapThread[g]
                      /\ page[PageOf[d]].xheap = g \/ \E u \in Thread : Absorbs(u, g)'
    BY <1>1 DEF ListHeld, Owner
  <2>1. \A u \in Thread : Absorbs(u, g) => Absorbs(u, g)'
    BY <1>7, <1>8 DEF Absorbs, h
  <2>2. CASE d \in delayed[g]
    BY <2>1, <2>2 DEF FullInv, Handover, ListHeld
  <2>3. CASE g = h /\ d = b
    BY <1>3, <1>4, <2>1, <2>3
  <2> QED
    BY <1>9, <2>2, <2>3
<1>17. \A u \in Thread : TakenHeld(u)'
  <2>1. TakenHeld(t)'
    BY <1>1, <1>2, <1>6, <1>7, <1>8 DEF TakenHeld, Owner, Absorbs, h
  <2>2. ASSUME NEW u \in Thread, u # t PROVE TakenHeld(u)'
    BY <1>1, <1>8, <2>2 DEF FullInv, Handover, TakenHeld, Owner, Absorbs
  <2> QED
    BY <2>1, <2>2
<1>18. \A q \in Page : Returns(q)'
  <2>1. \A q \in Page : Collecting(q)' <=> Collecting(q)
    BY <1>1, <1>7, <1>8 DEF Collecting
  <2> QED
    BY <1>1, <1>13, <2>1 DEF Returns, FullInv, Handover
<1>19. \A q \in Page : OutIsAway(q)'
  <2>1. \A u \in Thread : \A d : d \in Carried(u) => d \in Carried(u)' \/ d = b
    BY <1>1, <1>7, <1>8 DEF Carried, Hand, left
  <2>2. ASSUME NEW d, Away(d) PROVE Away(d)'
    BY <1>1, <1>3, <1>9, <2>1, <2>2 DEF Away
  <2>3. SameBlocks
    BY <1>1 DEF SameBlocks
  <2> QED
    BY <2>2, <2>3, OutSame
<1> QED
  BY <1>11, <1>14, <1>15, <1>16, <1>17, <1>18, <1>19 DEF Handover, OwnersHeld

LEMMA TryUseHeld ==
    ASSUME FullInv, IInv', NEW t \in Thread, NEW b \in Block, TryUse(t, b)
    PROVE  Handover'
<1> DEFINE p    == PageOf[b]
           left == pc[t].taken \ {b}
           c    == [pc[t] EXCEPT !.taken = left, !.at = "collect", !.block = b]
<1>1. /\ pc[t].at = "delayed" /\ b \in pc[t].taken /\ page[p].flag # "freeing"
      /\ page' = [page EXCEPT ![p] = UsingDelayed(@)]
      /\ pc' = [pc EXCEPT ![t] = c]
      /\ UNCHANGED <<delayed, heapThread, threadId, abandoned, live>>
  BY DEF TryUse
<1>2. pc[t] \in Control /\ Placed(pc[t]) /\ AtWork(t) /\ TakenHeld(t)
  BY InControl DEF FullInv, Handover
<1>3. p \in Page /\ PageOf[b] = p /\ NoHeap \notin Heap
      /\ t # NoThread /\ Owner(p) = t
  BY <1>1, <1>2, ThreadFreeAssumption DEF TakenHeld
<1>4. left \in SUBSET Block /\ left \subseteq pc[t].taken /\ b \notin left
  BY <1>2 DEF Control
<1> HIDE DEF left, p
<1>5. /\ c \in Control /\ Placed(c) /\ c.at = "collect" /\ c.op = pc[t].op
      /\ c.heap = pc[t].heap /\ c.seg = pc[t].seg /\ c.block = b
      /\ c.taken = left /\ c.again = pc[t].again
  BY <1>1, <1>2, <1>4 DEF Control, Placed, Label
<1> HIDE DEF c
<1>6. Leaves(t, c) /\ pc'[t] = c /\ \A u \in Thread : u # t => pc'[u] = pc[u]
  BY <1>1, <1>5 DEF Leaves, FullInv, IInv, TypeOK
<1>7. /\ SameBlocks
      /\ page'[p].flag = IF page[p].flag = "never" THEN "never" ELSE "use"
      /\ \A q \in Page : page'[q].xheap = page[q].xheap
      /\ \A q \in Page : q # p => page'[q] = page[q]
  BY <1>1, <1>3, UsingSet
<1>8. /\ heapThread[pc[t].heap] = t /\ pc[t].seg = NoSegment
  BY <1>1, <1>2 DEF AtWork, AtHome, FreeingAt, SegmentAt, ReclaimAt
<1>9. \A q \in Page : page'[q].flag = "never" <=> page[q].flag = "never"
  BY <1>7
<1>10. AtWork(t)'
  <2>1. AtHome(t)' /\ AtSegment(t)'
    BY <1>1, <1>5, <1>6, <1>8 DEF AtHome, AtSegment, FreeingAt, SegmentAt, ReclaimAt
  <2>2. Ending(t)'
    BY <1>1, <1>2, <1>5, <1>6, <1>7, <1>9 DEF AtWork, Ending
  <2>3. Pages(pc[t].heap)' = Pages(pc[t].heap)
    BY <1>5, <1>6, <1>7 DEF Pages
  <2>4. Deleting(t)'
    BY <1>1, <1>2, <1>5, <1>6, <2>3 DEF AtWork, Deleting
  <2> QED
    BY <2>1, <2>2, <2>4 DEF AtWork
<1>11. OwnersHeld'
  <2>1. \A q \in Page : SameFace(q)
    BY <1>7, <1>9 DEF SameFace, SameBlocks
  <2>2. PageHeld(p)'
    <3>1. PageHeld(p) /\ page[p].xheap # NoHeap /\ InUse(page'[p])
      BY <1>3, <1>7 DEF FullInv, Handover, PageHeld, Owner, SameBlocks
    <3> QED
      BY <1>1, <1>3, <1>7, <3>1 DEF PageHeld, Owner
  <2> QED
    BY <1>1, <1>5, <1>6, <1>7, <1>10, <2>1, <2>2, FacesKept
<1>12. \A d : OnItsWay(d) => OnItsWay(d)' \/ d = b
  BY <1>1, <1>5, <1>6 DEF OnItsWay, left
<1>13. (\A u \in Thread : FreerHeld(u)') /\ (\A q \in Page : Claimed(q)')
  BY <1>1, <1>3, <1>5, <1>6, <1>7, <1>12, ClaimsKept DEF FreeingAt
<1>14. (\A g \in Heap : ListHeld(g)') /\ (\A u \in Thread : TakenHeld(u)')
  BY <1>1, <1>4, <1>5, <1>6, <1>7, ListsKept DEF IInv, Absorbs, Owner
<1>15. ASSUME NEW q \in Page PROVE Returns(q)'
  <2>1. CASE q = p
    <3>1. Collecting(q)'
      BY <1>3, <1>5, <1>6, <2>1 DEF Collecting
    <3> QED
      BY <1>7, <2>1, <3>1 DEF Returns
  <2>2. CASE q # p
    <3>1. Collecting(q) => Collecting(q)'
      BY <1>1, <1>6 DEF Collecting
    <3>2. Delayed(q)' <=> \E d \in Block : PageOf[d] = q /\ OnItsWay(d)'
      BY DEF Delayed, OnItsWay, BlocksOf
    <3>3. Delayed(q) => Delayed(q)'
      BY <1>3, <1>12, <2>2, <3>2, DelayedIsOnItsWay
    <3> QED
      BY <1>7, <2>2, <3>1, <3>3 DEF Returns, FullInv, Handover
  <2> QED
    BY <2>1, <2>2
<1>16. \A q \in Page : OutIsAway(q)'
  <2>1. \A u \in Thread : \A d : d \in Carried(u) => d \in Carried(u)'
    BY <1>1, <1>5, <1>6 DEF Carried, Hand, left
  <2>2. \A d : Away(d) => Away(d)'
    BY <1>1, <2>1 DEF Away
  <2> QED
    BY <1>7, <2>2, OutSame
<1> QED
  BY <1>11, <1>13, <1>14, <1>15, <1>16 DEF Handover, OwnersHeld

-----------------------------------------------------------------------------
(* The end of a thread: mark its pages never, and abandon them.            *)

LEMMA NeverDelayedHeld ==
    ASSUME FullInv, IInv', NEW t \in Thread, NEW p \in Page, NeverDelayed(t, p)
    PROVE  Handover'
<1> DEFINE left == pc[t].todo \ {p}
           c    == [pc[t] EXCEPT !.todo = left]
           f    == "never"
<1>1. /\ pc[t].at = "never" /\ p \in pc[t].todo /\ page[p].flag # "freeing"
      /\ page' = [page EXCEPT ![p].flag = f] /\ f \in Flag
      /\ pc' = [pc EXCEPT ![t] = c]
      /\ UNCHANGED <<delayed, heapThread, threadId, abandoned, live>>
  BY DEF NeverDelayed, Flag
<1>2. pc[t] \in Control /\ Placed(pc[t]) /\ AtWork(t)
  BY InControl DEF FullInv, Handover
<1>3. left \in SUBSET Page /\ left \subseteq pc[t].todo
  BY <1>2 DEF Control
<1> HIDE DEF left, f
<1>4. /\ c \in Control /\ Placed(c) /\ c.at = "never" /\ c.op = pc[t].op
      /\ c.heap = pc[t].heap /\ c.seg = pc[t].seg /\ c.block = pc[t].block
      /\ c.taken = pc[t].taken /\ c.again = pc[t].again /\ c.todo = left
  BY <1>1, <1>2, <1>3 DEF Control, Placed
<1> HIDE DEF c
<1>5. Leaves(t, c) /\ pc'[t] = c /\ \A u \in Thread : u # t => pc'[u] = pc[u]
  BY <1>1, <1>4 DEF Leaves, FullInv, IInv, TypeOK
<1>6. /\ SameBlocks /\ page'[p].flag = "never"
      /\ \A q \in Page : page'[q].xheap = page[q].xheap
      /\ \A q \in Page : q # p => page'[q] = page[q]
  BY <1>1, FlagSet DEF f
<1>7. /\ heapThread[pc[t].heap] = t /\ pc[t].seg = NoSegment
      /\ pc[t].block = NoBlock /\ pc[t].taken = {} /\ pc[t].op = "done"
      /\ pc[t].heap \in Heap /\ page[p].xheap = pc[t].heap
  BY <1>1, <1>2 DEF AtWork, AtHome, Ending, FreeingAt, SegmentAt, ReclaimAt, Pages,
     Placed
<1>8. page[p].xheap # NoHeap /\ threadId[SegmentOf[p]] = t
  BY <1>7, ThreadFreeAssumption DEF FullInv, Handover, PageHeld, Owner
<1>9. AtWork(t)'
  <2>1. pc'[t].todo \subseteq Pages(pc[t].heap)'
    BY <1>1, <1>2, <1>3, <1>4, <1>5, <1>6 DEF AtWork, AtHome, Pages
  <2>2. AtHome(t)' /\ AtSegment(t)' /\ Deleting(t)'
    BY <1>1, <1>4, <1>5, <1>7, <2>1 DEF AtHome, AtSegment, Deleting, FreeingAt,
       SegmentAt, ReclaimAt
  <2>3. Ending(t)'
    BY <1>1, <1>2, <1>4, <1>5, <1>6, <1>7 DEF AtWork, Ending, left
  <2> QED
    BY <2>2, <2>3 DEF AtWork
<1>10. OwnersHeld'
  <2>1. Spared(t, p)
    BY <1>8, MineSpared
  <2>2. \A q \in Page : SameFace(q) \/ OwnChange(t, q)
    BY <1>6, <1>7, <2>1 DEF SameFace, SameBlocks, OwnChange
  <2>3. PageHeld(p)'
    <3>1. PageHeld(p) /\ InUse(page'[p])
      BY <1>6, <1>8 DEF FullInv, Handover, PageHeld, SameBlocks
    <3> QED
      BY <1>1, <1>6, <1>8, <3>1 DEF PageHeld, Owner
  <2> QED
    BY <1>1, <1>4, <1>5, <1>6, <1>9, <2>2, <2>3, FacesKept
<1>11. (\A d : OnItsWay(d)' <=> OnItsWay(d)) /\ \A q : Delayed(q)' <=> Delayed(q)
  BY <1>1, <1>4, <1>5, SameLists
<1>12. (\A u \in Thread : FreerHeld(u)') /\ (\A q \in Page : Claimed(q)')
  <2>1. \A q \in Page : page'[q].flag = "freeing" <=> page[q].flag = "freeing"
    BY <1>1, <1>6
  <2> QED
    BY <1>1, <1>4, <1>5, <1>6, <1>11, <2>1, ClaimsKept DEF FreeingAt
<1>13. (\A g \in Heap : ListHeld(g)') /\ (\A u \in Thread : TakenHeld(u)')
  BY <1>1, <1>4, <1>5, <1>6, <1>7, ListsKept DEF IInv, Absorbs, Owner
<1>14. ASSUME NEW q \in Page PROVE Returns(q)'
  <2>1. Collecting(q)' <=> Collecting(q)
    BY <1>1, <1>4, <1>5 DEF Collecting
  <2>2. q = p => page'[q].flag = "never"
    BY <1>6
  <2> QED
    BY <1>6, <1>11, <2>1, <2>2 DEF Returns, FullInv, Handover
<1>15. \A q \in Page : OutIsAway(q)'
  <2>1. \A u \in Thread : Carried(u)' = Carried(u)
    BY <1>1, <1>4, <1>5 DEF Carried, Hand
  <2>2. \A d : Away(d) => Away(d)'
    BY <1>1, <2>1 DEF Away
  <2> QED
    BY <1>6, <2>2, OutSame
<1> QED
  BY <1>10, <1>12, <1>13, <1>14, <1>15 DEF Handover, OwnersHeld

\* No delayed block is left in a page of a thread past its last round of frees.
LEMMA LastPageBare ==
    ASSUME FullInv, NEW t \in Thread, pc[t].at = "pages", pc[t].op = "done",
           NEW p \in Page, Owner(p) = t
    PROVE  Bare(p)
<1>1. /\ AtWork(t) /\ t # NoThread /\ pc[t].taken = {}
      /\ delayed[Backing[t]] = {} /\ \A h \in Heap : heapThread[h] = t => h = Backing[t]
  BY ThreadFreeAssumption DEF FullInv, Handover, AtWork, AtHome, Ending
<1> SUFFICES ASSUME NEW b \in Block, PageOf[b] = p
             PROVE  ~OnItsWay(b) /\ \A u \in Thread : pc[u].at = "collect" =>
                                                         pc[u].block # b
  BY DEF Bare
<1>2. \A h \in Heap : b \notin delayed[h]
  BY <1>1 DEF FullInv, Handover, ListHeld
<1>3. \A u \in Thread : b \notin pc[u].taken
  BY <1>1 DEF FullInv, Handover, TakenHeld
<1>4. \A u \in Thread : pc[u].at = "collect" => pc[u].block # b
  BY <1>1 DEF FullInv, Handover, TakenHeld
<1> QED
  BY <1>2, <1>3, <1>4 DEF OnItsWay

\* page_abandon.
LEMMA PageAbandonedHeld ==
    ASSUME FullInv, IInv', NEW t \in Thread, NEW p \in Page, PageCollect(t, p),
           pc[t].op = "done", Collected(page[p], pc[t].op # "collect").used # 0
    PROVE  Handover'
<1> DEFINE col  == Collected(page[p], pc[t].op # "collect")
           pg   == [col EXCEPT !.xheap = NoHeap, !.in_full = FALSE]
           left == pc[t].todo \ {p}
           c    == [pc[t] EXCEPT !.todo = left]
<1>1. /\ pc[t].at = "pages" /\ p \in pc[t].todo /\ Settle(p, pg)
      /\ pc' = [pc EXCEPT ![t] = c] /\ UNCHANGED <<delayed, heapThread, live>>
  BY DEF PageCollect
<1>2. pc[t] \in Control /\ Placed(pc[t]) /\ AtWork(t) /\ IsCollected(p, col)
  BY InControl, CollectedIs DEF FullInv, Handover
<1>3. /\ pg.xheap = NoHeap /\ pg.flag = page[p].flag /\ pg.thread_free = {}
      /\ InUse(pg) <=> InUse(page[p])
      /\ Out(pg) = Out(page[p])
  <2> HIDE DEF col
  <2>1. col \in PageRecord
    BY <1>2 DEF IsCollected, Good
  <2> QED
    BY <1>2, <2>1 DEF PageRecord, IsCollected, Out, InUse
<1> HIDE DEF pg, col
<1>4. left \in SUBSET Page /\ left \subseteq pc[t].todo
  BY <1>2 DEF Control
<1> HIDE DEF left
<1>5. /\ c \in Control /\ Placed(c) /\ c.at = "pages" /\ c.op = pc[t].op
      /\ c.heap = pc[t].heap /\ c.seg = pc[t].seg /\ c.block = pc[t].block
      /\ c.taken = pc[t].taken /\ c.again = pc[t].again /\ c.todo = left
  BY <1>1, <1>2, <1>4 DEF Control, Placed
<1> HIDE DEF c
<1>6. Leaves(t, c) /\ pc'[t] = c /\ \A u \in Thread : u # t => pc'[u] = pc[u]
  BY <1>1, <1>5 DEF Leaves, FullInv, IInv, TypeOK
<1>7. /\ page' = [page EXCEPT ![p] = pg] /\ page'[p] = pg
      /\ \A q \in Page : q # p => page'[q] = page[q]
  BY <1>1 DEF Settle, FullInv, IInv, TypeOK
<1>8. /\ heapThread[pc[t].heap] = t /\ pc[t].seg = NoSegment
      /\ pc[t].block = NoBlock /\ pc[t].taken = {}
      /\ pc[t].heap \in Heap /\ page[p].xheap = pc[t].heap /\ NoHeap \notin Heap
      /\ pc[t].heap = Backing[t]
  BY <1>1, <1>2, ThreadFreeAssumption DEF AtWork, AtHome, Ending, FreeingAt,
     SegmentAt, ReclaimAt, Pages, Placed
<1>9. /\ page[p].xheap # NoHeap /\ threadId[SegmentOf[p]] = t /\ Owner(p) = t
      /\ page[p].flag = "never"
  BY <1>1, <1>2, <1>8 DEF FullInv, Handover, PageHeld, Owner, AtWork, Ending
<1>10. AtWork(t)'
  <2>1. pc'[t].todo \subseteq Pages(pc[t].heap)'
    BY <1>1, <1>2, <1>4, <1>5, <1>6, <1>7 DEF AtWork, AtHome, Pages, left
  <2>2. AtHome(t)' /\ AtSegment(t)' /\ Deleting(t)'
    BY <1>1, <1>5, <1>6, <1>8, <2>1 DEF AtHome, AtSegment, Deleting, FreeingAt,
       SegmentAt, ReclaimAt
  <2>3. Ending(t)'
    BY <1>1, <1>2, <1>3, <1>5, <1>6, <1>7, <1>8 DEF AtWork, Ending, left
  <2> QED
    BY <2>2, <2>3 DEF AtWork
<1>11. OwnersHeld'
  <2>1. ~InUse(pg) => pg.xheap = NoHeap /\ pg.flag = "use"
    BY <1>3, <1>9 DEF FullInv, Handover, PageHeld
  <2> QED
    BY <1>1, <1>3, <1>5, <1>6, <1>8, <1>9, <1>10, <2>1, OwnersSettled
<1>12. (\A d : OnItsWay(d)' <=> OnItsWay(d)) /\ \A q : Delayed(q)' <=> Delayed(q)
  BY <1>1, <1>5, <1>6, SameLists
<1>13. (\A u \in Thread : FreerHeld(u)') /\ (\A q \in Page : Claimed(q)')
  <2>1. \A q \in Page : /\ page'[q].flag = page[q].flag
                        /\ page[q].flag = "freeing" => page'[q].xheap = page[q].xheap
    BY <1>3, <1>7, <1>9
  <2> QED
    BY <1>1, <1>5, <1>6, <1>12, <2>1, ClaimsKept DEF FreeingAt
<1>14. (\A g \in Heap : ListHeld(g)') /\ (\A u \in Thread : TakenHeld(u)')
  <2>1. Bare(p)'
    <3>1. Bare(p)
      BY <1>1, <1>9, LastPageBare
    <3>2. \A u \in Thread : pc'[u].at = pc[u].at /\ pc'[u].block = pc[u].block
      BY <1>1, <1>5, <1>6
    <3> QED
      BY <1>12, <3>1, <3>2 DEF Bare
  <2>2. \A q \in Page : q # p => Owner(q)' = Owner(q)
    BY <1>1, <1>7 DEF Owner
  <2> QED
    BY <1>1, <1>5, <1>6, <1>7, <1>8, <2>1, <2>2, ListsKept DEF IInv, Absorbs
<1>15. ASSUME NEW q \in Page PROVE Returns(q)'
  <2>1. Collecting(q)' <=> Collecting(q)
    BY <1>1, <1>5, <1>6 DEF Collecting
  <2>2. q = p => page'[q].flag = "never"
    BY <1>3, <1>7, <1>9
  <2> QED
    BY <1>7, <1>12, <2>1, <2>2 DEF Returns, FullInv, Handover
<1>16. \A q \in Page : OutIsAway(q)'
  <2>1. \A u \in Thread : Carried(u)' = Carried(u)
    BY <1>1, <1>5, <1>6 DEF Carried, Hand
  <2>2. \A d : Away(d) => Away(d)'
    BY <1>1, <2>1 DEF Away
  <2> QED
    BY <1>3, <1>7, <2>2, OutKept
<1> QED
  BY <1>11, <1>13, <1>14, <1>15, <1>16 DEF Handover, OwnersHeld

LEMMA PageCollectHeld ==
    ASSUME FullInv, IInv', NEW t \in Thread, NEW p \in Page, PageCollect(t, p)
    PROVE  Handover'
  BY PageFreedHeld, PageAbandonedHeld

-----------------------------------------------------------------------------
(* segment_reclaim: give a page a heap, and allow delayed frees.           *)

LEMMA SetHeapHeld ==
    ASSUME FullInv, IInv', NEW t \in Thread, NEW p \in Page, SetHeap(t, p)
    PROVE  Handover'
<1> DEFINE h    == pc[t].heap
           left == pc[t].todo \ {p}
           c    == [pc[t] EXCEPT !.at = "allow", !.page = p, !.todo = left]
<1>1. /\ pc[t].at = "reclaim" /\ p \in pc[t].todo
      /\ page' = [page EXCEPT ![p].xheap = h] /\ pc' = [pc EXCEPT ![t] = c]
      /\ UNCHANGED <<delayed, heapThread, threadId, abandoned, live>>
  BY DEF SetHeap
<1>2. /\ pc[t] \in Control /\ Placed(pc[t]) /\ AtWork(t) /\ h \in Heap
      /\ NoHeap \notin Heap /\ t # NoThread
  BY <1>1, InControl, ThreadFreeAssumption DEF FullInv, Handover, Placed
<1>3. left \in SUBSET Page /\ left \subseteq pc[t].todo /\ p \notin left
  BY <1>2 DEF Control
<1> HIDE DEF left
<1>4. /\ c \in Control /\ Placed(c) /\ c.at = "allow" /\ c.op = pc[t].op
      /\ c.heap = h /\ c.seg = pc[t].seg /\ c.block = pc[t].block /\ c.page = p
      /\ c.taken = pc[t].taken /\ c.again = pc[t].again /\ c.todo = left
  BY <1>1, <1>2, <1>3 DEF Control, Placed, Label
<1> HIDE DEF c
<1>5. Leaves(t, c) /\ pc'[t] = c /\ \A u \in Thread : u # t => pc'[u] = pc[u]
  BY <1>1, <1>4 DEF Leaves, FullInv, IInv, TypeOK
<1>6. /\ heapThread[h] = t /\ threadId[pc[t].seg] = t
      /\ SegmentOf[p] = pc[t].seg /\ InUse(page[p]) /\ page[p].xheap = NoHeap
      /\ pc[t].block = NoBlock /\ pc[t].taken = {}
      /\ pc[t].op \notin {"done", "delete", "absorb"}
  BY <1>1, <1>2 DEF AtWork, AtHome, AtSegment, Ending, Deleting, FreeingAt, ReclaimAt
<1> HIDE DEF h
<1>7. /\ SameBlocks /\ page'[p].xheap = h
      /\ \A q \in Page : page'[q].flag = page[q].flag
      /\ \A q \in Page : q # p => page'[q] = page[q]
  BY <1>1, HeapSet
<1>8. Owner(p) = NoThread /\ page[p].flag # "freeing"
  BY <1>6, FreeingHasHeap DEF Owner
<1>9. AtWork(t)'
  <2>1. \A q \in left : /\ SegmentOf[q] = pc[t].seg
                        /\ InUse(page'[q]) /\ page'[q].xheap = NoHeap
    BY <1>1, <1>2, <1>3, <1>7 DEF AtWork, AtSegment, ReclaimAt
  <2>2. AtSegment(t)'
    BY <1>1, <1>4, <1>5, <1>6, <1>7, <2>1 DEF AtSegment, ReclaimAt
  <2>3. AtHome(t)' /\ Ending(t)' /\ Deleting(t)'
    BY <1>1, <1>4, <1>5, <1>6 DEF AtHome, Ending, Deleting, FreeingAt, SegmentAt,
       ReclaimAt
  <2> QED
    BY <2>2, <2>3 DEF AtWork
<1>10. OwnersHeld'
  <2>1. Spared(t, p)
    BY <1>6, MineSpared
  <2>2. \A q \in Page : SameFace(q) \/ OwnChange(t, q)
    BY <1>6, <1>7, <2>1 DEF SameFace, SameBlocks, OwnChange
  <2>3. PageHeld(p)'
    <3>1. InUse(page'[p])
      BY <1>6, <1>7 DEF SameBlocks
    <3> QED
      BY <1>1, <1>2, <1>6, <1>7, <3>1 DEF PageHeld, Owner
  <2> QED
    BY <1>1, <1>4, <1>5, <1>7, <1>9, <2>2, <2>3, FacesKept
<1>11. (\A d : OnItsWay(d)' <=> OnItsWay(d)) /\ \A q : Delayed(q)' <=> Delayed(q)
  BY <1>1, <1>4, <1>5, SameLists
<1>12. (\A u \in Thread : FreerHeld(u)') /\ (\A q \in Page : Claimed(q)')
  BY <1>1, <1>4, <1>5, <1>7, <1>8, <1>11, ClaimsKept DEF FreeingAt
<1>13. (\A g \in Heap : ListHeld(g)') /\ (\A u \in Thread : TakenHeld(u)')
  <2>1. Bare(p)'
    <3>1. \A b \in Block : PageOf[b] = p => ~OnItsWay(b)
      BY <1>8, OnItsWayHeld
    <3>2. \A u \in Thread : pc[u].at = "collect" => PageOf[pc[u].block] # p
      BY <1>8, ThreadFreeAssumption DEF FullInv, Handover, TakenHeld
    <3>3. \A u \in Thread : pc'[u].at = "collect" => PageOf[pc'[u].block] # p
      BY <1>4, <1>5, <3>2
    <3> QED
      BY <1>11, <3>1, <3>3 DEF Bare
  <2>2. \A q \in Page : q # p => Owner(q)' = Owner(q)
    BY <1>1, <1>7 DEF Owner
  <2> QED
    BY <1>1, <1>4, <1>5, <1>6, <1>7, <2>1, <2>2, ListsKept DEF IInv, Absorbs
<1>14. ASSUME NEW q \in Page PROVE Returns(q)'
  <2>1. Collecting(q)' <=> Collecting(q)
    BY <1>1, <1>4, <1>5 DEF Collecting
  <2> QED
    BY <1>7, <1>11, <2>1 DEF Returns, FullInv, Handover, SameBlocks
<1>15. \A q \in Page : OutIsAway(q)'
  <2>1. \A u \in Thread : Carried(u)' = Carried(u)
    BY <1>1, <1>4, <1>5 DEF Carried, Hand
  <2>2. \A d : Away(d) => Away(d)'
    BY <1>1, <2>1 DEF Away
  <2> QED
    BY <1>7, <2>2, OutSame
<1> QED
  BY <1>10, <1>12, <1>13, <1>14, <1>15 DEF Handover, OwnersHeld

LEMMA AllowDelayedHeld ==
    ASSUME FullInv, IInv', NEW t \in Thread, AllowDelayed(t)
    PROVE  Handover'
<1> DEFINE p == pc[t].page
           c == [pc[t] EXCEPT !.at = "gather"]
           f == "use"
<1>1. /\ pc[t].at = "allow" /\ page[p].flag # "freeing"
      /\ page' = [page EXCEPT ![p].flag = f] /\ f \in Flag
      /\ pc' = [pc EXCEPT ![t] = c]
      /\ UNCHANGED <<delayed, heapThread, threadId, abandoned, live>>
  BY DEF AllowDelayed, Flag
<1>2. /\ pc[t] \in Control /\ Placed(pc[t]) /\ AtWork(t) /\ p \in Page
      /\ pc[t].heap \in Heap /\ NoHeap \notin Heap
  BY <1>1, InControl, ThreadFreeAssumption DEF FullInv, Handover, Placed
<1>3. /\ c \in Control /\ Placed(c) /\ c.at = "gather" /\ c.op = pc[t].op
      /\ c.heap = pc[t].heap /\ c.seg = pc[t].seg /\ c.block = pc[t].block
      /\ c.page = p /\ c.taken = pc[t].taken /\ c.again = pc[t].again
      /\ c.todo = pc[t].todo
  BY <1>1, <1>2 DEF Control, Placed, Label
<1> HIDE DEF c, p, f
<1>4. Leaves(t, c) /\ pc'[t] = c /\ \A u \in Thread : u # t => pc'[u] = pc[u]
  BY <1>1, <1>3 DEF Leaves, FullInv, IInv, TypeOK
<1>5. /\ SameBlocks /\ page'[p].flag = "use"
      /\ \A q \in Page : page'[q].xheap = page[q].xheap
      /\ \A q \in Page : q # p => page'[q] = page[q]
  BY <1>1, <1>2, FlagSet DEF f
<1>6. /\ heapThread[pc[t].heap] = t /\ threadId[pc[t].seg] = t
      /\ page[p].xheap = pc[t].heap
      /\ pc[t].block = NoBlock /\ pc[t].taken = {}
      /\ pc[t].op \notin {"done", "delete", "absorb"}
  BY <1>1, <1>2 DEF AtWork, AtHome, AtSegment, Ending, Deleting, FreeingAt, ReclaimAt, p
<1>7. page[p].xheap # NoHeap /\ threadId[SegmentOf[p]] = t /\ InUse(page[p])
  BY <1>2, <1>6 DEF FullInv, Handover, PageHeld, Owner
<1>8. AtWork(t)'
  <2>1. AtSegment(t)'
    <3>1. \A q \in pc[t].todo : InUse(page'[q]) <=> InUse(page[q])
      BY <1>2, <1>5 DEF Control, SameBlocks
    <3> QED
      BY <1>1, <1>2, <1>3, <1>4, <1>5, <1>6, <3>1 DEF Control, AtWork, AtSegment,
         ReclaimAt
  <2>2. AtHome(t)' /\ Ending(t)' /\ Deleting(t)'
    BY <1>1, <1>3, <1>4, <1>6 DEF AtHome, Ending, Deleting, FreeingAt, SegmentAt,
       ReclaimAt
  <2> QED
    BY <2>1, <2>2 DEF AtWork
<1>9. OwnersHeld'
  <2>1. Spared(t, p)
    BY <1>2, <1>7, MineSpared
  <2>2. \A q \in Page : SameFace(q) \/ OwnChange(t, q)
    BY <1>1, <1>5, <1>6, <2>1 DEF SameFace, SameBlocks, OwnChange
  <2>3. ASSUME NEW q \in Page, q = p PROVE PageHeld(q)'
    <3>1. PageHeld(q) /\ InUse(page'[q])
      BY <1>5, <1>7, <2>3 DEF FullInv, Handover, SameBlocks
    <3> QED
      BY <1>1, <1>5, <1>7, <2>3, <3>1 DEF PageHeld, Owner
  <2> QED
    BY <1>1, <1>3, <1>4, <1>5, <1>8, <2>2, <2>3, FacesKept
<1>10. (\A d : OnItsWay(d)' <=> OnItsWay(d)) /\ \A q : Delayed(q)' <=> Delayed(q)
  BY <1>1, <1>3, <1>4, SameLists
<1>11. (\A u \in Thread : FreerHeld(u)') /\ (\A q \in Page : Claimed(q)')
  BY <1>1, <1>3, <1>4, <1>5, <1>10, ClaimsKept DEF FreeingAt
<1>12. (\A g \in Heap : ListHeld(g)') /\ (\A u \in Thread : TakenHeld(u)')
  BY <1>1, <1>3, <1>4, <1>5, <1>6, ListsKept DEF IInv, Absorbs, Owner
<1>13. ASSUME NEW q \in Page PROVE Returns(q)'
  <2>1. q = p \/ Collecting(q) => Collecting(q)'
    BY <1>1, <1>3, <1>4 DEF Collecting
  <2>2. q = p => page'[q].flag = "use"
    BY <1>5
  <2> QED
    BY <1>5, <1>10, <2>1, <2>2 DEF Returns, FullInv, Handover
<1>14. \A q \in Page : OutIsAway(q)'
  <2>1. \A u \in Thread : Carried(u)' = Carried(u)
    BY <1>1, <1>3, <1>4 DEF Carried, Hand
  <2>2. \A d : Away(d) => Away(d)'
    BY <1>1, <2>1 DEF Away
  <2> QED
    BY <1>5, <2>2, OutSame
<1> QED
  BY <1>9, <1>11, <1>12, <1>13, <1>14 DEF Handover, OwnersHeld

-----------------------------------------------------------------------------
(* page_queue_append: a page of a deleted heap goes to the backing heap.   *)

LEMMA AppendPageHeld ==
    ASSUME FullInv, IInv', NEW t \in Thread, NEW p \in Page, AppendPage(t, p)
    PROVE  Handover'
<1> DEFINE h    == pc[t].heap
           to   == Backing[t]
           left == pc[t].todo \ {p}
           c    == [pc[t] EXCEPT !.at = "spin", !.page = p, !.todo = left]
<1>1. /\ pc[t].at = "append" /\ p \in pc[t].todo
      /\ page' = [page EXCEPT ![p].xheap = to] /\ pc' = [pc EXCEPT ![t] = c]
      /\ UNCHANGED <<delayed, heapThread, threadId, abandoned, live>>
  BY DEF AppendPage
<1>2. /\ pc[t] \in Control /\ Placed(pc[t]) /\ AtWork(t) /\ h \in Heap /\ to \in Heap
      /\ NoHeap \notin Heap /\ t # NoThread
  BY <1>1, InControl, ThreadFreeAssumption DEF FullInv, Handover, Placed
<1>3. left \in SUBSET Page /\ left = pc[t].todo \ {p}
  BY <1>2 DEF Control
<1> HIDE DEF left
<1>4. /\ c \in Control /\ Placed(c) /\ c.at = "spin" /\ c.op = pc[t].op
      /\ c.heap = h /\ c.seg = pc[t].seg /\ c.block = pc[t].block /\ c.page = p
      /\ c.taken = pc[t].taken /\ c.again = pc[t].again /\ c.todo = left
  BY <1>1, <1>2, <1>3 DEF Control, Placed, Label
<1> HIDE DEF c
<1>5. Leaves(t, c) /\ pc'[t] = c /\ \A u \in Thread : u # t => pc'[u] = pc[u]
  BY <1>1, <1>4 DEF Leaves, FullInv, IInv, TypeOK
<1>6. /\ heapThread[h] = t /\ page[p].xheap = h /\ pc[t].todo = Pages(h)
      /\ pc[t].block = NoBlock /\ pc[t].taken = {} /\ pc[t].seg = NoSegment
      /\ pc[t].op = "delete" /\ h # to
  BY <1>1, <1>2 DEF AtWork, AtHome, Deleting, FreeingAt, SegmentAt, ReclaimAt, Pages
<1>7. heapThread[to] = t
  BY <1>2, <1>6 DEF FullInv, Handover, HeapsHeld
<1> HIDE DEF h, to
<1>8. /\ SameBlocks /\ page'[p].xheap = to
      /\ \A q \in Page : page'[q].flag = page[q].flag
      /\ \A q \in Page : q # p => page'[q] = page[q]
  BY <1>1, HeapSet
<1>9. \A q \in Page : Owner(q)' = Owner(q)
  BY <1>1, <1>2, <1>6, <1>7, <1>8 DEF Owner
<1>10. threadId[SegmentOf[p]] = t /\ InUse(page[p])
  BY <1>2, <1>6 DEF FullInv, Handover, PageHeld, Owner
<1>11. AtWork(t)'
  <2>1. pc'[t].todo = Pages(pc[t].heap)'
    <3>1. \A q \in Page : page'[q].xheap = h <=> q # p /\ page[q].xheap = h
      BY <1>6, <1>8
    <3> QED
      BY <1>3, <1>4, <1>5, <1>6, <3>1 DEF Pages
  <2>2. Deleting(t)'
    BY <1>1, <1>4, <1>5, <1>6, <1>8, <2>1 DEF Deleting, to, h
  <2>3. AtHome(t)' /\ AtSegment(t)' /\ Ending(t)'
    BY <1>1, <1>4, <1>5, <1>6 DEF AtHome, AtSegment, Ending, FreeingAt, SegmentAt,
       ReclaimAt
  <2> QED
    BY <2>2, <2>3 DEF AtWork
<1>12. OwnersHeld'
  <2>1. Spared(t, p)
    BY <1>10, MineSpared
  <2>2. \A q \in Page : SameFace(q) \/ OwnChange(t, q)
    BY <1>7, <1>8, <2>1 DEF SameFace, SameBlocks, OwnChange
  <2>3. PageHeld(p)'
    <3>1. InUse(page'[p])
      BY <1>8, <1>10 DEF SameBlocks
    <3> QED
      BY <1>1, <1>2, <1>7, <1>8, <1>10, <3>1 DEF PageHeld, Owner
  <2> QED
    BY <1>1, <1>4, <1>5, <1>8, <1>11, <2>2, <2>3, FacesKept
<1>13. (\A d : OnItsWay(d)' <=> OnItsWay(d)) /\ \A q : Delayed(q)' <=> Delayed(q)
  BY <1>1, <1>4, <1>5, SameLists
<1>14. \A u \in Thread, q \in Page : Frees(u, q)' <=> Frees(u, q)
  BY <1>1, <1>4, <1>5 DEF Frees, FreeingAt
<1>15. ASSUME NEW u \in Thread PROVE FreerHeld(u)'
  <2> SUFFICES ASSUME pc[u].at \in FreeingAt, u # t PROVE FreerHeld(u)'
    BY <1>4, <1>5 DEF FreerHeld, FreeingAt
  <2> DEFINE b == pc[u].block
             r == PageOf[b]
  <2>1. b \in Block /\ r \in Page /\ page[r].flag = "freeing" /\ pc'[u] = pc[u]
        /\ FreerHeld(u)
    BY <1>5, FreerOut DEF FullInv, Handover
  <2>2. pc[u].at = "reset" => OnItsWay(pc[u].block)'
    <3>1. ASSUME NEW d \in Block, d = pc'[u].block, pc[u].at = "reset"
          PROVE  OnItsWay(d)'
      BY <1>13, <2>1, <3>1 DEF FreerHeld
    <3> QED
      BY <2>1, <3>1
  <2>3. pc[u].at = "push" =>
            \/ pc[u].heap = page'[r].xheap
            \/ \E v \in Thread : pc'[v].at = "spin" /\ pc'[v].page = r
                                 /\ pc'[v].heap = pc[u].heap
    <3>1. CASE r = p /\ pc[u].heap = h
      BY <1>4, <1>5, <3>1
    <3>2. CASE ~(r = p /\ pc[u].heap = h)
      <4>1. page[r].xheap = pc[u].heap => page'[r].xheap = pc[u].heap
        BY <1>6, <1>8, <2>1, <3>2
      <4>2. \A v \in Thread : pc[v].at = "spin" => pc'[v] = pc[v]
        BY <1>1, <1>5
      <4> QED
        BY <2>1, <4>1, <4>2 DEF FreerHeld
    <3> QED
      BY <3>1, <3>2
  <2>4. ASSUME NEW v \in Thread, v # u
        PROVE  ~(pc'[v].at \in FreeingAt /\ PageOf[pc'[v].block] = r)
    <3>1. ~Frees(v, r)
      BY <2>1, <2>4 DEF FreerHeld
    <3> HIDE DEF r
    <3> QED
      BY <1>4, <1>5, <3>1 DEF Frees, FreeingAt
  <2>5. page'[r].flag = "freeing"
    BY <1>8, <2>1
  <2> QED
    BY <2>1, <2>2, <2>3, <2>4, <2>5 DEF FreerHeld, Frees
<1>16. \A q \in Page : Claimed(q)'
  BY <1>8, <1>14 DEF FullInv, Handover, Claimed
<1>17. \A u \in Thread, g \in Heap : Absorbs(u, g)' <=> Absorbs(u, g)
  BY <1>4, <1>5 DEF Absorbs, h
<1>18. ASSUME NEW g \in Heap PROVE ListHeld(g)'
  <2> SUFFICES ASSUME NEW b \in delayed[g]
               PROVE  /\ heapThread[g] # NoThread /\ Owner(PageOf[b])' = heapThread[g]
                      /\ page'[PageOf[b]].xheap = g \/ \E u \in Thread : Absorbs(u, g)'
    BY <1>1 DEF ListHeld
  <2>1. b \in Block /\ PageOf[b] \in Page /\ ListHeld(g)
    BY ThreadFreeAssumption DEF FullInv, Handover, IInv, TypeOK
  <2>2. Absorbs(t, h)
    BY <1>6 DEF Absorbs, h
  <2> QED
    BY <1>2, <1>6, <1>8, <1>9, <1>17, <2>1, <2>2 DEF ListHeld
<1>19. ASSUME NEW u \in Thread PROVE TakenHeld(u)'
  <2>1. TakenHeld(u) /\ pc[u] \in Control /\ Placed(pc[u])
    BY InControl DEF FullInv, Handover
  <2>2. CASE u = t
    BY <1>4, <1>5, <1>6, <2>2 DEF TakenHeld
  <2>3. CASE u # t
    <3>1. ASSUME NEW b \in Block PROVE PageOf[b] \in Page /\ Owner(PageOf[b])' = Owner(PageOf[b])
      BY <1>9, ThreadFreeAssumption
    <3>2. pc'[u] = pc[u]
      BY <1>5, <2>3
    <3>3. \A b \in pc[u].taken : b \in Block /\ Owner(PageOf[b]) = u /\ PageOf[b] # p
      BY <1>2, <1>6, <2>1, <2>3 DEF Control, TakenHeld, Owner
    <3>4. \A b \in pc[u].taken : /\ Owner(PageOf[b])' = u
                                 /\ page'[PageOf[b]].xheap = page[PageOf[b]].xheap
      BY <1>8, <3>1, <3>3
    <3>5. ASSUME NEW d, d = pc'[u].block, pc[u].at = "collect" PROVE Owner(PageOf[d])' = u
      BY <2>1, <3>1, <3>2, <3>5 DEF Placed, TakenHeld
    <3> QED
      BY <2>1, <3>2, <3>4, <3>5 DEF TakenHeld, Absorbs
  <2> QED
    BY <2>2, <2>3
<1>20. ASSUME NEW q \in Page PROVE Returns(q)'
  <2>1. Collecting(q)' <=> Collecting(q)
    BY <1>1, <1>4, <1>5 DEF Collecting
  <2> QED
    BY <1>8, <1>13, <2>1 DEF Returns, FullInv, Handover, SameBlocks
<1>21. \A q \in Page : OutIsAway(q)'
  <2>1. \A u \in Thread : Carried(u)' = Carried(u)
    BY <1>1, <1>4, <1>5 DEF Carried, Hand
  <2>2. \A d : Away(d) => Away(d)'
    BY <1>1, <2>1 DEF Away
  <2> QED
    BY <1>8, <2>2, OutSame
<1> QED
  BY <1>12, <1>15, <1>16, <1>18, <1>19, <1>20, <1>21 DEF Handover, OwnersHeld

LEMMA AppendSpinHeld ==
    ASSUME FullInv, IInv', NEW t \in Thread, AppendSpin(t)
    PROVE  Handover'
<1> DEFINE p == pc[t].page
           c == [pc[t] EXCEPT !.at = "append", !.page = NoPage]
<1>1. /\ pc[t].at = "spin" /\ page[p].flag # "freeing"
      /\ page' = [page EXCEPT ![p] = UsingDelayed(@)]
      /\ pc' = [pc EXCEPT ![t] = c]
      /\ UNCHANGED <<delayed, heapThread, threadId, abandoned, live>>
  BY DEF AppendSpin
<1>2. /\ pc[t] \in Control /\ Placed(pc[t]) /\ AtWork(t) /\ p \in Page
      /\ NoHeap \notin Heap /\ Backing[t] \in Heap
  BY <1>1, InControl, ThreadFreeAssumption DEF FullInv, Handover, Placed
<1>3. /\ c \in Control /\ Placed(c) /\ c.at = "append" /\ c.op = pc[t].op
      /\ c.heap = pc[t].heap /\ c.seg = pc[t].seg /\ c.block = pc[t].block
      /\ c.taken = pc[t].taken /\ c.again = pc[t].again
      /\ c.todo = pc[t].todo
  BY <1>1, <1>2 DEF Control, Placed, Label
<1> HIDE DEF c
<1>4. Leaves(t, c) /\ pc'[t] = c /\ \A u \in Thread : u # t => pc'[u] = pc[u]
  BY <1>1, <1>3 DEF Leaves, FullInv, IInv, TypeOK
<1>5. /\ heapThread[pc[t].heap] = t /\ page[p].xheap = Backing[t]
      /\ pc[t].block = NoBlock /\ pc[t].taken = {} /\ pc[t].seg = NoSegment
      /\ pc[t].op = "delete" /\ pc[t].todo = Pages(pc[t].heap)
  BY <1>1, <1>2 DEF AtWork, AtHome, Deleting, FreeingAt, SegmentAt, ReclaimAt
<1> HIDE DEF p
<1>6. /\ SameBlocks
      /\ page'[p].flag = IF page[p].flag = "never" THEN "never" ELSE "use"
      /\ \A q \in Page : page'[q].xheap = page[q].xheap
      /\ \A q \in Page : q # p => page'[q] = page[q]
  BY <1>1, <1>2, UsingSet
<1>7. AtWork(t)'
  <2>1. Pages(pc[t].heap)' = Pages(pc[t].heap)
    BY <1>3, <1>4, <1>6 DEF Pages
  <2>2. Deleting(t)'
    BY <1>1, <1>2, <1>3, <1>4, <1>5, <2>1 DEF AtWork, Deleting
  <2>3. AtHome(t)' /\ AtSegment(t)' /\ Ending(t)'
    BY <1>1, <1>3, <1>4, <1>5 DEF AtHome, AtSegment, Ending, FreeingAt, SegmentAt,
       ReclaimAt
  <2> QED
    BY <2>2, <2>3 DEF AtWork
<1>8. OwnersHeld'
  <2>1. \A q \in Page : SameFace(q)
    BY <1>6 DEF SameFace, SameBlocks
  <2>2. ASSUME NEW q \in Page, q = p PROVE PageHeld(q)'
    <3>1. PageHeld(q) /\ page[q].xheap # NoHeap /\ InUse(page'[q])
      BY <1>2, <1>5, <1>6, <2>2 DEF FullInv, Handover, PageHeld, SameBlocks
    <3> QED
      BY <1>1, <1>6, <3>1 DEF PageHeld, Owner
  <2> QED
    BY <1>1, <1>3, <1>4, <1>6, <1>7, <2>1, <2>2, FacesKept
<1>9. (\A d : OnItsWay(d)' <=> OnItsWay(d)) /\ \A q : Delayed(q)' <=> Delayed(q)
  BY <1>1, <1>3, <1>4, SameLists
<1>10. (\A u \in Thread : FreerHeld(u)') /\ (\A q \in Page : Claimed(q)')
  <2>1. page[pc[t].page].flag # "freeing"
    BY <1>1 DEF p
  <2> QED
    BY <1>1, <1>3, <1>4, <1>6, <1>9, <2>1, ClaimsKept DEF FreeingAt
<1>11. (\A g \in Heap : ListHeld(g)') /\ (\A u \in Thread : TakenHeld(u)')
  BY <1>1, <1>3, <1>4, <1>5, <1>6, ListsKept DEF IInv, Absorbs, Owner
<1>12. ASSUME NEW q \in Page PROVE Returns(q)'
  <2>1. Collecting(q)' <=> Collecting(q)
    BY <1>1, <1>3, <1>4 DEF Collecting
  <2>2. /\ page'[q].flag # "no" \/ page'[q].flag = page[q].flag
        /\ page'[q].flag = "never" <=> page[q].flag = "never"
        /\ page[q].flag = "freeing" => page'[q].flag = "freeing"
    BY <1>1, <1>6
  <2> QED
    BY <1>6, <1>9, <2>1, <2>2 DEF Returns, FullInv, Handover, SameBlocks
<1>13. \A q \in Page : OutIsAway(q)'
  <2>1. \A u \in Thread : Carried(u)' = Carried(u)
    BY <1>1, <1>3, <1>4 DEF Carried, Hand
  <2>2. \A d : Away(d) => Away(d)'
    BY <1>1, <2>1 DEF Away
  <2> QED
    BY <1>6, <2>2, OutSame
<1> QED
  BY <1>8, <1>10, <1>11, <1>12, <1>13 DEF Handover, OwnersHeld

-----------------------------------------------------------------------------
(* find_free_page: a page not in use gets a heap.                          *)

\* The first block of the page goes to the program.
LEMMA FreshPage ==
    ASSUME FullInv, NEW p \in Page, ~InUse(page[p]), NEW h \in Heap,
           NEW add \in SUBSET BlocksOf(p),
           NEW b \in Extended([Unused EXCEPT !.xheap = h], add).free,
           NEW pg, pg = Popped(Extended([Unused EXCEPT !.xheap = h], add), b)
    PROVE  /\ pg.xheap = h /\ pg.flag = "use" /\ pg.thread_free = {}
           /\ InUse(pg) /\ Out(pg) = {b} /\ PageOf[b] = p
           /\ page[p].xheap = NoHeap /\ page[p].flag = "use" /\ Out(page[p]) = {}
<1> DEFINE new == [Unused EXCEPT !.xheap = h]
           ext == Extended(new, add)
<1>1. Good(p, new) /\ Out(new) = {} /\ new.capacity = {}
  BY UnusedGood, XheapGood DEF Unused
<1>2. new.xheap = h /\ new.flag = "use" /\ new.thread_free = {}
  BY DEF Unused
<1> HIDE DEF new
<1>3. Good(p, ext) /\ Out(ext) = {}
  BY <1>1, ExtendedGood
<1>4. ext.xheap = h /\ ext.flag = "use" /\ ext.thread_free = {}
  BY <1>1, <1>2, ExtendedFields DEF Good
<1> HIDE DEF ext
<1>5. Good(p, pg) /\ Out(pg) = {b} /\ b \in BlocksOf(p)
  BY <1>3, PoppedGood DEF ext, new
<1>6. pg.xheap = h /\ pg.flag = "use" /\ pg.thread_free = {}
  BY <1>3, <1>4, PoppedFields DEF Good, ext, new
<1>7. InUse(pg)
  BY <1>5 DEF InUse, Out
<1>8. page[p].xheap = NoHeap /\ page[p].flag = "use" /\ Out(page[p]) = {}
  BY DEF FullInv, Handover, PageHeld, InUse, Out
<1> QED
  BY <1>5, <1>6, <1>7, <1>8 DEF BlocksOf

LEMMA FindFreshHeld ==
    ASSUME FullInv, IInv', NEW t \in Thread, NEW p \in Page, FindFresh(t, p)
    PROVE  Handover'
<1> DEFINE h == pc[t].heap
           s == SegmentOf[p]
<1>1. PICK add \in SUBSET BlocksOf(p) :
          PopFrom(t, p, Extended([Unused EXCEPT !.xheap = h], add))
  BY DEF FindFresh
<1>2. PICK b \in Extended([Unused EXCEPT !.xheap = h], add).free :
          /\ page' = [page EXCEPT ![p] =
                         Popped(Extended([Unused EXCEPT !.xheap = h], add), b)]
          /\ live' = live \cup {b} /\ pc' = [pc EXCEPT ![t] = Idle]
  BY <1>1 DEF PopFrom
<1>3. /\ ~InUse(page[p]) /\ threadId' = [threadId EXCEPT ![s] = t]
      /\ threadId[s] = t \/ Free(s)
      /\ Searching(t) /\ UNCHANGED <<delayed, heapThread, abandoned>>
  BY DEF FindFresh
<1>4. /\ pc[t].at = "find" /\ h \in Heap /\ heapThread[h] = t
      /\ pc[t].taken = {} /\ pc[t].block = NoBlock /\ pc[t].seg = NoSegment
      /\ pc[t].op \notin {"done", "delete", "absorb"}
  BY <1>3, AtFind
<1> HIDE DEF h
<1> DEFINE pg == Popped(Extended([Unused EXCEPT !.xheap = h], add), b)
<1>5. page' = [page EXCEPT ![p] = pg]
  BY <1>2
<1>6. /\ pg.xheap = h /\ pg.flag = "use" /\ pg.thread_free = {}
      /\ InUse(pg) /\ Out(pg) = {b} /\ PageOf[b] = p
      /\ page[p].xheap = NoHeap /\ page[p].flag = "use" /\ Out(page[p]) = {}
  BY <1>3, <1>4, FreshPage
<1> HIDE DEF pg
<1>7. /\ Leaves(t, Idle) /\ pc'[t] = Idle
      /\ \A u \in Thread : u # t => pc'[u] = pc[u]
      /\ page'[p] = pg /\ \A q \in Page : q # p => page'[q] = page[q]
  BY <1>2, <1>5, IdleControl DEF Leaves, FullInv, IInv, TypeOK
<1>8. /\ Idle.seg = NoSegment /\ Idle.taken = {} /\ Idle.at = "idle"
      /\ s \in Segment /\ t # NoThread /\ NoHeap \notin Heap
  BY ThreadFreeAssumption DEF Idle
<1>9. /\ threadId'[s] = t
      /\ \A r \in Segment : r # s => threadId'[r] = threadId[r]
  BY <1>3, <1>8 DEF FullInv, IInv, TypeOK
<1>10. s \notin abandoned
  BY <1>3, <1>8 DEF Free, FullInv, Handover, SegmentsHeld
<1>11. Owner(p) = NoThread /\ heapThread[h] = t
  BY <1>4, <1>6 DEF Owner
<1>12. OwnersHeld'
  <2>1. HeapsHeld'
    BY <1>3 DEF FullInv, Handover, HeapsHeld
  <2>2. SegmentsHeld'
    <3>1. \A r \in abandoned' : threadId'[r] = NoThread
      BY <1>3, <1>9, <1>10 DEF FullInv, Handover, SegmentsHeld, IInv, TypeOK
    <3>2. \A v, u \in Thread :
              v # u /\ pc'[v].seg # NoSegment => pc'[v].seg # pc'[u].seg
      BY <1>7, <1>8 DEF FullInv, Handover, SegmentsHeld
    <3> QED
      BY <3>1, <3>2 DEF SegmentsHeld
  <2>3. ASSUME NEW q \in Page PROVE PageHeld(q)'
    <3>1. CASE q = p
      BY <1>3, <1>4, <1>6, <1>7, <1>8, <1>9, <3>1 DEF PageHeld, Owner
    <3>2. CASE q # p
      <4>1. PageHeld(q) /\ page'[q] = page[q] /\ SegmentOf[q] \in Segment
        BY <1>7, <3>2, ThreadFreeAssumption DEF FullInv, Handover
      <4>2. page[q].xheap # NoHeap => threadId'[SegmentOf[q]] = threadId[SegmentOf[q]]
        BY <1>3, <1>8, <1>9, <4>1 DEF Free, UsedPages, PageHeld
      <4> QED
        BY <1>3, <4>1, <4>2 DEF PageHeld, Owner
    <3> QED
      BY <3>1, <3>2
  <2>4. \A u \in Thread \ {t} : AtWork(u)'
    <3>1. Spared(t, p)
      BY <1>3, <1>8, <1>11, ThreadFreeAssumption
         DEF Spared, FullInv, Handover, AtWork, AtSegment
    <3>2. \A q \in Page : SameFace(q) \/ OwnChange(t, q)
      BY <1>6, <1>7, <1>11, <3>1 DEF SameFace, OwnChange
    <3>3. OwnHeaps(t) /\ ClosedStay(t)
      BY <1>3 DEF OwnHeaps, ClosedStay
    <3>4. OwnSegments(t)
      BY <1>3, <1>8, <1>9 DEF OwnSegments, Free, FullInv, IInv, TypeOK, Control
    <3> QED
      BY <1>7, <3>2, <3>3, <3>4, OthersAtWork
  <2> QED
    BY <1>7, <2>1, <2>2, <2>3, <2>4, IdleAtWork DEF OwnersHeld
<1>13. (\A d : OnItsWay(d)' <=> OnItsWay(d)) /\ \A q : Delayed(q)' <=> Delayed(q)
  BY <1>3, <1>4, <1>7, <1>8, SameLists
<1>14. (\A u \in Thread : FreerHeld(u)') /\ (\A q \in Page : Claimed(q)')
  <2>1. \A q \in Page : /\ page'[q].flag = page[q].flag
                        /\ page[q].flag = "freeing" => page'[q].xheap = page[q].xheap
    BY <1>6, <1>7
  <2> QED
    BY <1>4, <1>7, <1>8, <1>13, <2>1, ClaimsKept DEF FreeingAt
<1>15. (\A g \in Heap : ListHeld(g)') /\ (\A u \in Thread : TakenHeld(u)')
  <2>1. Bare(p)'
    <3>1. \A d \in Block : PageOf[d] = p => ~OnItsWay(d)
      BY <1>11, OnItsWayHeld
    <3>2. \A u \in Thread : pc[u].at = "collect" => PageOf[pc[u].block] # p
      BY <1>11, ThreadFreeAssumption DEF FullInv, Handover, TakenHeld
    <3>3. \A u \in Thread : pc'[u].at = "collect" => PageOf[pc'[u].block] # p
      BY <1>7, <1>8, <3>2
    <3> QED
      BY <1>13, <3>1, <3>3 DEF Bare
  <2>2. \A q \in Page : q # p => Owner(q)' = Owner(q)
    BY <1>3, <1>7 DEF Owner
  <2> QED
    BY <1>3, <1>4, <1>7, <1>8, <2>1, <2>2, ListsKept DEF IInv, Absorbs
<1>16. ASSUME NEW q \in Page PROVE Returns(q)'
  <2>1. Collecting(q)' <=> Collecting(q)
    BY <1>4, <1>7, <1>8 DEF Collecting
  <2> QED
    BY <1>6, <1>7, <1>13, <2>1 DEF Returns, FullInv, Handover
<1>17. \A q \in Page : OutIsAway(q)'
  <2>1. \A u \in Thread : Carried(u)' = Carried(u)
    BY <1>4, <1>7, <1>8 DEF Carried, Hand
  <2>2. \A d : Away(d) => Away(d)'
    BY <1>2, <1>3, <2>1 DEF Away
  <2> QED
    BY <1>2, <1>6, <1>7, <2>2, OutKept
<1> QED
  BY <1>12, <1>14, <1>15, <1>16, <1>17 DEF Handover, OwnersHeld

-----------------------------------------------------------------------------
(* The inductive invariant.                                                *)

LEMMA InitFull == Init => FullInv
<1> SUFFICES ASSUME Init PROVE Handover
  BY InitIInv DEF FullInv
<1>1. /\ page = [p \in Page |-> Unused] /\ delayed = [h \in Heap |-> {}]
      /\ heapThread = [h \in Heap |-> NoThread] /\ abandoned = {}
      /\ pc = [t \in Thread |-> Idle]
  BY DEF Init
<1>2. /\ Idle.at = "idle" /\ Idle.op = "none" /\ Idle.block = NoBlock
      /\ Idle.seg = NoSegment /\ Idle.taken = {}
  BY DEF Idle
<1>3. HeapsHeld /\ SegmentsHeld
  BY <1>1, <1>2, ThreadFreeAssumption DEF HeapsHeld, SegmentsHeld
<1>4. \A p \in Page : PageHeld(p) /\ Claimed(p) /\ Returns(p) /\ OutIsAway(p)
  BY <1>1, UnusedFields DEF PageHeld, Claimed, Returns, OutIsAway
<1>5. \A t \in Thread : AtWork(t) /\ FreerHeld(t) /\ TakenHeld(t)
  BY <1>1, <1>2 DEF AtWork, AtHome, AtSegment, Ending, Deleting, FreerHeld,
     TakenHeld, FreeingAt, SegmentAt, ReclaimAt
<1>6. \A h \in Heap : ListHeld(h)
  BY <1>1 DEF ListHeld
<1> QED
  BY <1>3, <1>4, <1>5, <1>6 DEF Handover

LEMMA CallHeld ==
    ASSUME FullInv, IInv', NEW t \in Thread, Call(t)
    PROVE  Handover'
<1>1. CASE ThreadInit(t) \/ ThreadDone(t)
  BY <1>1, ThreadInitHeld, ThreadDoneHeld
<1>2. ASSUME NEW p \in Page, NEW b \in Block, Malloc(t, p, b) PROVE Handover'
  BY <1>2, MallocHeld
<1>3. ASSUME NEW b \in Block, FreeOwned(t, b) \/ FreeMt(t, b) PROVE Handover'
  BY <1>3, FreeOwnedHeld, FreeMtHeld
<1>4. ASSUME NEW h \in Heap, MallocGeneric(t, h) \/ HeapNew(t, h) \/ HeapDelete(t, h)
      PROVE  Handover'
  BY <1>4, MallocGenericHeld, HeapNewHeld, HeapDeleteHeld
<1>5. ASSUME NEW h \in Heap, NEW call \in Calls[t], HeapCollect(t, h, call)
      PROVE  Handover'
  BY <1>5, HeapCollectHeld
<1> QED
  BY <1>1, <1>2, <1>3, <1>4, <1>5 DEF Call

LEMMA StepHeld ==
    ASSUME FullInv, IInv', NEW t \in Thread, Step(t)
    PROVE  Handover'
<1>1. CASE LoadHeap(t) \/ PushDelayed(t) \/ ResetFlag(t)
  BY <1>1, LoadHeapHeld, PushDelayedHeld, ResetFlagHeld
<1>2. ASSUME NEW b \in Block, Reinsert(t, b) \/ TryUse(t, b) PROVE Handover'
  BY <1>2, ReinsertHeld, TryUseHeld
<1>3. CASE FreeDelayed(t) \/ DelayedDone(t)
  BY <1>3, FreeDelayedHeld, DelayedDoneHeld
<1>4. ASSUME NEW p \in Page, FindPage(t, p) \/ FindExtend(t, p) \/ FindFresh(t, p)
      PROVE  Handover'
  BY <1>4, FindPageHeld, FindExtendHeld, FindFreshHeld
<1>5. ASSUME NEW p \in Page, NeverDelayed(t, p) \/ PageCollect(t, p)
                            \/ CheckFree(t, p) \/ SetHeap(t, p)
                            \/ AppendPage(t, p)
      PROVE  Handover'
  BY <1>5, NeverDelayedHeld, PageCollectHeld, CheckFreeHeld, SetHeapHeld,
     AppendPageHeld
<1>6. CASE ToFull(t) \/ FindFails(t) \/ NeverDone(t) \/ PagesDone(t)
  BY <1>6, ToFullHeld, FindFailsHeld, NeverDoneHeld, PagesDoneHeld
<1>7. CASE CollectDone(t) \/ Claim(t) \/ PushVisited(t) \/ AllowDelayed(t)
  BY <1>7, CollectDoneHeld, ClaimHeld, PushVisitedHeld, AllowDelayedHeld
<1>8. CASE GatherPage(t) \/ ReclaimDone(t) \/ AppendSpin(t) \/ AppendDone(t)
  BY <1>8, GatherPageHeld, ReclaimDoneHeld, AppendSpinHeld, AppendDoneHeld
<1>9. ASSUME NEW s \in Segment, PopAbandoned(t, s) PROVE Handover'
  BY <1>9, PopAbandonedHeld
<1>10. CASE AllReclaimed(t)
  BY <1>10, AllReclaimedHeld
<1> QED
  BY <1>1, <1>2, <1>3, <1>4, <1>5, <1>6, <1>7, <1>8, <1>9, <1>10 DEF Step

LEMMA NextHeld == FullInv /\ [Next]_vars => FullInv'
<1> SUFFICES ASSUME FullInv, [Next]_vars PROVE FullInv'
  OBVIOUS
<1>1. IInv'
  BY NextStep DEF FullInv
<1>2. CASE UNCHANGED vars
  <2> USE <1>2 DEF vars
  <2>1. HeapsHeld' /\ SegmentsHeld'
    BY DEF FullInv, Handover, HeapsHeld, SegmentsHeld
  <2>2. \A p \in Page : PageHeld(p)' /\ Claimed(p)'
    BY DEF FullInv, Handover, PageHeld, Owner, Claimed, Frees
  <2>3. \A p \in Page : Returns(p)' /\ OutIsAway(p)'
    BY DEF FullInv, Handover, Returns, OutIsAway, Delayed, Collecting, Carried, Hand
  <2>4. \A t \in Thread : AtWork(t)'
    BY DEF FullInv, Handover, AtWork, AtHome, AtSegment, Ending, Deleting, Pages
  <2>5. \A t \in Thread : FreerHeld(t)'
    BY DEF FullInv, Handover, FreerHeld, OnItsWay, Frees
  <2>6. \A t \in Thread : TakenHeld(t)'
    BY DEF FullInv, Handover, TakenHeld, Owner, Absorbs
  <2>7. \A h \in Heap : ListHeld(h)'
    BY DEF FullInv, Handover, ListHeld, Owner, Absorbs
  <2> QED
    BY <1>1, <2>1, <2>2, <2>3, <2>4, <2>5, <2>6, <2>7 DEF FullInv, Handover
<1>3. ASSUME NEW t \in Thread, Call(t) \/ Step(t) PROVE FullInv'
  BY <1>1, <1>3, CallHeld, StepHeld DEF FullInv
<1> QED
  BY <1>2, <1>3 DEF Next

-----------------------------------------------------------------------------
(* The theorems.                                                           *)

\* Whatever threads, heaps, segments, pages and blocks there are, the protocol of
\* delayed frees keeps its invariant: every claim on a page (DELAYED_FREEING), every
\* block on its way and every heap or segment that changes hands is as HeapLifeInv
\* says, after every step of every thread.
THEOREM FullInvariance == Spec => []FullInv
<1>1. FullInv /\ [Next]_vars => FullInv'
  BY NextHeld
<1> QED
  BY <1>1, InitFull, PTL DEF Spec

\* types.h:287: a page is NO_DELAYED_FREE only while one of its blocks is on its way
\* to the owner, which therefore will look at the page.
THEOREM NoDelayedSound == Spec => []NoDelayedOnlyWithDelayed
<1>1. FullInv => NoDelayedOnlyWithDelayed
  BY DEF FullInv, Handover, Returns, NoDelayedOnlyWithDelayed
<1> QED
  BY <1>1, FullInvariance, PTL

\* No block is lost, also when its heap is deleted or its thread ends: it is with its
\* page, with the program or on its way back, and blocks in a page's thread_free list
\* are always about to be collected (alloc.c:604-608).
THEOREM NothingIsLost == Spec => []NothingLost
<1>1. FullInv => NothingLost
  BY DEF FullInv, Handover, Returns, OutIsAway, NothingLost
<1> QED
  BY <1>1, FullInvariance, PTL

\* The heap a thread is about to push to exists, and so does the heap of every list
\* that holds blocks: the racy read of xheap is safe (alloc.c:449).
LEMMA HeapsOutlive == FullInv => HeapsOutliveFrees
<1> SUFFICES ASSUME FullInv PROVE HeapsOutliveFrees
  OBVIOUS
<1>1. \A t \in Thread : pc[t].at = "push" => heapThread[pc[t].heap] # NoThread
  BY PushesHome
<1>2. \A h \in Heap : delayed[h] # {} => heapThread[h] # NoThread
  BY DEF FullInv, Handover, ListHeld
<1> QED
  BY <1>1, <1>2 DEF HeapsOutliveFrees

\* The assertions the code makes of state other threads change are true: in
\* free_block_mt, free_delayed_block, segment_reclaim and heap_page_collect.
THEOREM AssertionsTrue == Spec => []AssertionsHold
<1>1. ASSUME FullInv, NEW t \in Thread
      PROVE  LET p == IF pc[t].block # NoBlock THEN PageOf[pc[t].block] ELSE pc[t].page
             IN  /\ pc[t].at = "load" => page[p].xheap # NoHeap
                 /\ pc[t].at = "reset" => page[p].flag = "freeing"
                 /\ \A b \in pc[t].taken : threadId[SegmentOf[PageOf[b]]] = t
                 /\ pc[t].at = "collect" => threadId[SegmentOf[p]] = t
                 /\ pc[t].at = "gather" => page[p].flag # "never"
                 /\ pc[t].at = "reclaim" => \A q \in pc[t].todo :
                        page[q].flag = "never" /\ page[q].xheap = NoHeap
                 /\ pc[t].at = "pages" /\ pc[t].op = "done" => \A q \in pc[t].todo :
                        page[q].flag = "never" \/ ~InUse(page[q])
  <2> DEFINE p == IF pc[t].block # NoBlock THEN PageOf[pc[t].block] ELSE pc[t].page
  <2>1. /\ pc[t] \in Control /\ Placed(pc[t]) /\ AtWork(t) /\ TakenHeld(t)
        /\ NoBlock \notin Block /\ t # NoThread
    BY <1>1, InControl, ThreadFreeAssumption DEF FullInv, Handover
  <2>2. ASSUME NEW q \in Page, Owner(q) = t PROVE threadId[SegmentOf[q]] = t
    BY <1>1, <2>1, <2>2 DEF FullInv, Handover, PageHeld, Owner
  <2>3. pc[t].at \in FreeingAt =>
            p \in Page /\ page[p].flag = "freeing" /\ page[p].xheap # NoHeap
    <3>1. pc[t].at \in FreeingAt =>
              /\ pc[t].block \in Block /\ PageOf[pc[t].block] \in Page
              /\ page[PageOf[pc[t].block]].flag = "freeing"
      BY <1>1, FreerOut
    <3> QED
      BY <1>1, <2>1, <3>1, FreeingHasHeap
  <2>4. \A b \in pc[t].taken : threadId[SegmentOf[PageOf[b]]] = t
    BY <2>1, <2>2, ThreadFreeAssumption DEF TakenHeld, Control
  <2>5. pc[t].at = "collect" => threadId[SegmentOf[p]] = t
    BY <2>1, <2>2, ThreadFreeAssumption DEF TakenHeld, Placed
  <2>6. pc[t].at = "gather" => page[p].flag # "never"
    BY <2>1 DEF AtWork, AtHome, AtSegment, FreeingAt
  <2>7. pc[t].at = "reclaim" => \A q \in pc[t].todo :
            page[q].flag = "never" /\ page[q].xheap = NoHeap
    BY <1>1, <2>1 DEF AtWork, AtSegment, ReclaimAt, Control, FullInv, Handover, PageHeld
  <2>8. pc[t].at = "pages" /\ pc[t].op = "done" => \A q \in pc[t].todo :
            page[q].flag = "never"
    BY <2>1 DEF AtWork, AtHome, Ending, Pages
  <2> HIDE DEF p
  <2>9. /\ pc[t].at = "load" => page[p].xheap # NoHeap
        /\ pc[t].at = "reset" => page[p].flag = "freeing"
    BY <2>3 DEF FreeingAt
  <2> QED
    BY <2>4, <2>5, <2>6, <2>7, <2>8, <2>9 DEF p
<1>2. FullInv => AssertionsHold
  BY <1>1, HeapsOutlive DEF AssertionsHold
<1> QED
  BY <1>2, FullInvariance, PTL

\* Only the owner of a segment has heaps with pages of it (page.c:126), and a page
\* without a heap is marked never, with no block of it on any delayed list
\* (page.c:394-399).
THEOREM OwnersAlwaysAgree == Spec => []OwnersAgree
<1>1. ASSUME FullInv, NEW p \in Page
      PROVE  IF page[p].xheap # NoHeap
             THEN /\ heapThread[page[p].xheap] # NoThread
                  /\ heapThread[page[p].xheap] = threadId[SegmentOf[p]]
             ELSE InUse(page[p]) => page[p].flag = "never" /\ ~Delayed(p)
  <2>1. PageHeld(p)
    BY <1>1 DEF FullInv, Handover
  <2>2. page[p].xheap = NoHeap => ~Delayed(p)
    BY <1>1, OnItsWayHeld, DelayedIsOnItsWay DEF Owner
  <2> QED
    BY <2>1, <2>2 DEF PageHeld, Owner
<1>2. FullInv => OwnersAgree
  BY <1>1 DEF OwnersAgree
<1> QED
  BY <1>2, FullInvariance, PTL

-----------------------------------------------------------------------------
(* The delayed flag is kept.                                               *)

\* Page q keeps its flag and its heap.
SameLabels(q) == page'[q].flag = page[q].flag /\ page'[q].xheap = page[q].xheap

\* What FlagKept says of one page.
Sticky(q) ==
    /\ page[q].flag = "never" /\ page'[q].flag # "never" =>
           ~InUse(page'[q]) \/ \E t \in Thread : pc[t].at = "allow" /\ pc[t].page = q
    /\ page[q].xheap # NoHeap /\ page'[q].xheap = NoHeap => page[q].flag # "freeing"

LEMMA SameLabelsStick == \A q : SameLabels(q) => Sticky(q)
  BY DEF SameLabels, Sticky

\* A page is cleared only when all its blocks are back, so nobody is freeing into it.
LEMMA ReturnedSticks ==
    ASSUME FullInv, NEW t \in Thread, NEW p \in Page, NEW pg, NEW b,
           page' = [page EXCEPT ![p] = pg], Returned(p, pg, b),
           b \in live \/ b = NoBlock \/ (pc[t].at = "collect" /\ b = pc[t].block)
    PROVE  \A q \in Page : Sticky(q)
<1>1. page'[p] = pg /\ \A q \in Page : q # p => page'[q] = page[q]
  BY DEF FullInv, IInv, TypeOK
<1>2. CASE pg.xheap = page[p].xheap /\ pg.flag = page[p].flag
  BY <1>1, <1>2 DEF Sticky
<1>3. CASE pg = Unused /\ Out(page[p]) \subseteq {b}
  <2>1. page[p].flag # "freeing"
    <3> SUFFICES ASSUME page[p].flag = "freeing" PROVE FALSE
      OBVIOUS
    <3>1. b = NoBlock
      BY <1>3, FreeingIsOut
    <3>2. PICK u \in Thread : pc[u].at \in FreeingAt /\ PageOf[pc[u].block] = p
      BY DEF FullInv, Handover, Claimed, Frees
    <3>3. pc[u].block \in Block /\ pc[u].block \in Out(page[p])
      BY <3>2, FreerOut
    <3> QED
      BY <1>3, <3>1, <3>3, ThreadFreeAssumption
  <2> QED
    BY <1>1, <1>3, <2>1, UnusedFields DEF Sticky
<1> QED
  BY <1>2, <1>3 DEF Returned

\* A search changes the lists of a page only.
LEMMA PopFromSticks ==
    ASSUME FullInv, NEW t \in Thread, NEW p \in Page, NEW pg \in PageRecord,
           pg.xheap = page[p].xheap, pg.flag = page[p].flag, PopFrom(t, p, pg)
    PROVE  \A q \in Page : Sticky(q)
<1>1. PICK b \in pg.free : page' = [page EXCEPT ![p] = Popped(pg, b)]
  BY DEF PopFrom
<1>2. page'[p] = Popped(pg, b) /\ \A q \in Page : q # p => page'[q] = page[q]
  BY <1>1 DEF FullInv, IInv, TypeOK
<1>3. SameLabels(p)
  BY <1>2, PoppedFields DEF SameLabels
<1> QED
  BY <1>2, <1>3, SameLabelsStick DEF SameLabels

LEMMA SearchSticks ==
    ASSUME FullInv, NEW t \in Thread, NEW p \in Page,
           FindPage(t, p) \/ FindExtend(t, p) \/ FindFresh(t, p)
    PROVE  \A q \in Page : Sticky(q)
<1> DEFINE col == Collected(page[p], FALSE)
<1>1. Good(p, page[p]) /\ IsCollected(p, col)
  BY PagesGood, CollectedIs DEF FullInv
<1>2. col \in PageRecord /\ col.xheap = page[p].xheap /\ col.flag = page[p].flag
  BY <1>1 DEF IsCollected, Good
<1>3. CASE FindPage(t, p)
  <2>1. CASE PopFrom(t, p, col)
    BY <1>2, <2>1, PopFromSticks
  <2>2. ASSUME NEW add \in SUBSET (BlocksOf(p) \ col.capacity),
               PopFrom(t, p, Extended(col, add))
        PROVE  \A q \in Page : Sticky(q)
    <3>1. Good(p, col)
      BY <1>1 DEF IsCollected
    <3> HIDE DEF col
    <3>2. Good(p, Extended(col, add))
      BY <3>1, ExtendedGood
    <3> QED
      BY <1>2, <2>2, <3>2, ExtendedFields, PopFromSticks DEF Good
  <2>3. CASE page' = [page EXCEPT ![p] = col]
    <3>1. page'[p] = col /\ \A q \in Page : q # p => page'[q] = page[q]
      BY <2>3 DEF FullInv, IInv, TypeOK
    <3> HIDE DEF col
    <3> QED
      BY <1>2, <3>1, SameLabelsStick DEF SameLabels
  <2> QED
    BY <1>3, <2>1, <2>2, <2>3 DEF FindPage
<1>4. CASE FindExtend(t, p)
  <2>1. PICK add \in SUBSET (BlocksOf(p) \ page[p].capacity) :
            PopFrom(t, p, Extended(page[p], add))
    BY <1>4 DEF FindExtend
  <2>2. Good(p, Extended(page[p], add))
    BY <1>1, ExtendedGood
  <2> QED
    BY <1>1, <2>1, <2>2, ExtendedFields, PopFromSticks DEF Good
<1>5. CASE FindFresh(t, p)
  <2>1. page[p].xheap = NoHeap /\ page[p].flag = "use"
    BY <1>5 DEF FindFresh, FullInv, Handover, PageHeld
  <2>2. \A q \in Page : q # p => page'[q] = page[q]
    BY <1>5 DEF FindFresh, PopFrom, FullInv, IInv, TypeOK
  <2> QED
    BY <2>1, <2>2 DEF Sticky
<1> QED
  BY <1>3, <1>4, <1>5

LEMMA MallocSticks ==
    ASSUME FullInv, NEW t \in Thread, NEW p \in Page, NEW b \in Block, Malloc(t, p, b)
    PROVE  \A q \in Page : Sticky(q)
<1>1. page' = [page EXCEPT ![p] = Popped(page[p], b)] /\ page[p] \in PageRecord
  BY DEF Malloc, FullInv, IInv, TypeOK
<1>2. SameLabels(p)
  BY <1>1, PoppedFields DEF SameLabels, FullInv, IInv, TypeOK
<1>3. \A q \in Page : q # p => page'[q] = page[q]
  BY <1>1 DEF FullInv, IInv, TypeOK
<1> QED
  BY <1>2, <1>3, SameLabelsStick DEF SameLabels

LEMMA FreeSticks ==
    ASSUME FullInv, NEW t \in Thread, NEW b \in Block, FreeOwned(t, b) \/ FreeMt(t, b)
    PROVE  \A q \in Page : Sticky(q)
<1> DEFINE p == PageOf[b]
<1>1. b \in live
  BY DEF FreeOwned, FreeMt
<1>2. p \in Page /\ b \in Out(page[p]) /\ Good(p, page[p]) /\ page[p] \in PageRecord
  BY <1>1, LiveOnly, PagesGood DEF FullInv, IInv, TypeOK
<1>3. CASE FreeOwned(t, b)
  <2> DEFINE pg == Rested(p, FreedLocally(page[p], b))
  <2>1. page' = [page EXCEPT ![p] = pg]
    BY <1>3 DEF FreeOwned, Settle
  <2> HIDE DEF p
  <2>2. Returned(p, pg, b)
    BY <1>2, RestedKept
  <2> HIDE DEF pg
  <2> QED
    BY <1>1, <1>2, <2>1, <2>2, ReturnedSticks
<1>4. CASE FreeMt(t, b)
  <2>1. \/ /\ page[p].flag = "use" /\ page' = [page EXCEPT ![p].flag = "freeing"]
        \/ page' = [page EXCEPT ![p].thread_free = @ \cup {b}]
    BY <1>4 DEF FreeMt
  <2>2. /\ page'[p].xheap = page[p].xheap
        /\ page[p].flag = "never" => page'[p].flag = "never"
        /\ \A q \in Page : q # p => page'[q] = page[q]
    BY <1>2, <2>1 DEF FullInv, IInv, TypeOK, PageRecord
  <2> QED
    BY <2>2 DEF Sticky
<1> QED
  BY <1>3, <1>4

\* A page loses its flag and its heap when it is freed.
LEMMA FreeDelayedSticks ==
    ASSUME FullInv, NEW t \in Thread, FreeDelayed(t)
    PROVE  \A q \in Page : Sticky(q)
<1> DEFINE b   == pc[t].block
           p   == PageOf[b]
           col == Collected(page[p], FALSE)
           pg  == Rested(p, FreedLocally(col, b))
<1>1. pc[t].at = "collect" /\ page' = [page EXCEPT ![p] = pg]
  BY DEF FreeDelayed, Settle
<1>2. p \in Page /\ b \in Block /\ b \in Out(page[p])
  <2>1. b \in Carried(t)
    BY <1>1 DEF Carried, Hand
  <2> QED
    BY <2>1, CarriedOnly DEF FullInv
<1>3. /\ Good(p, col) /\ Out(col) = Out(page[p]) /\ b \in Out(col)
      /\ col.xheap = page[p].xheap /\ col.flag = page[p].flag
      /\ col.capacity = page[p].capacity
      /\ col.thread_free \subseteq page[p].thread_free
  <2>1. IsCollected(p, col)
    BY <1>2, CollectedIs
  <2> HIDE DEF col
  <2> QED
    BY <1>2, <2>1 DEF IsCollected
<1> HIDE DEF b, p, col
<1>4. Returned(p, pg, b)
  BY <1>2, <1>3, RestedKept
<1> HIDE DEF pg
<1> QED
  BY <1>1, <1>2, <1>4, ReturnedSticks DEF b

LEMMA CollectSticks ==
    ASSUME FullInv, NEW t \in Thread, NEW p \in Page, NEW force \in BOOLEAN, NEW full,
           NEW pg, pg = OrCleared(Collected(page[p], force), full),
           page' = [page EXCEPT ![p] = pg]
    PROVE  \A q \in Page : Sticky(q)
<1> DEFINE col == Collected(page[p], force)
<1>1. IsCollected(p, col) /\ pg = OrCleared(col, full)
  BY CollectedIs
<1> HIDE DEF col
<1>2. Returned(p, pg, NoBlock)
  BY <1>1, CollectedOrCleared
<1> QED
  BY <1>2, ReturnedSticks

LEMMA PageCollectSticks ==
    ASSUME FullInv, NEW t \in Thread, NEW p \in Page, PageCollect(t, p)
    PROVE  \A q \in Page : Sticky(q)
<1> DEFINE force == pc[t].op # "collect"
           col   == Collected(page[p], force)
           lost  == [col EXCEPT !.xheap = NoHeap, !.in_full = FALSE]
           pg    == IF col.used = 0 THEN Unused
                    ELSE IF pc[t].op = "done" THEN lost ELSE col
<1>1. /\ pc[t].at = "pages" /\ p \in pc[t].todo /\ page' = [page EXCEPT ![p] = pg]
  BY DEF PageCollect, Settle
<1>2. IsCollected(p, col) /\ col \in PageRecord
  BY CollectedIs DEF IsCollected, Good
<1>3. CASE pc[t].op = "done" /\ col.used # 0
  <2>1. page[p].flag = "never"
    BY <1>1, <1>3 DEF FullInv, Handover, AtWork, AtHome, Ending, Pages
  <2>2. pg.flag = "never" /\ \A q \in Page : q # p => page'[q] = page[q]
    <3>1. pg = lost
      BY <1>3
    <3> HIDE DEF col, pg
    <3> QED
      BY <1>1, <1>2, <2>1, <3>1 DEF IsCollected, PageRecord, FullInv, IInv, TypeOK
  <2>3. page'[p] = pg
    BY <1>1 DEF FullInv, IInv, TypeOK
  <2> QED
    BY <2>1, <2>2, <2>3 DEF Sticky
<1>4. CASE pc[t].op # "done" \/ col.used = 0
  <2> DEFINE full == col.in_full
  <2>1. pg = OrCleared(col, full)
    <3>1. pg = IF col.used = 0 THEN Unused ELSE col
      BY <1>4
    <3> HIDE DEF col, pg
    <3> QED
      BY <1>2, <3>1 DEF PageRecord, OrCleared
  <2> HIDE DEF pg, full, force
  <2> QED
    BY <1>1, <2>1, CollectSticks DEF force
<1> QED
  BY <1>3, <1>4

LEMMA LabelSticks ==
    ASSUME FullInv, NEW t \in Thread, ResetFlag(t) \/ AllowDelayed(t) \/ AppendSpin(t)
    PROVE  \A q \in Page : Sticky(q)
<1>1. CASE ResetFlag(t)
  <2> DEFINE p == PageOf[pc[t].block]
             f == "no"
  <2>1. p \in Page /\ page[p].flag = "freeing"
    BY <1>1, FreerOut DEF ResetFlag, FreeingAt
  <2>2. page' = [page EXCEPT ![p].flag = f] /\ f \in Flag
    BY <1>1 DEF ResetFlag, Flag
  <2> HIDE DEF p, f
  <2> QED
    BY <2>1, <2>2, FlagSet DEF Sticky
<1>2. CASE AllowDelayed(t)
  <2> DEFINE p == pc[t].page
             f == "use"
  <2>1. p \in Page /\ pc[t].at = "allow"
    BY <1>2, InControl DEF AllowDelayed, FullInv, Placed
  <2>2. page' = [page EXCEPT ![p].flag = f] /\ f \in Flag
    BY <1>2 DEF AllowDelayed, Flag
  <2> HIDE DEF p, f
  <2> QED
    BY <2>1, <2>2, FlagSet DEF Sticky, p
<1>3. CASE AppendSpin(t)
  <2> DEFINE p == pc[t].page
  <2>1. p \in Page
    BY <1>3, InControl DEF AppendSpin, FullInv, Placed
  <2>2. page[p].flag # "freeing" /\ page' = [page EXCEPT ![p] = UsingDelayed(@)]
    BY <1>3 DEF AppendSpin
  <2> HIDE DEF p
  <2> QED
    BY <2>1, <2>2, UsingSet DEF Sticky
<1> QED
  BY <1>1, <1>2, <1>3

LEMMA OwnPageSticks ==
    ASSUME FullInv, NEW t \in Thread, NEW p \in Page,
           NeverDelayed(t, p) \/ CheckFree(t, p) \/ SetHeap(t, p) \/ AppendPage(t, p)
    PROVE  \A q \in Page : Sticky(q)
<1>1. CASE NeverDelayed(t, p)
  <2> DEFINE f == "never"
  <2>1. page' = [page EXCEPT ![p].flag = f] /\ f \in Flag
    BY <1>1 DEF NeverDelayed, Flag
  <2> HIDE DEF f
  <2>2. f = "never"
    BY DEF f
  <2> QED
    BY <2>1, <2>2, FlagSet DEF Sticky
<1>2. CASE CheckFree(t, p)
  <2> DEFINE force == FALSE
             col   == Collected(page[p], force)
             full  == col.in_full
             pg    == IF col.used = 0 THEN Unused ELSE col
  <2>1. page' = [page EXCEPT ![p] = pg]
    BY <1>2 DEF CheckFree
  <2>2. pg = OrCleared(col, full)
    <3>1. col \in PageRecord
      BY CollectedIs DEF IsCollected, Good
    <3> HIDE DEF col
    <3> QED
      BY <3>1 DEF PageRecord, OrCleared
  <2> HIDE DEF pg, full, force
  <2> QED
    BY <2>1, <2>2, CollectSticks DEF force
<1>3. CASE SetHeap(t, p) \/ AppendPage(t, p)
  <2>1. PICK h \in Heap : page' = [page EXCEPT ![p].xheap = h]
    BY <1>3, InControl, ThreadFreeAssumption DEF SetHeap, AppendPage, FullInv, Placed
  <2>2. h # NoHeap
    BY ThreadFreeAssumption
  <2> QED
    BY <2>1, <2>2, HeapSet DEF Sticky
<1> QED
  BY <1>1, <1>2, <1>3

LEMMA HeldPageSticks ==
    ASSUME FullInv, NEW t \in Thread, ToFull(t) \/ GatherPage(t)
    PROVE  \A q \in Page : Sticky(q)
<1> DEFINE p   == pc[t].page
           col == Collected(page[p], FALSE)
<1>1. p \in Page
  BY InControl DEF ToFull, GatherPage, FullInv, Placed
<1>2. IsCollected(p, col) /\ col \in PageRecord
  BY <1>1, CollectedIs DEF IsCollected, Good
<1>3. CASE ToFull(t)
  <2> DEFINE pg == [col EXCEPT !.in_full = TRUE]
  <2>1. page' = [page EXCEPT ![p] = pg]
    BY <1>3 DEF ToFull
  <2> HIDE DEF col, p
  <2>2. pg.xheap = page[p].xheap /\ pg.flag = page[p].flag
    BY <1>2 DEF IsCollected, PageRecord
  <2> HIDE DEF pg
  <2> QED
    BY <1>1, <2>1, <2>2 DEF Sticky, FullInv, IInv, TypeOK
<1>4. CASE GatherPage(t)
  <2> DEFINE force == FALSE
             full  == FALSE
             pg    == IF col.used = 0 THEN Unused ELSE [col EXCEPT !.in_full = FALSE]
  <2>1. page' = [page EXCEPT ![p] = pg]
    BY <1>4 DEF GatherPage
  <2>2. pg = OrCleared(Collected(page[p], force), full)
    BY DEF OrCleared
  <2> HIDE DEF pg, full, force, p
  <2>3. force \in BOOLEAN
    BY DEF force
  <2> QED
    BY <1>1, <2>1, <2>2, <2>3, CollectSticks
<1> QED
  BY <1>3, <1>4

LEMMA TryUseSticks ==
    ASSUME FullInv, NEW t \in Thread, NEW b \in Block, TryUse(t, b)
    PROVE  \A q \in Page : Sticky(q)
<1> DEFINE p == PageOf[b]
<1>1. p \in Page
  BY ThreadFreeAssumption
<1>2. page[p].flag # "freeing" /\ page' = [page EXCEPT ![p] = UsingDelayed(@)]
  BY DEF TryUse
<1> HIDE DEF p
<1> QED
  BY <1>1, <1>2, UsingSet DEF Sticky

\* Never-delayed-free is taken back only by the thread that reclaims the page, or when
\* the page is freed (types.h:230); and a page is cleared, or leaves its heap for none,
\* only while nobody is DELAYED_FREEING into it (page.c:413, internal.h:507).
THEOREM FlagIsKept == Spec => FlagKept
<1>1. ASSUME FullInv, [Next]_vars PROVE \A q \in Page : Sticky(q)
  <2>1. CASE UNCHANGED page
    BY <2>1 DEF Sticky
  <2>2. ASSUME NEW t \in Thread, Call(t) PROVE \A q \in Page : Sticky(q)
    BY <1>1, <2>1, <2>2, MallocSticks, FreeSticks
       DEF Call, ThreadInit, ThreadDone, MallocGeneric, HeapNew, HeapDelete, HeapCollect
  <2>3. ASSUME NEW t \in Thread, Step(t) PROVE \A q \in Page : Sticky(q)
    <3>1. \/ UNCHANGED page
          \/ ResetFlag(t) \/ AllowDelayed(t) \/ AppendSpin(t)
          \/ FreeDelayed(t) \/ ToFull(t) \/ GatherPage(t)
          \/ \E b \in Block : TryUse(t, b)
          \/ \E p \in Page :
                 \/ FindPage(t, p) \/ FindExtend(t, p) \/ FindFresh(t, p)
                 \/ NeverDelayed(t, p) \/ CheckFree(t, p) \/ SetHeap(t, p)
                 \/ AppendPage(t, p) \/ PageCollect(t, p)
      BY <2>3 DEF Step, LoadHeap, PushDelayed, Reinsert, DelayedDone, FindFails,
         NeverDone, PagesDone, AllReclaimed, CollectDone, Claim, PushVisited,
         ReclaimDone, AppendDone, PopAbandoned
    <3> QED
      BY <1>1, <2>1, <3>1, LabelSticks, FreeDelayedSticks, HeldPageSticks, TryUseSticks,
         SearchSticks, OwnPageSticks, PageCollectSticks
  <2> QED
    BY <1>1, <2>1, <2>2, <2>3 DEF Next, vars
<1>2. FullInv /\ [Next]_vars => [\A p \in Page :
          /\ page[p].flag = "never" /\ page'[p].flag # "never" =>
              ~InUse(page'[p])
              \/ \E t \in Thread : pc[t].at = "allow" /\ pc[t].page = p
          /\ page[p].xheap # NoHeap /\ page'[p].xheap = NoHeap =>
              page[p].flag # "freeing"]_vars
  BY <1>1 DEF Sticky
<1> QED
  BY <1>2, FullInvariance, PTL DEF Spec, FlagKept
=============================================================================

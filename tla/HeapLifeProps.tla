--------------------------- MODULE HeapLifeProps ----------------------------
(***************************************************************************)
(* What HeapLife guarantees: to the program (Pool), to the pages and heaps *)
(* (the invariants the code asserts or states in comments), and in time.   *)
(***************************************************************************)
EXTENDS HeapLife

-----------------------------------------------------------------------------
\* The block a thread moves from one list to the next, and all it has taken
\* off a list.
Hand(t) == IF pc[t].at \in {"load", "push", "collect"} THEN {pc[t].block} ELSE {}

Carried(t) == pc[t].taken \cup Hand(t)

\* The blocks of a page that are in none of its own lists.
Out(pg) == pg.capacity \ (pg.free \cup pg.local_free \cup pg.thread_free)

\* One page_t: a block is in at most one of its lists, and `used` counts the
\* blocks in neither free nor local_free (the assertion page.c:111).
PageOK(p, pg) ==
    /\ pg.capacity \subseteq BlocksOf(p)
    /\ pg.free \cup pg.local_free \cup pg.thread_free \subseteq pg.capacity
    /\ pg.free \cap pg.local_free = {}
    /\ pg.thread_free \cap (pg.free \cup pg.local_free) = {}
    /\ pg.used = Cardinality(pg.capacity \ (pg.free \cup pg.local_free))

PagesOK == \A p \in Page : PageOK(p, page[p])

\* What is away from the page's lists is a block of an initialized page.
AwayIsOut ==
    /\ \A b \in live : b \in Out(page[PageOf[b]])
    /\ \A h \in Heap : \A b \in delayed[h] : b \in Out(page[PageOf[b]])
    /\ \A t \in Thread : \A b \in Carried(t) : b \in Out(page[PageOf[b]])

\* ... and is in one place only.
AwayOnce ==
    /\ \A h \in Heap : live \cap delayed[h] = {}
    /\ \A t \in Thread : live \cap Carried(t) = {}
    /\ \A g, h \in Heap : g # h => delayed[g] \cap delayed[h] = {}
    /\ \A h \in Heap, t \in Thread : delayed[h] \cap Carried(t) = {}
    /\ \A t, u \in Thread : t # u => Carried(t) \cap Carried(u) = {}
    /\ \A t \in Thread : Hand(t) \cap pc[t].taken = {}

\* No block is in two places, and none is anywhere once its page is cleared
\* for reuse: whatever lists of pages, heaps and threads a block travels
\* through, it is in one of them at a time, and `used` never counts wrong.
Exclusive == PagesOK /\ AwayIsOut /\ AwayOnce

\* The inductive invariant: Exclusive with the types. Neither is inductive alone.
IInv == TypeOK /\ Exclusive

\* A block of p is on its way to the owner through a heap's delayed list.
Delayed(p) ==
    \/ \E h \in Heap : delayed[h] \cap BlocksOf(p) # {}
    \/ \E t \in Thread : pc[t].taken \cap BlocksOf(p) # {}

\* types.h:287, the invariant of the delayed flag: no-delayed-free is only set
\* if at least one block will be, or has been, added to the thread_delayed_free
\* list.  Here: and has not been processed yet.
NoDelayedOnlyWithDelayed ==
    \A p \in Page : page[p].flag = "no" => Delayed(p)

\* The owner is between allowing delayed frees on p and collecting it.
Collecting(p) == \E t \in Thread :
    \/ pc[t].at = "collect" /\ PageOf[pc[t].block] = p
    \/ pc[t].at = "gather" /\ pc[t].page = p

\* No block is lost, also when a heap or a thread goes: what is in no list of its
\* page is held by the program or on its way back, and blocks never sit in a page's
\* thread_free list with nothing left that makes the owner collect it (alloc.c:604-608),
\* unless the page is marked never: its thread is ending, or it is abandoned and
\* collected when visited.
NothingLost == \A p \in Page :
    /\ \A b \in Out(page[p]) :
        \/ b \in live
        \/ \E h \in Heap : b \in delayed[h]
        \/ \E t \in Thread : b \in Carried(t)
    /\ page[p].thread_free # {} /\ page[p].flag # "never" =>
        page[p].flag = "freeing" \/ Delayed(p) \/ Collecting(p)

\* alloc.c:449, "racy read on heap, but ok because DELAYED_FREEING is set": the
\* heap a thread is about to push to is still there, and so is the heap of
\* every list that holds blocks.
HeapsOutliveFrees ==
    /\ \A t \in Thread : pc[t].at = "push" => heapThread[pc[t].heap] # NoThread
    /\ \A h \in Heap : delayed[h] # {} => heapThread[h] # NoThread

\* A heap outlives the frees that are about to push to it, and so what the assertions
\* say of state that other threads change is true: alloc.c:451 and 464, alloc.c:601,
\* page.c:262 and 391, segment.c:1341-1342.
AssertionsHold == HeapsOutliveFrees /\ \A t \in Thread :
    LET p == IF pc[t].block # NoBlock THEN PageOf[pc[t].block] ELSE pc[t].page
    IN  /\ pc[t].at = "load" => page[p].xheap # NoHeap
        /\ pc[t].at = "reset" => page[p].flag = "freeing"
        /\ \A b \in pc[t].taken : threadId[SegmentOf[PageOf[b]]] = t
        /\ pc[t].at = "collect" => threadId[SegmentOf[p]] = t
        /\ pc[t].at = "gather" => page[p].flag # "never"
        /\ pc[t].at = "reclaim" => \A q \in pc[t].todo :
               page[q].flag = "never" /\ page[q].xheap = NoHeap
        /\ pc[t].at = "pages" /\ pc[t].op = "done" => \A q \in pc[t].todo :
               page[q].flag = "never" \/ ~InUse(page[q])

\* A segment is owned, abandoned or free, and only its owner's heaps have its
\* pages (page.c:126). No delayed block refers to a page without a heap, so the
\* next owner finds all its freed blocks in the page itself (page.c:394-399).
OwnersAgree == \A p \in Page :
    IF page[p].xheap # NoHeap
    THEN /\ heapThread[page[p].xheap] # NoThread
         /\ heapThread[page[p].xheap] = threadId[SegmentOf[p]]
    ELSE InUse(page[p]) => page[p].flag = "never" /\ ~Delayed(p)

\* The blocks that are with their page: in its lists, or never handed out since
\* the page was initialized, or the page is not in use.
Stock == {b \in Block : b \notin Out(page[PageOf[b]])}

\* malloc never hands out a block somebody holds, and nothing but a free of
\* the program takes a block away: the whole allocator, with its lists, heaps
\* and threads coming and going, is a BlockPool to its callers.
Pool == INSTANCE BlockPool WITH stock <- Stock
ImplementsPool == Pool!Spec

-----------------------------------------------------------------------------
\* Never-delayed-free is sticky: it goes only when the page is reclaimed or freed
\* (types.h:230). And nobody is DELAYED_FREEING into a page when it is cleared or
\* leaves its heap for none, so the racy read of xheap never finds a heap gone or a
\* page of another life (page.c:413, internal.h:507).
FlagKept == [][\A p \in Page :
    /\ page[p].flag = "never" /\ page'[p].flag # "never" =>
        ~InUse(page'[p])
        \/ \E t \in Thread : pc[t].at = "allow" /\ pc[t].page = p
    /\ page[p].xheap # NoHeap /\ page'[p].xheap = NoHeap =>
        page[p].flag # "freeing"]_vars

-----------------------------------------------------------------------------
\* A thread inside the allocator keeps running.  A search and a collection look
\* at no more than a fixed number of abandoned segments (max_tries), so they
\* leave these loops when they can do so again and again.
Fairness == \A t \in Thread :
    /\ WF_vars(Step(t))
    /\ SF_vars(CollectDone(t))
    /\ SF_vars(FindFails(t) \/ \E p \in Page : FindFresh(t, p))

\* The program keeps allocating from its heaps: without it nothing collects
\* what other threads freed.
KeepsAllocating == \A h \in Heap : SF_vars(\E t \in Thread : MallocGeneric(t, h))

FairSpec == Spec /\ Fairness

\* Every call returns: the waits for DELAYED_FREEING to end (at thread exit, in
\* delayed_free_all, in a reclaim) never wait for ever, nor for one another.
CallsReturn == \A t \in Thread : pc[t] # Idle ~> pc[t] = Idle

\* types.h:287-290: pages come back even if only other threads free blocks.  A
\* page of the full queue, where no search looks, leaves it once any of its
\* blocks was freed, by whatever thread and however it travelled.
FullPagesReturn == KeepsAllocating => \A p \in Page :
    page[p].in_full /\ ~(page[p].capacity \subseteq live) ~> ~page[p].in_full

=============================================================================

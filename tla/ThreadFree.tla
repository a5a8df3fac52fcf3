----------------------------- MODULE ThreadFree -----------------------------
(***************************************************************************)
(* The life of blocks and pages across threads: malloc and free of the     *)
(* owning thread, free by any other thread (_alloc_hook_free_block_mt),    *)
(* the delayed-free list of each heap, collection, and what moves a page   *)
(* between owners: deleting a heap, ending a thread, reclaiming what a     *)
(* thread left behind.                                                     *)
(*                                                                         *)
(* One action is one access to memory other threads use -- xthread_free    *)
(* and xheap of a page, thread_delayed_free of a heap, thread_id of a      *)
(* segment, the abandoned list -- with the owner's private work after it.  *)
(* A CAS loop is the step of its successful CAS.  Lists are sets: a push   *)
(* or a take of the whole list does not depend on the order.  All blocks   *)
(* have one size, small enough to retire pages; segments are not huge.     *)
(*                                                                         *)
(* This module holds the state and the paths of malloc and free; HeapLife  *)
(* adds collection, the life of heaps and threads, and the specification.  *)
(***************************************************************************)
EXTENDS Integers, FiniteSets

CONSTANTS
    Thread, Heap, Segment, Page, Block,
    Backing,         \* the backing heap of each thread (tld->heap_backing)
    Main,            \* the main thread, NoThread when it is not among Thread
    SegmentOf,       \* the segment of each page
    PageOf,          \* the page each block lies in
    NoThread, NoHeap, NoSegment, NoPage, NoBlock,
    Calls            \* bound: which of the calls below each thread makes

AllCalls == {"malloc", "free", "collect", "force", "new", "delete", "done"}

ASSUME ThreadFreeAssumption ==
    /\ IsFiniteSet(Block)
    /\ Backing \in [Thread -> Heap]
    /\ \A t, u \in Thread : Backing[t] = Backing[u] => t = u
    /\ Main \in Thread \cup {NoThread}
    /\ SegmentOf \in [Page -> Segment]
    /\ PageOf \in [Block -> Page]
    /\ NoThread \notin Thread /\ NoHeap \notin Heap
    /\ NoSegment \notin Segment /\ NoPage \notin Page /\ NoBlock \notin Block
    /\ Calls \in [Thread -> SUBSET AllCalls]

VARIABLES
    page,        \* alloc_hook_page_t of each page
    delayed,     \* thread_delayed_free of each heap
    heapThread,  \* thread_id of each heap, NoThread when it does not exist
    threadId,    \* thread_id of each segment, NoThread: free or abandoned
    abandoned,   \* segments on the abandoned and abandoned_visited lists
    live,        \* blocks the program holds
    pc           \* where each thread is inside the allocator

vars == <<page, delayed, heapThread, threadId, abandoned, live, pc>>

BlocksOf(p) == {b \in Block : PageOf[b] = p}

Flag == {"use", "freeing", "no", "never"}      \* alloc_hook_delayed_t

\* capacity is the set of blocks ever put on a free list since the page was
\* initialized; a page_t all of zeroes is not in use.
PageRecord ==
    [xheap : Heap \cup {NoHeap}, flag : Flag, in_full : BOOLEAN, used : Nat,
     capacity : SUBSET Block, free : SUBSET Block, local_free : SUBSET Block,
     thread_free : SUBSET Block]

Unused ==
    [xheap |-> NoHeap, flag |-> "use", in_full |-> FALSE, used |-> 0,
     capacity |-> {}, free |-> {}, local_free |-> {}, thread_free |-> {}]

Label == {"idle", "load", "push", "reset", "delayed", "collect", "find",
          "full", "never", "pages", "abandoned", "append", "spin", "check",
          "reclaim", "allow", "gather", "all"}

\* op is the call a thread is in; "recollect" is the forced collection inside
\* a malloc that found no page and "retry" its second search, "absorb" the
\* second round of delayed frees inside delete.  again is set when a block was
\* put back, so that delayed_free_all goes round once more, and while
\* abandoned_reclaim_all runs.
Op == AllCalls \cup {"none", "recollect", "retry", "absorb"}

Control ==
    [at : Label, op : Op, heap : Heap \cup {NoHeap}, block : Block \cup {NoBlock},
     page : Page \cup {NoPage}, seg : Segment \cup {NoSegment},
     todo : SUBSET Page, taken : SUBSET Block, again : BOOLEAN]

Idle == [at |-> "idle", op |-> "none", heap |-> NoHeap, block |-> NoBlock,
         page |-> NoPage, seg |-> NoSegment, todo |-> {}, taken |-> {},
         again |-> FALSE]

\* The fields a thread's place in the code relies on are set.
Placed(c) ==
    /\ c.at \in {"load", "push", "reset", "collect"} => c.block \in Block
    /\ c.at \in {"full", "spin", "allow", "gather"} => c.page \in Page
    /\ c.at \in {"check", "reclaim", "allow", "gather"} => c.seg \in Segment
    /\ c.at \notin {"idle", "load", "reset"} => c.heap \in Heap

TypeOK ==
    /\ page \in [Page -> PageRecord]
    /\ delayed \in [Heap -> SUBSET Block]
    /\ heapThread \in [Heap -> Thread \cup {NoThread}]
    /\ threadId \in [Segment -> Thread \cup {NoThread}]
    /\ abandoned \subseteq Segment
    /\ live \subseteq Block
    /\ pc \in [Thread -> Control]
    /\ \A t \in Thread : Placed(pc[t])

Init ==
    /\ page = [p \in Page |-> Unused]
    /\ delayed = [h \in Heap |-> {}]
    /\ heapThread = [h \in Heap |-> NoThread]
    /\ threadId = [s \in Segment |-> NoThread]
    /\ abandoned = {}
    /\ live = {}
    /\ pc = [t \in Thread |-> Idle]

-----------------------------------------------------------------------------
(* Pure operations on one page_t.                                          *)

\* Mutant of Collected: blocks of local_free are counted off a second time.
CollectedTwice(pg, force) ==
    [pg EXCEPT !.thread_free = {},
               !.used = @ - Cardinality(pg.thread_free \cup pg.local_free),
               !.free = @ \cup pg.local_free \cup pg.thread_free,
               !.local_free = {}]

\* page_free_collect: take the thread_free list and count it off, then move
\* local_free to free when free is empty, or always when forced.
Collected(pg, force) ==
    LET local == pg.local_free \cup pg.thread_free
        move  == force \/ pg.free = {}
    IN  [pg EXCEPT !.thread_free = {},
                   !.used = @ - Cardinality(pg.thread_free),
                   !.free = IF move THEN @ \cup local ELSE @,
                   !.local_free = IF move THEN {} ELSE local]

\* Push a block of the owning thread on local_free.
FreedLocally(pg, b) ==
    [pg EXCEPT !.local_free = @ \cup {b}, !.used = @ - 1]

\* page_extend_free: blocks that were never used go on the free list.
Extended(pg, new) ==
    [pg EXCEPT !.capacity = @ \cup new, !.free = @ \cup new]

\* Mutant of Popped: the block stays on the free list.
PoppedKept(pg, b) == [pg EXCEPT !.used = @ + 1]

\* page_malloc: pop a block.
Popped(pg, b) == [pg EXCEPT !.free = @ \ {b}, !.used = @ + 1]

\* Mutant of UsingDelayed: it leaves no-delayed-free on.
UsingDelayedNot(pg) == pg

\* try_use_delayed_free with override_never false, not DELAYED_FREEING.
UsingDelayed(pg) == [pg EXCEPT !.flag = IF @ = "never" THEN @ ELSE "use"]

InUse(pg) == pg.capacity # {}

-----------------------------------------------------------------------------
Pages(h) == {p \in Page : page[p].xheap = h}

\* The page queue of h, without its full queue.
Queue(h) == {p \in Pages(h) : ~page[p].in_full}

UsedPages(pages, s) == {p \in Page : SegmentOf[p] = s /\ InUse(pages[p])}

Free(s) == threadId[s] = NoThread /\ s \notin abandoned
           /\ UsedPages(page, s) = {} /\ \A t \in Thread : pc[t].seg # s

Starts(t, call) == pc[t] = Idle /\ call \in Calls[t]

\* Mutant of Rested: a full page that gets a block back stays in the full queue.
RestedFull(p, pg) ==
    IF pg.used = 0 /\ (pg.in_full \/ Queue(pg.xheap) # {p}) THEN Unused ELSE pg

\* page_retire, page_unfull or nothing, after a local free left pg: an empty
\* page is kept only when it is the single page of its queue.
Rested(p, pg) ==
    IF pg.used = 0
      THEN IF ~pg.in_full /\ Queue(pg.xheap) = {p} THEN pg ELSE Unused
      ELSE [pg EXCEPT !.in_full = FALSE]

\* segment_page_free and segment_page_abandon: page p of an owned segment
\* becomes pg; a segment without pages in use is freed, one whose pages are
\* all abandoned is abandoned.
Settle(p, pg) ==
    LET s      == SegmentOf[p]
        pages  == [page EXCEPT ![p] = pg]
        orphan == \A q \in UsedPages(pages, s) : pages[q].xheap = NoHeap
    IN  /\ page' = pages
        /\ threadId' = IF orphan THEN [threadId EXCEPT ![s] = NoThread]
                                 ELSE threadId
        /\ abandoned' = IF orphan /\ UsedPages(pages, s) # {}
                          THEN abandoned \cup {s} ELSE abandoned

-----------------------------------------------------------------------------
(* malloc and free of the owner; free by another thread.                   *)

\* page_malloc's fast path: the page the heap offers has a free block.
Malloc(t, p, b) ==
    /\ Starts(t, "malloc")
    /\ page[p].xheap # NoHeap /\ heapThread[page[p].xheap] = t
    /\ ~page[p].in_full /\ b \in page[p].free
    /\ page' = [page EXCEPT ![p] = Popped(@, b)]
    /\ live' = live \cup {b}
    /\ UNCHANGED <<delayed, heapThread, threadId, abandoned, pc>>

\* alloc_hook_free by the thread that owns the segment.
FreeOwned(t, b) ==
    /\ Starts(t, "free") /\ b \in live
    /\ threadId[SegmentOf[PageOf[b]]] = t
    /\ LET p == PageOf[b]
       IN  Settle(p, Rested(p, FreedLocally(page[p], b)))
    /\ live' = live \ {b}
    /\ UNCHANGED <<delayed, heapThread, pc>>

\* free_block_mt, first CAS: either claim the right to go to the heap or push
\* on the page's own list.
FreeMt(t, b) ==
    /\ Starts(t, "free") /\ b \in live
    /\ threadId[SegmentOf[PageOf[b]]] # t
    /\ live' = live \ {b}
    /\ LET p == PageOf[b]
       IN  \/ /\ page[p].flag = "use"
              /\ page' = [page EXCEPT ![p].flag = "freeing"]
              /\ pc' = [pc EXCEPT ![t].at = "load", ![t].op = "free",
                                  ![t].block = b]
           \/ /\ page[p].flag # "use"
              /\ page' = [page EXCEPT ![p].thread_free = @ \cup {b}]
              /\ UNCHANGED pc
    /\ UNCHANGED <<delayed, heapThread, threadId, abandoned>>

\* The racy read of xheap.
LoadHeap(t) ==
    /\ pc[t].at = "load"
    /\ LET h == page[PageOf[pc[t].block]].xheap
       IN  pc' = [pc EXCEPT ![t].heap = h,
                            ![t].at = IF h = NoHeap THEN "reset" ELSE "push"]
    /\ UNCHANGED <<page, delayed, heapThread, threadId, abandoned, live>>

\* Push on thread_delayed_free of that heap.
PushDelayed(t) ==
    /\ pc[t].at = "push"
    /\ delayed' = [delayed EXCEPT ![pc[t].heap] = @ \cup {pc[t].block}]
    /\ pc' = [pc EXCEPT ![t].at = "reset"]
    /\ UNCHANGED <<page, heapThread, threadId, abandoned, live>>

\* Mutant of ResetFlag: the flag is never put back.
ResetFlagForgotten(t) ==
    /\ pc[t].at = "reset"
    /\ pc' = [pc EXCEPT ![t] = Idle]
    /\ UNCHANGED <<page, delayed, heapThread, threadId, abandoned, live>>

\* DELAYED_FREEING becomes NO_DELAYED_FREE.
ResetFlag(t) ==
    /\ pc[t].at = "reset"
    /\ page' = [page EXCEPT ![PageOf[pc[t].block]].flag = "no"]
    /\ pc' = [pc EXCEPT ![t] = Idle]
    /\ UNCHANGED <<delayed, heapThread, threadId, abandoned, live>>

-----------------------------------------------------------------------------
(* heap_delayed_free_partial and heap_delayed_free_all.                    *)

\* Take over the whole list of h, inside the call op.
TakeDelayed(t, h, op) ==
    /\ delayed' = [delayed EXCEPT ![h] = {}]
    /\ pc' = [pc EXCEPT ![t] = [Idle EXCEPT !.at = "delayed", !.op = op,
                                            !.heap = h, !.taken = delayed[h]]]

\* heap_collect_ex: a forced collection of the main thread's backing heap
\* reclaims all abandoned segments before it empties the delayed list.
Collect(t, h, op) ==
    LET force_main == t = Main /\ h = Backing[t] /\ op # "collect"
    IN  \/ /\ force_main
           /\ pc' = [pc EXCEPT ![t] = [Idle EXCEPT !.at = "all", !.op = op,
                                                   !.heap = h, !.again = TRUE]]
           /\ UNCHANGED delayed
        \/ ~force_main /\ TakeDelayed(t, h, op)

\* One block of the list while a thread is still freeing into its page: put
\* it back for later.
Reinsert(t, b) ==
    /\ pc[t].at = "delayed" /\ b \in pc[t].taken
    /\ page[PageOf[b]].flag = "freeing"
    /\ delayed' = [delayed EXCEPT ![pc[t].heap] = @ \cup {b}]
    /\ pc' = [pc EXCEPT ![t].taken = @ \ {b}, ![t].again = TRUE]
    /\ UNCHANGED <<page, heapThread, threadId, abandoned, live>>

\* Mutant of TryUse: it goes on although it gave up waiting.
TryUseGivesUp(t, b) ==
    /\ pc[t].at = "delayed" /\ b \in pc[t].taken
    /\ page' = IF page[PageOf[b]].flag = "freeing" THEN page
               ELSE [page EXCEPT ![PageOf[b]] = UsingDelayed(@)]
    /\ pc' = [pc EXCEPT ![t].taken = @ \ {b}, ![t].at = "collect",
                        ![t].block = b]
    /\ UNCHANGED <<delayed, heapThread, threadId, abandoned, live>>

\* free_delayed_block: allow delayed frees on the page again ...
TryUse(t, b) ==
    /\ pc[t].at = "delayed" /\ b \in pc[t].taken
    /\ page[PageOf[b]].flag # "freeing"
    /\ page' = [page EXCEPT ![PageOf[b]] = UsingDelayed(@)]
    /\ pc' = [pc EXCEPT ![t].taken = @ \ {b}, ![t].at = "collect",
                        ![t].block = b]
    /\ UNCHANGED <<delayed, heapThread, threadId, abandoned, live>>

\* ... then collect the page and free the block locally.
FreeDelayed(t) ==
    /\ pc[t].at = "collect"
    /\ LET b == pc[t].block
           p == PageOf[b]
       IN  Settle(p, Rested(p, FreedLocally(Collected(page[p], FALSE), b)))
    /\ pc' = [pc EXCEPT ![t].at = "delayed", ![t].block = NoBlock]
    /\ UNCHANGED <<delayed, heapThread, live>>

\* heap_free, and the end of heap_done: the heap's memory goes.
DropHeap(t, h) ==
    /\ heapThread' = [heapThread EXCEPT ![h] = NoThread]
    /\ delayed' = [delayed EXCEPT ![h] = {}]
    /\ pc' = [pc EXCEPT ![t] = Idle]

\* The whole list was gone through.  malloc and the first round of delete do
\* one round; the others repeat until no block had to be put back.
DelayedDone(t) ==
    /\ pc[t].at = "delayed" /\ pc[t].taken = {}
    /\ LET op == pc[t].op
           h  == pc[t].heap
           to(at, todo) ==
               /\ pc' = [pc EXCEPT ![t].at = at, ![t].todo = todo]
               /\ UNCHANGED <<delayed, heapThread>>
       IN  \/ op = "malloc" /\ to("find", {})
           \/ op = "delete" /\ to("append", Pages(h))
           \/ /\ op \in {"collect", "force", "recollect", "done", "absorb"}
              /\ pc[t].again
              /\ TakeDelayed(t, h, op)
              /\ UNCHANGED heapThread
           \/ /\ op \in {"collect", "force", "recollect", "done"}
              /\ ~pc[t].again
              /\ to("pages", Pages(h))
           \/ op = "absorb" /\ ~pc[t].again /\ DropHeap(t, h)
    /\ UNCHANGED <<page, threadId, abandoned, live>>

-----------------------------------------------------------------------------
(* malloc_generic and find_free_page.                                      *)

MallocGeneric(t, h) ==
    /\ Starts(t, "malloc") /\ heapThread[h] = t
    /\ TakeDelayed(t, h, "malloc")
    /\ UNCHANGED <<page, heapThread, threadId, abandoned, live>>

\* The search ends with page p as pg: pop one of its blocks.
PopFrom(t, p, pg) ==
    \E b \in pg.free :
        /\ page' = [page EXCEPT ![p] = Popped(pg, b)]
        /\ live' = live \cup {b}
        /\ pc' = [pc EXCEPT ![t] = Idle]

Searching(t) == pc[t].at = "find"

\* A page of the queue: collect it, use it when that gave a free block,
\* otherwise extend it, otherwise it is full.
FindPage(t, p) ==
    /\ Searching(t) /\ p \in Queue(pc[t].heap)
    /\ LET pg  == Collected(page[p], FALSE)
           new == BlocksOf(p) \ pg.capacity
       IN  \/ pg.free # {} /\ PopFrom(t, p, pg)
           \/ /\ pg.free = {}
              /\ \E add \in (SUBSET new) \ {{}} :
                     PopFrom(t, p, Extended(pg, add))
           \/ /\ pg.free = {} /\ new = {}
              /\ page' = [page EXCEPT ![p] = pg]
              /\ pc' = [pc EXCEPT ![t].at = "full", ![t].page = p]
              /\ UNCHANGED live
    /\ UNCHANGED <<delayed, heapThread, threadId, abandoned>>

\* In secure mode half of the searches extend the first page before they
\* collect it.
FindExtend(t, p) ==
    /\ Searching(t) /\ p \in Queue(pc[t].heap)
    /\ \E add \in SUBSET (BlocksOf(p) \ page[p].capacity) \ {{}} :
           PopFrom(t, p, Extended(page[p], add))
    /\ UNCHANGED <<delayed, heapThread, threadId, abandoned>>

\* page_to_full: move to the full queue, then collect once more.
ToFull(t) ==
    /\ pc[t].at = "full"
    /\ LET full(pg) == [Collected(pg, FALSE) EXCEPT !.in_full = TRUE]
       IN  page' = [page EXCEPT ![pc[t].page] = full(@)]
    /\ pc' = [pc EXCEPT ![t].at = "find", ![t].page = NoPage]
    /\ UNCHANGED <<delayed, heapThread, threadId, abandoned, live>>

\* No page left in the queue: a page of a segment the thread has, or of a
\* segment from the OS or an arena.
FindFresh(t, p) ==
    /\ Searching(t) /\ Queue(pc[t].heap) = {}
    /\ ~InUse(page[p])
    /\ threadId[SegmentOf[p]] = t \/ Free(SegmentOf[p])
    /\ threadId' = [threadId EXCEPT ![SegmentOf[p]] = t]
    /\ \E add \in SUBSET BlocksOf(p) \ {{}} :
           PopFrom(t, p, Extended([Unused EXCEPT !.xheap = pc[t].heap], add))
    /\ UNCHANGED <<delayed, heapThread, abandoned>>

\* No memory: collect by force and search again, then give up.
FindFails(t) ==
    /\ Searching(t) /\ Queue(pc[t].heap) = {}
    /\ \A p \in Page : InUse(page[p]) \/ ~(threadId[SegmentOf[p]] = t
                                           \/ Free(SegmentOf[p]))
    /\ \/ pc[t].op = "malloc" /\ Collect(t, pc[t].heap, "recollect")
       \/ /\ pc[t].op = "retry"
          /\ pc' = [pc EXCEPT ![t] = Idle]
          /\ UNCHANGED delayed
    /\ UNCHANGED <<page, heapThread, threadId, abandoned, live>>
=============================================================================

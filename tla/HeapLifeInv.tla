---------------------------- MODULE HeapLifeInv -----------------------------
(***************************************************************************)
(* Why the delayed-free protocol of HeapLife works: what holds of heaps,   *)
(* segments, pages, lists and of a thread at each place of the code,       *)
(* between any two steps.  Handover is inductive together with IInv, and   *)
(* it implies what HeapLifeProps states of the protocol.                   *)
(***************************************************************************)
EXTENDS HeapLifeProps

\* The thread whose heap holds page p.
Owner(p) ==
    IF page[p].xheap = NoHeap THEN NoThread ELSE heapThread[page[p].xheap]

\* The places inside free_block_mt, where the page is DELAYED_FREEING, and
\* those of the reclaim of a segment.
FreeingAt == {"load", "push", "reset"}
ReclaimAt == {"reclaim", "allow", "gather"}
SegmentAt == {"check"} \cup ReclaimAt

\* The backing heap of a thread is its own or does not exist, and it is the last
\* of the thread's heaps to go.
HeapsHeld ==
    /\ \A t \in Thread : heapThread[Backing[t]] \in {t, NoThread}
    /\ \A h \in Heap : heapThread[h] # NoThread =>
           heapThread[Backing[heapThread[h]]] = heapThread[h]

\* An abandoned segment is nobody's, and two threads never look at the same one.
SegmentsHeld ==
    /\ \A s \in abandoned : threadId[s] = NoThread
    /\ \A t, u \in Thread :
           t # u /\ pc[t].seg # NoSegment => pc[t].seg # pc[u].seg

\* A page in use has a heap, of the thread that owns its segment, or is marked never.
PageHeld(p) ==
    /\ ~InUse(page[p]) => page[p].xheap = NoHeap /\ page[p].flag = "use"
    /\ InUse(page[p]) /\ page[p].xheap = NoHeap => page[p].flag = "never"
    /\ page[p].xheap # NoHeap =>
           Owner(p) # NoThread /\ Owner(p) = threadId[SegmentOf[p]]

-----------------------------------------------------------------------------
(* A thread at its place.                                                  *)

\* Inside the allocator a thread works on a heap of its own.
AtHome(t) ==
    /\ pc[t].at \notin FreeingAt \cup {"idle"} => heapThread[pc[t].heap] = t
    /\ pc[t].taken # {} => pc[t].at \in {"delayed", "collect"}
    /\ pc[t].block # NoBlock => pc[t].at \in FreeingAt \cup {"collect"}
    /\ pc[t].seg # NoSegment => pc[t].at \in SegmentAt
    /\ pc[t].at \in {"never", "pages"} => pc[t].todo \subseteq Pages(pc[t].heap)

\* A segment taken off the abandoned list is nobody's, then its reclaimer's.  Its
\* pages have no heap until the reclaimer gives them one.
AtSegment(t) ==
    /\ pc[t].at = "check" =>
           /\ threadId[pc[t].seg] = NoThread /\ pc[t].seg \notin abandoned
           /\ \A q \in pc[t].todo : SegmentOf[q] = pc[t].seg
    /\ pc[t].at \in ReclaimAt =>
           /\ threadId[pc[t].seg] = t
           /\ \A q \in pc[t].todo : /\ SegmentOf[q] = pc[t].seg
                                    /\ InUse(page[q]) /\ page[q].xheap = NoHeap
    /\ pc[t].at \in {"allow", "gather"} => page[pc[t].page].xheap = pc[t].heap
    /\ pc[t].at = "gather" => page[pc[t].page].flag # "never"

\* A thread that ends has its backing heap only.  Once all pages are marked never,
\* nothing comes to the delayed list any more.
Ending(t) ==
    /\ pc[t].at = "never" => pc[t].op = "done"
    /\ pc[t].op = "done" =>
        /\ pc[t].at \in {"never", "delayed", "collect", "pages", "abandoned",
                         "check", "reclaim"}
        /\ pc[t].heap = Backing[t]
        /\ \A h \in Heap : heapThread[h] = t => h = Backing[t]
        /\ \A p \in Page : page[p].xheap = Backing[t] =>
               \/ page[p].flag = "never"
               \/ pc[t].at = "never" /\ p \in pc[t].todo
        /\ pc[t].at # "never" => delayed[Backing[t]] = {} /\ ~pc[t].again
        /\ pc[t].at \notin {"never", "delayed", "collect"} =>
               \A p \in Page : page[p].xheap = Backing[t] =>
                   pc[t].at = "pages" /\ p \in pc[t].todo
        /\ pc[t].at = "reclaim" => pc[t].todo = {}

\* A heap that is deleted moves its pages to the backing heap one by one.  When it
\* goes it has no page and nothing on its list.
Deleting(t) ==
    /\ pc[t].op = "delete" =>
        /\ pc[t].at \in {"delayed", "collect", "append", "spin"}
        /\ pc[t].heap # Backing[t]
        /\ pc[t].at \in {"append", "spin"} => pc[t].todo = Pages(pc[t].heap)
    /\ pc[t].op = "absorb" =>
        /\ pc[t].at \in {"delayed", "collect"}
        /\ pc[t].heap # Backing[t]
        /\ Pages(pc[t].heap) = {}
        /\ ~pc[t].again => delayed[pc[t].heap] = {}
    /\ pc[t].at \in {"append", "spin"} => pc[t].op = "delete"
    /\ pc[t].at = "spin" => page[pc[t].page].xheap = Backing[t]

AtWork(t) == AtHome(t) /\ AtSegment(t) /\ Ending(t) /\ Deleting(t)

-----------------------------------------------------------------------------
(* Blocks on their way back.                                               *)

\* t deletes heap h, whose pages may be with the backing heap already.
Absorbs(t, h) == pc[t].op \in {"delete", "absorb"} /\ pc[t].heap = h

\* A block on a delayed list is of a page of the list's thread, and of the list's
\* heap unless that heap is being deleted.
ListHeld(h) == \A b \in delayed[h] :
    /\ heapThread[h] # NoThread /\ Owner(PageOf[b]) = heapThread[h]
    /\ page[PageOf[b]].xheap = h \/ \E u \in Thread : Absorbs(u, h)

\* So are the blocks a thread took off a list and the one it is about to free.
TakenHeld(t) ==
    /\ \A b \in pc[t].taken :
           /\ Owner(PageOf[b]) = t
           /\ page[PageOf[b]].xheap = pc[t].heap \/ Absorbs(t, pc[t].heap)
    /\ pc[t].at = "collect" => Owner(PageOf[pc[t].block]) = t

\* Block b is on a delayed list, or taken off one and not yet looked at.
OnItsWay(b) ==
    \/ \E h \in Heap : b \in delayed[h]
    \/ \E u \in Thread : b \in pc[u].taken

Frees(t, p) == pc[t].at \in FreeingAt /\ PageOf[pc[t].block] = p

\* DELAYED_FREEING is one thread's claim on the page.  The heap it read is still
\* there: it is the page's heap, or the owner waits to absorb it.  After the push
\* the block stays on its way for as long as the claim lasts.
FreerHeld(t) == pc[t].at \in FreeingAt =>
    LET p == PageOf[pc[t].block] IN
    /\ page[p].flag = "freeing"
    /\ pc[t].at = "reset" => OnItsWay(pc[t].block)
    /\ pc[t].at = "push" =>
           \/ pc[t].heap = page[p].xheap
           \/ \E u \in Thread : pc[u].at = "spin" /\ pc[u].page = p
                                /\ pc[u].heap = pc[t].heap
    /\ \A u \in Thread : u # t => ~Frees(u, p)

Claimed(p) == page[p].flag = "freeing" => \E t \in Thread : Frees(t, p)

\* No-delayed-free is set only with a block on its way, and blocks in thread_free
\* are found: see NothingLost.
Returns(p) ==
    /\ page[p].flag = "no" => Delayed(p)
    /\ page[p].thread_free # {} /\ page[p].flag # "never" =>
           page[p].flag = "freeing" \/ Delayed(p) \/ Collecting(p)

\* A block out of its page's lists is somewhere.
OutIsAway(p) == \A b \in Out(page[p]) :
    \/ b \in live
    \/ \E h \in Heap : b \in delayed[h]
    \/ \E t \in Thread : b \in Carried(t)

-----------------------------------------------------------------------------
Handover ==
    /\ HeapsHeld
    /\ SegmentsHeld
    /\ \A p \in Page : PageHeld(p) /\ Claimed(p) /\ Returns(p) /\ OutIsAway(p)
    /\ \A t \in Thread : AtWork(t) /\ FreerHeld(t) /\ TakenHeld(t)
    /\ \A h \in Heap : ListHeld(h)

\* The inductive invariant of the whole model.
FullInv == IInv /\ Handover
=============================================================================

------------------------------ MODULE HeapLife ------------------------------
(***************************************************************************)
(* The life of heaps and threads over ThreadFree: collecting a heap,       *)
(* creating and deleting heaps, the end of a thread, which abandons the    *)
(* pages that still hold blocks, and the reclaiming of abandoned segments  *)
(* by the threads that remain.  alloc_hook_heap_destroy is not modelled.   *)
(***************************************************************************)
EXTENDS ThreadFree

\* thread_init: the first allocation of a thread gives it its backing heap.
ThreadInit(t) ==
    /\ Starts(t, "malloc") /\ heapThread[Backing[t]] = NoThread
    /\ heapThread' = [heapThread EXCEPT ![Backing[t]] = t]
    /\ UNCHANGED <<page, delayed, threadId, abandoned, live, pc>>

HeapNew(t, h) ==
    /\ Starts(t, "new") /\ heapThread[Backing[t]] = t
    /\ heapThread[h] = NoThread /\ \A u \in Thread : Backing[u] # h
    /\ heapThread' = [heapThread EXCEPT ![h] = t]
    /\ UNCHANGED <<page, delayed, threadId, abandoned, live, pc>>

-----------------------------------------------------------------------------
(* heap_collect_ex.                                                        *)

\* heap_collect, forced or not.
HeapCollect(t, h, call) ==
    /\ call \in {"collect", "force"}
    /\ Starts(t, call) /\ heapThread[h] = t
    /\ Collect(t, h, call)
    /\ UNCHANGED <<page, heapThread, threadId, abandoned, live>>

\* thread_done, once the thread's other heaps are deleted: abandon the backing
\* heap.  The main thread keeps its heap.
ThreadDone(t) ==
    /\ Starts(t, "done") /\ t # Main /\ heapThread[Backing[t]] = t
    /\ \A h \in Heap : heapThread[h] = t => h = Backing[t]
    /\ pc' = [pc EXCEPT ![t] = [Idle EXCEPT !.at = "never", !.op = "done",
                                            !.heap = Backing[t],
                                            !.todo = Pages(Backing[t])]]
    /\ UNCHANGED <<page, delayed, heapThread, threadId, abandoned, live>>

\* abandoned_reclaim_all saw an empty list -- as it also does while another
\* thread moves the visited list over.
AllReclaimed(t) ==
    /\ pc[t].at = "all"
    /\ TakeDelayed(t, pc[t].heap, pc[t].op)
    /\ UNCHANGED <<page, heapThread, threadId, abandoned, live>>

\* Mutant of NeverDelayed: it does not wait for DELAYED_FREEING to end.
NeverDelayedAtOnce(t, p) ==
    /\ pc[t].at = "never" /\ p \in pc[t].todo
    /\ page' = [page EXCEPT ![p].flag = "never"]
    /\ pc' = [pc EXCEPT ![t].todo = @ \ {p}]
    /\ UNCHANGED <<delayed, heapThread, threadId, abandoned, live>>

\* heap_page_never_delayed_free: wait until nobody is DELAYED_FREEING.
NeverDelayed(t, p) ==
    /\ pc[t].at = "never" /\ p \in pc[t].todo
    /\ page[p].flag # "freeing"
    /\ page' = [page EXCEPT ![p].flag = "never"]
    /\ pc' = [pc EXCEPT ![t].todo = @ \ {p}]
    /\ UNCHANGED <<delayed, heapThread, threadId, abandoned, live>>

NeverDone(t) ==
    /\ pc[t].at = "never" /\ pc[t].todo = {}
    /\ TakeDelayed(t, pc[t].heap, "done")
    /\ UNCHANGED <<page, heapThread, threadId, abandoned, live>>

\* heap_page_collect: free the page, or abandon it at the end of the thread.
PageCollect(t, p) ==
    /\ pc[t].at = "pages" /\ p \in pc[t].todo
    /\ LET pg == Collected(page[p], pc[t].op # "collect")
       IN  Settle(p, IF pg.used = 0 THEN Unused
                     ELSE IF pc[t].op = "done"
                       THEN [pg EXCEPT !.xheap = NoHeap, !.in_full = FALSE]
                     ELSE pg)
    /\ pc' = [pc EXCEPT ![t].todo = @ \ {p}]
    /\ UNCHANGED <<delayed, heapThread, live>>

PagesDone(t) ==
    /\ pc[t].at = "pages" /\ pc[t].todo = {}
    /\ pc' = [pc EXCEPT ![t].at = "abandoned"]
    /\ UNCHANGED <<page, delayed, heapThread, threadId, abandoned, live>>

\* abandoned_collect has looked at enough segments; the collection is over.
CollectDone(t) ==
    /\ pc[t].at = "abandoned"
    /\ \/ pc[t].op = "done" /\ DropHeap(t, pc[t].heap)
       \/ /\ pc[t].op = "recollect"
          /\ pc' = [pc EXCEPT ![t].at = "find", ![t].op = "retry"]
          /\ UNCHANGED <<delayed, heapThread>>
       \/ /\ pc[t].op \in {"collect", "force"}
          /\ pc' = [pc EXCEPT ![t] = Idle]
          /\ UNCHANGED <<delayed, heapThread>>
    /\ UNCHANGED <<page, threadId, abandoned, live>>

-----------------------------------------------------------------------------
(* Abandoned segments: segment_try_reclaim when a search finds no page,      *)
(* abandoned_collect at the end of a collection, abandoned_reclaim_all.     *)

\* The thread's own segments have no page left for a search.
Exhausted(t) == Searching(t) /\ Queue(pc[t].heap) = {}
    /\ \A p \in Page : InUse(page[p]) \/ threadId[SegmentOf[p]] # t

\* abandoned_pop: the pages will be looked at, unless all is reclaimed anyway.
PopAbandoned(t, s) ==
    /\ pc[t].at \in {"abandoned", "all"} \/ Exhausted(t)
    /\ s \in abandoned
    /\ abandoned' = abandoned \ {s}
    /\ pc' = [pc EXCEPT ![t].at = "check", ![t].seg = s,
                        ![t].todo = IF pc[t].at = "all" THEN {}
                                    ELSE UsedPages(page, s)]
    /\ UNCHANGED <<page, delayed, heapThread, threadId, live>>

\* segment_check_free, one page: collect it, free it when it is empty.
CheckFree(t, p) ==
    /\ pc[t].at = "check" /\ p \in pc[t].todo
    /\ LET pg == Collected(page[p], FALSE)
       IN  page' = [page EXCEPT ![p] = IF pg.used = 0 THEN Unused ELSE pg]
    /\ pc' = [pc EXCEPT ![t].todo = @ \ {p}]
    /\ UNCHANGED <<delayed, heapThread, threadId, abandoned, live>>

\* Where the thread c was when it popped the segment.
Resume(c) == IF c.op \in {"malloc", "retry"} THEN "find"
             ELSE IF c.again THEN "all" ELSE "abandoned"

\* A search can use the segment: it has a free span or a page with free blocks.
HasPage(s) == \E p \in Page : SegmentOf[p] = s
    /\ (~InUse(page[p]) \/ page[p].used < Cardinality(BlocksOf(p)))

\* Mutant of Claim: the segment keeps thread_id 0.
ClaimUnowned(t) ==
    /\ pc[t].at = "check" /\ pc[t].todo = {}
    /\ UsedPages(page, pc[t].seg) = {} \/ Resume(pc[t]) # "abandoned"
    /\ pc' = [pc EXCEPT ![t].at = "reclaim",
                        ![t].todo = UsedPages(page, pc[t].seg)]
    /\ UNCHANGED <<page, delayed, heapThread, threadId, abandoned, live>>

\* Take the segment over: always when it is empty or a search can use it, and
\* after some visits of a search that cannot.
Claim(t) ==
    /\ pc[t].at = "check" /\ pc[t].todo = {}
    /\ UsedPages(page, pc[t].seg) = {} \/ Resume(pc[t]) # "abandoned"
    /\ threadId' = [threadId EXCEPT ![pc[t].seg] = t]
    /\ pc' = [pc EXCEPT ![t].at = "reclaim",
                        ![t].todo = UsedPages(page, pc[t].seg)]
    /\ UNCHANGED <<page, delayed, heapThread, abandoned, live>>

\* Or put it on the visited list.
PushVisited(t) ==
    /\ pc[t].at = "check" /\ pc[t].todo = {}
    /\ UsedPages(page, pc[t].seg) # {}
    /\ \/ Resume(pc[t]) = "abandoned"
       \/ Resume(pc[t]) = "find" /\ ~HasPage(pc[t].seg)
    /\ abandoned' = abandoned \cup {pc[t].seg}
    /\ pc' = [pc EXCEPT ![t].at = Resume(pc[t]), ![t].seg = NoSegment]
    /\ UNCHANGED <<page, delayed, heapThread, threadId, live>>

\* segment_reclaim, one page: set its heap, ...
SetHeap(t, p) ==
    /\ pc[t].at = "reclaim" /\ p \in pc[t].todo
    /\ page' = [page EXCEPT ![p].xheap = pc[t].heap]
    /\ pc' = [pc EXCEPT ![t].at = "allow", ![t].page = p, ![t].todo = @ \ {p}]
    /\ UNCHANGED <<delayed, heapThread, threadId, abandoned, live>>

\* ... allow delayed frees, even on a page marked never, ...
AllowDelayed(t) ==
    /\ pc[t].at = "allow" /\ page[pc[t].page].flag # "freeing"
    /\ page' = [page EXCEPT ![pc[t].page].flag = "use"]
    /\ pc' = [pc EXCEPT ![t].at = "gather"]
    /\ UNCHANGED <<delayed, heapThread, threadId, abandoned, live>>

\* ... collect, and free the page or push it on the heap's queue.
GatherPage(t) ==
    /\ pc[t].at = "gather"
    /\ LET p  == pc[t].page
           pg == Collected(page[p], FALSE)
       IN  page' = [page EXCEPT ![p] =
               IF pg.used = 0 THEN Unused ELSE [pg EXCEPT !.in_full = FALSE]]
    /\ pc' = [pc EXCEPT ![t].at = "reclaim", ![t].page = NoPage]
    /\ UNCHANGED <<delayed, heapThread, threadId, abandoned, live>>

ReclaimDone(t) ==
    /\ pc[t].at = "reclaim" /\ pc[t].todo = {}
    /\ LET s == pc[t].seg
       IN  threadId' = IF UsedPages(page, s) = {}
                         THEN [threadId EXCEPT ![s] = NoThread] ELSE threadId
    /\ pc' = [pc EXCEPT ![t].at = Resume(pc[t]), ![t].seg = NoSegment]
    /\ UNCHANGED <<page, delayed, heapThread, abandoned, live>>

-----------------------------------------------------------------------------
(* heap_delete of a heap that is not the backing heap: heap_absorb.        *)

HeapDelete(t, h) ==
    /\ Starts(t, "delete") /\ heapThread[h] = t /\ h # Backing[t]
    /\ \/ Pages(h) # {} /\ TakeDelayed(t, h, "delete") /\ UNCHANGED heapThread
       \/ Pages(h) = {} /\ DropHeap(t, h)
    /\ UNCHANGED <<page, threadId, abandoned, live>>

\* page_queue_append, one page: point it to the backing heap, ...
AppendPage(t, p) ==
    /\ pc[t].at = "append" /\ p \in pc[t].todo
    /\ page' = [page EXCEPT ![p].xheap = Backing[t]]
    /\ pc' = [pc EXCEPT ![t].at = "spin", ![t].page = p, ![t].todo = @ \ {p}]
    /\ UNCHANGED <<delayed, heapThread, threadId, abandoned, live>>

\* Mutant of AppendSpin: it does not wait.
AppendAtOnce(t) ==
    /\ pc[t].at = "spin"
    /\ page' = [page EXCEPT ![pc[t].page] = UsingDelayed(@)]
    /\ pc' = [pc EXCEPT ![t].at = "append", ![t].page = NoPage]
    /\ UNCHANGED <<delayed, heapThread, threadId, abandoned, live>>

\* ... and wait for a thread that may still be freeing to the old one.
AppendSpin(t) ==
    /\ pc[t].at = "spin" /\ page[pc[t].page].flag # "freeing"
    /\ page' = [page EXCEPT ![pc[t].page] = UsingDelayed(@)]
    /\ pc' = [pc EXCEPT ![t].at = "append", ![t].page = NoPage]
    /\ UNCHANGED <<delayed, heapThread, threadId, abandoned, live>>

\* Mutant of AppendDone: the list is not emptied a second time.
AppendDoneAtOnce(t) ==
    /\ pc[t].at = "append" /\ pc[t].todo = {}
    /\ DropHeap(t, pc[t].heap)
    /\ UNCHANGED <<page, threadId, abandoned, live>>

AppendDone(t) ==
    /\ pc[t].at = "append" /\ pc[t].todo = {}
    /\ TakeDelayed(t, pc[t].heap, "absorb")
    /\ UNCHANGED <<page, heapThread, threadId, abandoned, live>>

-----------------------------------------------------------------------------
Call(t) ==
    \/ ThreadInit(t) \/ ThreadDone(t)
    \/ \E p \in Page, b \in Block : Malloc(t, p, b)
    \/ \E b \in Block : FreeOwned(t, b) \/ FreeMt(t, b)
    \/ \E h \in Heap : \/ MallocGeneric(t, h) \/ HeapNew(t, h)
                       \/ HeapDelete(t, h)
                       \/ \E call \in Calls[t] : HeapCollect(t, h, call)

Step(t) ==
    \/ LoadHeap(t) \/ PushDelayed(t) \/ ResetFlag(t)
    \/ \E b \in Block : Reinsert(t, b) \/ TryUse(t, b)
    \/ FreeDelayed(t) \/ DelayedDone(t)
    \/ \E p \in Page : \/ FindPage(t, p) \/ FindExtend(t, p) \/ FindFresh(t, p)
                       \/ NeverDelayed(t, p) \/ PageCollect(t, p)
                       \/ CheckFree(t, p) \/ SetHeap(t, p) \/ AppendPage(t, p)
    \/ ToFull(t) \/ FindFails(t) \/ NeverDone(t) \/ PagesDone(t)
    \/ AllReclaimed(t) \/ CollectDone(t) \/ Claim(t) \/ PushVisited(t)
    \/ AllowDelayed(t)
    \/ GatherPage(t) \/ ReclaimDone(t) \/ AppendSpin(t) \/ AppendDone(t)
    \/ \E s \in Segment : PopAbandoned(t, s)

Next == \E t \in Thread : Call(t) \/ Step(t)

Spec == Init /\ [][Next]_vars
=============================================================================

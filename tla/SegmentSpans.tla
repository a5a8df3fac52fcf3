---------------------------- MODULE SegmentSpans ----------------------------
(***************************************************************************)
(* Segments of alloc_hook_segment.c: spans of slices that are split and    *)
(* coalesced, pages in them, the commit and purge masks, and segments that *)
(* their thread abandons and another one reclaims.                         *)
(*                                                                         *)
(* What a thread does to its own segment is one step.  A walk over the     *)
(* slices of an abandoned segment is one step per slice, since blocks are  *)
(* freed by other threads in between.  What is in a page is ThreadFree's   *)
(* matter: here a page has live blocks or not.                             *)
(***************************************************************************)
EXTENDS Integers, FiniteSets

CONSTANTS
    Thread, NoThread,
    Ended,      \* the thread_id of a thread that has ended
    Segment,    \* the segment-sized pieces of memory
    NoSeg,      \* no segment
    Slices,     \* ALLOC_HOOK_SLICES_PER_SEGMENT
    Info,       \* segment_info_slices
    MaxOffset,  \* ALLOC_HOOK_MAX_SLICE_OFFSET
    Counts,     \* bound: the slices of pages in normal segments
    HugeCounts, \* bound: the slices of huge pages
    Options     \* the kinds of memory and the options, see Option

Option ==
    [pinned : BOOLEAN,      \* memid.is_pinned
     decommit : BOOLEAN,    \* _alloc_hook_os_purge decommits (or else resets)
     delay : {"never", "now", "later"}]     \* option purge_delay

ASSUME SegmentAssumption ==
    /\ NoThread \notin Thread /\ Ended \notin Thread \cup {NoThread}
    /\ Info \in Nat \ {0} /\ Slices \in Nat /\ Info < Slices /\ MaxOffset \in Nat
    /\ Counts \subseteq 1..(MaxOffset + 1) /\ \A n \in Counts : Info + n <= Slices
    /\ HugeCounts \subseteq Nat \ {0}
    /\ Options \subseteq Option

VARIABLES
    opt,    \* the kind of memory and the options
    seg,    \* the segments, see SegmentState
    spans,  \* tld->spans: each thread's free spans, as <<bin, segment, slice>>
    list,   \* the abandoned list
    pc      \* where each thread is

vars == <<opt, seg, spans, list, pc>>

Slice == 0..(Slices - 1)
Span(i, n) == i..(i + n - 1)

\* block is xblock_size: 0 for a free span, 1 for no head of a page, 2 for more.
\* Offsets count slices.  There is one entry more than slices.
SliceState == [count : Nat, offset : 0..Slices, block : 0..2]
ZeroSlice == [count |-> 0, offset |-> 0, block |-> 0]

\* live: the heads of pages with blocks in use.  heap: those of pages that are
\* in a queue of a heap.  os: the slices that the OS has committed.
SegmentState ==
    [kind : {"none", "normal", "huge"}, slices : [0..Slices -> SliceState],
     entries : 0..Slices, total : Nat, owner : Thread \cup {NoThread, Ended},
     used : Nat, abandoned : Nat, commit : SUBSET Slice, purge : SUBSET Slice,
     expire : BOOLEAN, os : SUBSET Slice, live : SUBSET Slice, heap : SUBSET Slice]

NoSegment ==
    [kind |-> "none", slices |-> [i \in 0..Slices |-> ZeroSlice], entries |-> 0,
     total |-> 0, owner |-> NoThread, used |-> 0, abandoned |-> 0, commit |-> {},
     purge |-> {}, expire |-> FALSE, os |-> {}, live |-> {}, heap |-> {}]

\* n: slices_needed, 0 in a collection.  s, i: the segment and the slice a walk
\* is at.  has: has_page, or right_page_reclaimed.  stop: what is reclaimed is
\* returned.
Label == {"idle", "find", "try", "check", "reclaim", "segment", "exit"}
Control ==
    [at : Label, n : Nat, s : Segment \cup {NoSeg}, i : Nat, has : BOOLEAN,
     stop : BOOLEAN]

Idle == [at |-> "idle", n |-> 0, s |-> NoSeg, i |-> 0,
         has |-> FALSE, stop |-> FALSE]

\* alloc_hook_slice_bin8
Bsr(n) == CHOOSE b \in 0..n : 2^b <= n /\ n < 2^(b + 1)
Bin(n) ==
    IF n <= 1 THEN n
    ELSE LET m == n - 1
             b == Bsr(m)
         IN  IF b <= 2 THEN m + 1 ELSE 4 * b + ((m \div 2^(b - 2)) % 4) - 4

TypeOK ==
    /\ opt \in Options
    /\ seg \in [Segment -> SegmentState]
    /\ spans \in [Thread -> SUBSET ({Bin(n) : n \in 1..Slices} \X Segment \X Slice)]
    /\ list \subseteq Segment
    /\ pc \in [Thread -> Control]

Init ==
    /\ opt \in Options
    /\ seg = [s \in Segment |-> NoSegment]
    /\ spans = [t \in Thread |-> {}]
    /\ list = {}
    /\ pc = [t \in Thread |-> Idle]

GoTo(t, at) == pc' = [pc EXCEPT ![t].at = at]

-----------------------------------------------------------------------------
(* Commit and purge masks.  g is the state of a segment.                   *)

AllowPurge == ~opt.pinned /\ opt.delay # "never"

\* Mutant of Committed: delayed purges stay.
CommittedStillPurged(g, m) == [g EXCEPT !.commit = @ \cup m, !.os = @ \cup m]

\* alloc_hook_segment_commit of the slices m, which takes them from the delayed
\* purges.  It can only fail if a slice is not committed.
Committed(g, m) ==
    [g EXCEPT !.commit = @ \cup m, !.os = @ \cup m, !.purge = @ \ m,
              !.expire = @ \/ g.purge \cap m # {}]

\* alloc_hook_segment_purge
Purged(g, m) ==
    LET decommit == opt.decommit /\ m \cap g.commit # {}
    IN  [g EXCEPT !.purge = @ \ m,
                  !.commit = IF decommit THEN @ \ m ELSE @,
                  !.os = IF decommit THEN @ \ m ELSE @]

\* alloc_hook_segment_try_purge when it is forced or the time has come.
TryPurged(g) ==
    IF AllowPurge /\ g.purge # {}
      THEN Purged([g EXCEPT !.expire = FALSE, !.purge = {}], g.purge)
      ELSE g

\* alloc_hook_segment_schedule_purge; late: the last purge should have been long
\* ago.
Scheduled(g, m, late) ==
    IF ~AllowPurge THEN g
    ELSE IF opt.delay = "now" THEN Purged(g, m)
    ELSE LET h == [g EXCEPT !.purge = @ \cup (m \cap g.commit), !.expire = TRUE]
         IN  IF g.expire /\ late THEN TryPurged(h) ELSE h

-----------------------------------------------------------------------------
(* Spans.  x is [g |-> the state of segment s, q |-> a thread's spans].    *)

IsFree(g, i) == g.slices[i].block = 0
Entry(s, g, i) == <<Bin(g.slices[i].count), s, i>>

\* Mutant of Dequeued: the span is marked, but stays in its queue.
DequeuedNot(s, x, i) == [g |-> [x.g EXCEPT !.slices[i].block = 1], q |-> x.q]

\* alloc_hook_span_queue_delete of the span at i, from the queue for its size.
Dequeued(s, x, i) ==
    [g |-> [x.g EXCEPT !.slices[i].block = 1], q |-> x.q \ {Entry(s, x.g, i)}]

\* alloc_hook_segment_span_free without the purge: the first and the last slice
\* are set, and the span is queued unless the segment is abandoned.
SpanFree(s, x, i, n) ==
    LET g == [x.g EXCEPT !.slices = [j \in 0..Slices |->
                  IF j = i THEN [count |-> n, offset |-> 0, block |-> 0]
                  ELSE IF j = i + n - 1 THEN [count |-> 0, offset |-> n - 1, block |-> 0]
                  ELSE @[j]]]
    IN  [g |-> g,
         q |-> IF g.owner = NoThread THEN x.q ELSE x.q \cup {Entry(s, g, i)}]

\* alloc_hook_slice_first
First(g, i) == i - g.slices[i].offset

\* Mutant of Neighbours: the span before is not looked at.
NeighboursAfter(g, i) ==
    {j \in {i + g.slices[i].count} : j < g.entries /\ IsFree(g, j)}

\* The free spans next to the one at i.
Neighbours(g, i) ==
    {j \in {i + g.slices[i].count} : j < g.entries /\ IsFree(g, j)}
        \cup {j \in {First(g, k) : k \in Slice \cap {i - 1}} : IsFree(g, j)}

\* alloc_hook_segment_span_free_coalesce: the span at i and its free neighbours,
\* which leave their queues, become one that is scheduled for a purge.  A huge
\* page is only marked.
Coalesced(s, x, i, late) ==
    IF x.g.kind = "huge"
      THEN [g |-> [x.g EXCEPT !.slices[i].block = 0], q |-> x.q, first |-> i]
      ELSE
        LET near  == Neighbours(x.g, i)
            first == CHOOSE j \in near \cup {i} : \A k \in near \cup {i} : j <= k
            last  == CHOOSE j \in near \cup {i} : \A k \in near \cup {i} : k <= j
            n     == last + x.g.slices[last].count - first
            y     == IF x.g.owner = NoThread THEN x
                     ELSE [g |-> [x.g EXCEPT !.slices = [j \in 0..Slices |->
                                     IF j \in near THEN [@[j] EXCEPT !.block = 1] ELSE @[j]]],
                           q |-> x.q \ {Entry(s, x.g, j) : j \in near}]
            z     == SpanFree(s, y, first, n)
        IN  [g |-> Scheduled(z.g, Span(first, n), late), q |-> z.q, first |-> first]

\* alloc_hook_segment_span_allocate after the commit: the first MaxOffset slices
\* and the last one get their way back to the head; a huge page may have more
\* slices than there are entries.
SpanAllocated(g, i, n) ==
    LET extra == CHOOSE k \in 0..MaxOffset :
                    k <= n - 1 /\ i + k < g.entries
                        /\ (k = n - 1 \/ k = MaxOffset \/ i + k + 1 = g.entries)
        last  == IF i + n - 1 > g.entries THEN g.entries ELSE i + n - 1
    IN  [g EXCEPT !.used = @ + 1,
                  !.slices = [j \in 0..Slices |->
                      IF j = i THEN [count |-> n, offset |-> 0, block |-> 2]
                      ELSE IF j \in Span(i + 1, extra) \cup {last}
                        THEN [count |-> 0, offset |-> j - i, block |-> 1]
                      ELSE @[j]]]

\* Mutant of Split: the left-over span is not queued for its own size.
SplitSameBin(s, x, i, n) ==
    LET m == x.g.slices[i].count
        y == SpanFree(s, x, i + n, m - n)
    IN  IF m = n THEN x
        ELSE [g |-> [y.g EXCEPT !.slices[i].count = n],
              q |-> x.q \cup {<<Bin(m), s, i + n>>}]

\* alloc_hook_segment_slice_split: the left-over part is not purged.
Split(s, x, i, n) ==
    LET m == x.g.slices[i].count
        y == SpanFree(s, x, i + n, m - n)
    IN  IF m = n THEN x
        ELSE [g |-> [y.g EXCEPT !.slices[i].count = n], q |-> y.q]

\* alloc_hook_segment_page_clear of the page at i.
PageClear(s, x, i, late) ==
    Coalesced(s, [g |-> [x.g EXCEPT !.slices[i].block = 1, !.heap = @ \ {i},
                                    !.used = @ - 1],
                  q |-> x.q], i, late)

\* The heads of the spans, from the first slice on.
Heads(g) ==
    LET from[i \in Nat] ==
            IF i >= g.entries THEN {}
            ELSE {i} \cup (IF g.slices[i].count = 0 THEN {} ELSE from[i + g.slices[i].count])
    IN  from[0]

\* The queue entries of the free spans of a segment.
Entries(s, g) == {Entry(s, g, i) : i \in {j \in Heads(g) : IsFree(g, j)}}

\* alloc_hook_segment_free
SegmentFreed(s, x) ==
    [g |-> NoSegment, q |-> IF x.g.kind = "huge" THEN x.q ELSE x.q \ Entries(s, x.g)]

\* alloc_hook_segment_abandon: the free spans leave the queues.  A purge may be
\* forced or due.
SegmentAbandoned(s, x, purge) ==
    LET g == [x.g EXCEPT !.owner = NoThread]
    IN  [g |-> IF purge THEN TryPurged(g) ELSE g, q |-> x.q \ Entries(s, x.g)]

\* t's step makes x of segment s.
Becomes(t, s, x) ==
    /\ seg' = [seg EXCEPT ![s] = x.g]
    /\ spans' = [spans EXCEPT ![t] = x.q]

At(t, s) == [g |-> seg[s], q |-> spans[t]]

-----------------------------------------------------------------------------
(* Allocation and free of pages.                                           *)

\* alloc_hook_segments_page_alloc
PageAlloc(t, n) ==
    /\ pc[t] = Idle
    /\ pc' = [pc EXCEPT ![t].at = "find", ![t].n = n]
    /\ UNCHANGED <<opt, seg, spans, list>>

\* The spans that alloc_hook_segments_page_find_and_allocate may take: the first
\* that is large enough in the first queue that has one.  (The order in a queue
\* is left open.)
Fits(t, n) == {e \in spans[t] : e[1] >= Bin(n) /\ seg[e[2]].slices[e[3]].count >= n}
Candidates(t, n) == {e \in Fits(t, n) : \A d \in Fits(t, n) : e[1] <= d[1]}

\* A page is made of a span, what is left over goes back to the queues.  If the
\* commit fails the span is restored.
Find(t) ==
    /\ pc[t].at = "find"
    /\ \E e \in Candidates(t, pc[t].n), due \in BOOLEAN :
        LET s == e[2]
            i == e[3]
            n == pc[t].n
            x == Split(s, Dequeued(s, At(t, s), i), i, n)
        IN  \/ LET g == SpanAllocated(Committed(x.g, Span(i, n)), i, n)
                   h == [g EXCEPT !.live = @ \cup {i}, !.heap = @ \cup {i}]
               IN  /\ Becomes(t, s, [g |-> IF due THEN TryPurged(h) ELSE h, q |-> x.q])
                   /\ pc' = [pc EXCEPT ![t] = Idle]
            \/ /\ ~(Span(i, n) \subseteq seg[s].commit)
               /\ Becomes(t, s, Coalesced(s, x, i, due))
               /\ GoTo(t, "try")
    /\ UNCHANGED <<opt, list>>

FindFails(t) ==
    /\ pc[t].at = "find" /\ Candidates(t, pc[t].n) = {}
    /\ GoTo(t, "try")
    /\ UNCHANGED <<opt, seg, spans, list>>

\* alloc_hook_segment_os_alloc and the fields of a new segment: the info slices
\* are committed and are a page of their own, which does not count.
NewSegment(t, kind, total, committed) ==
    LET entries == IF total > Slices THEN Slices ELSE total
        commit  == IF committed THEN Slice ELSE 0..(Info - 1)
        g       == [NoSegment EXCEPT !.kind = kind, !.entries = entries, !.total = total,
                                     !.owner = t, !.commit = commit, !.os = commit]
    IN  [SpanAllocated(g, 0, Info) EXCEPT !.used = 0]

\* alloc_hook_segment_alloc of a normal segment; there may be no memory.
SegmentAlloc(t) ==
    /\ pc[t].at \in {"try", "segment"} /\ pc[t].n > 0
    /\ \/ /\ \E s \in Segment, committed \in BOOLEAN :
              /\ seg[s].kind = "none"
              /\ opt.pinned => committed
              /\ Becomes(t, s, SpanFree(s, [g |-> NewSegment(t, "normal", Slices, committed),
                                            q |-> spans[t]], Info, Slices - Info))
          /\ GoTo(t, "find")
       \/ /\ pc' = [pc EXCEPT ![t] = Idle]
          /\ UNCHANGED <<seg, spans>>
    /\ UNCHANGED <<opt, list>>

\* alloc_hook_segment_huge_page_alloc: the arena is asked for committed memory, but
\* if its commit fails the memory comes without (arena.c:257), and the commit of a
\* huge page does nothing (segment.c:417).
HugeAlloc(t, s, n) ==
    /\ pc[t] = Idle /\ seg[s].kind = "none"
    /\ \E committed \in BOOLEAN :
        /\ opt.pinned => committed
        /\ LET g == SpanAllocated(NewSegment(t, "huge", Info + n, committed), Info, n)
           IN  seg' = [seg EXCEPT ![s] = [g EXCEPT !.live = {Info}, !.heap = {Info}]]
    /\ UNCHANGED <<opt, spans, list, pc>>

\* The program frees the last block of a page, in any thread.
FreeBlocks(s, i) ==
    /\ i \in seg[s].live
    /\ seg' = [seg EXCEPT ![s].live = @ \ {i}]
    /\ UNCHANGED <<opt, spans, list, pc>>

\* The owner allocates in a page that had no more live blocks.
Reuse(t, s, i) ==
    /\ pc[t] = Idle /\ seg[s].owner = t /\ i \in seg[s].heap \ seg[s].live
    /\ seg' = [seg EXCEPT ![s].live = @ \cup {i}]
    /\ UNCHANGED <<opt, spans, list, pc>>

\* Mutant of Settled: a segment is abandoned when one of its pages is.
SettledEarly(t, s, x, purge) ==
    IF x.g.used = 0
      THEN Becomes(t, s, SegmentFreed(s, x)) /\ UNCHANGED list
    ELSE IF x.g.abandoned > 0
      THEN Becomes(t, s, SegmentAbandoned(s, x, purge)) /\ list' = list \cup {s}
    ELSE Becomes(t, s, x) /\ UNCHANGED list

\* After a page is free or abandoned: are there others in the segment?
Settled(t, s, x, purge) ==
    IF x.g.used = 0
      THEN Becomes(t, s, SegmentFreed(s, x)) /\ UNCHANGED list
    ELSE IF x.g.used = x.g.abandoned
      THEN Becomes(t, s, SegmentAbandoned(s, x, purge)) /\ list' = list \cup {s}
    ELSE Becomes(t, s, x) /\ UNCHANGED list

\* _alloc_hook_segment_page_free
PageFree(t, s, i) ==
    /\ pc[t].at \in {"idle", "exit"}
    /\ seg[s].owner = t /\ i \in seg[s].heap \ seg[s].live
    /\ \E late, purge \in BOOLEAN :
        Settled(t, s, PageClear(s, At(t, s), i, late), purge)
    /\ UNCHANGED <<opt, pc>>

-----------------------------------------------------------------------------
(* Abandoned segments.                                                     *)

Exit(t) ==
    /\ pc[t] = Idle
    /\ GoTo(t, "exit")
    /\ UNCHANGED <<opt, seg, spans, list>>

\* _alloc_hook_segment_page_abandon
PageAbandon(t, s, i) ==
    /\ pc[t].at = "exit"
    /\ seg[s].owner = t /\ i \in seg[s].heap \cap seg[s].live
    /\ \E purge \in BOOLEAN :
        Settled(t, s, [g |-> [seg[s] EXCEPT !.heap = @ \ {i}, !.abandoned = @ + 1],
                       q |-> spans[t]], purge)
    /\ UNCHANGED <<opt, pc>>

\* No page is left and the thread data is freed (_alloc_hook_heap_done); t is
\* another thread from now on, that begins with empty queues.
Exited(t) ==
    /\ pc[t].at = "exit"
    /\ \A s \in Segment : seg[s].owner = t => seg[s].heap = {}
    /\ seg' = [s \in Segment |-> [seg[s] EXCEPT !.owner = IF @ = t THEN Ended ELSE @]]
    /\ spans' = [spans EXCEPT ![t] = {}]
    /\ pc' = [pc EXCEPT ![t] = Idle]
    /\ UNCHANGED <<opt, list>>

\* _alloc_hook_abandoned_collect
Collect(t) ==
    /\ pc[t] = Idle
    /\ GoTo(t, "try")
    /\ UNCHANGED <<opt, seg, spans, list>>

CollectDone(t) ==
    /\ pc[t].at = "try" /\ pc[t].n = 0
    /\ pc' = [pc EXCEPT ![t] = Idle]
    /\ UNCHANGED <<opt, seg, spans, list>>

\* alloc_hook_slices_start_iterate: behind the info slices.
Start(s) == seg[s].slices[0].count

Pop(t) ==
    /\ pc[t].at = "try"
    /\ \E s \in list :
        /\ list' = list \ {s}
        /\ pc' = [pc EXCEPT ![t].at = "check", ![t].s = s, ![t].i = Start(s),
                            ![t].has = FALSE, ![t].stop = FALSE]
    /\ UNCHANGED <<opt, seg, spans>>

\* On to the slice behind the span that begins at first.
Onward(t, g, first, has) ==
    pc' = [pc EXCEPT ![t].i = first + g.slices[first].count, ![t].has = @ \/ has]

\* A slice of alloc_hook_segment_check_free: a page without live blocks is freed;
\* a free span may be large enough, a page may have room for the block.
CheckSlice(t) ==
    /\ pc[t].at = "check" /\ pc[t].i < seg[pc[t].s].entries
    /\ LET s == pc[t].s
           i == pc[t].i
           g == seg[s]
       IN  \/ /\ ~IsFree(g, i) /\ i \notin g.live
              /\ \E late \in BOOLEAN :
                  LET x == PageClear(s, [g |-> [g EXCEPT !.abandoned = @ - 1],
                                         q |-> spans[t]], i, late)
                  IN  /\ Becomes(t, s, x)
                      /\ Onward(t, x.g, x.first, x.g.slices[x.first].count >= pc[t].n)
           \/ /\ ~IsFree(g, i) /\ i \in g.live
              /\ \E room \in BOOLEAN : Onward(t, g, i, room /\ pc[t].n > 0)
              /\ UNCHANGED <<seg, spans>>
           \/ /\ IsFree(g, i)
              /\ Onward(t, g, i, g.slices[i].count >= pc[t].n)
              /\ UNCHANGED <<seg, spans>>
    /\ UNCHANGED <<opt, list>>

\* alloc_hook_segment_reclaim begins: the segment is t's.
Reclaim(t, stop) ==
    /\ seg' = [seg EXCEPT ![pc[t].s].owner = t]
    /\ pc' = [pc EXCEPT ![t].at = "reclaim", ![t].i = Start(pc[t].s),
                        ![t].has = FALSE, ![t].stop = stop]
    /\ UNCHANGED <<opt, spans, list>>

\* What alloc_hook_segment_try_reclaim and _alloc_hook_abandoned_collect do with a
\* segment they have checked: one without pages is reclaimed, to be freed; an
\* allocation takes one that has what it needs, or that was visited often; others
\* go back on the list, purged unless by a collection.
Checked(t) ==
    /\ pc[t].at = "check" /\ pc[t].i >= seg[pc[t].s].entries
    /\ LET s == pc[t].s
       IN  \/ seg[s].used = 0 /\ Reclaim(t, FALSE)
           \/ seg[s].used > 0 /\ pc[t].n > 0 /\ Reclaim(t, pc[t].has)
           \/ /\ seg[s].used > 0
              /\ \E purge \in BOOLEAN :
                  /\ pc[t].n > 0 => purge
                  /\ seg' = [seg EXCEPT ![s] = IF purge THEN TryPurged(@) ELSE @]
              /\ list' = list \cup {s}
              /\ pc' = [pc EXCEPT ![t] = [Idle EXCEPT !.at = "try", !.n = pc[t].n]]
              /\ UNCHANGED <<opt, spans>>

\* A slice of alloc_hook_segment_reclaim: a page becomes one of t's heap, or is
\* freed if its blocks are by now; a free span is queued.
ReclaimSlice(t) ==
    /\ pc[t].at = "reclaim" /\ pc[t].i < seg[pc[t].s].entries
    /\ LET s == pc[t].s
           i == pc[t].i
           g == seg[s]
       IN  \/ /\ ~IsFree(g, i) /\ i \notin g.live
              /\ \E late \in BOOLEAN :
                  LET x == PageClear(s, [g |-> [g EXCEPT !.abandoned = @ - 1],
                                         q |-> spans[t]], i, late)
                  IN  Becomes(t, s, x) /\ Onward(t, x.g, x.first, FALSE)
           \/ /\ ~IsFree(g, i) /\ i \in g.live
              /\ seg' = [seg EXCEPT ![s].abandoned = @ - 1, ![s].heap = @ \cup {i}]
              /\ \E right \in BOOLEAN : Onward(t, g, i, right /\ pc[t].stop)
              /\ UNCHANGED spans
           \/ /\ IsFree(g, i)
              /\ \E late \in BOOLEAN :
                  LET x == Coalesced(s, At(t, s), i, late)
                  IN  Becomes(t, s, x) /\ Onward(t, x.g, x.first, FALSE)
    /\ UNCHANGED <<opt, list>>

\* The end of a reclaim, and back to what it was for: the search goes on, a page
\* of the right size was found, the segment has room, or it is no more.
Reclaimed(t) ==
    /\ pc[t].at = "reclaim" /\ pc[t].i >= seg[pc[t].s].entries
    /\ LET s    == pc[t].s
           back == [Idle EXCEPT !.n = pc[t].n]
       IN  IF seg[s].used = 0
             THEN /\ Becomes(t, s, SegmentFreed(s, At(t, s)))
                  /\ pc' = [pc EXCEPT ![t] =
                        [back EXCEPT !.at = IF pc[t].stop THEN "segment" ELSE "try"]]
             ELSE /\ pc' = [pc EXCEPT ![t] =
                        IF ~pc[t].stop THEN [back EXCEPT !.at = "try"]
                        ELSE IF pc[t].has THEN Idle
                        ELSE [back EXCEPT !.at = "find"]]
                  /\ UNCHANGED <<seg, spans>>
    /\ UNCHANGED <<opt, list>>

-----------------------------------------------------------------------------
Step(t) ==
    \/ \E n \in Counts : PageAlloc(t, n)
    \/ Find(t) \/ FindFails(t) \/ SegmentAlloc(t)
    \/ \E s \in Segment, n \in HugeCounts : HugeAlloc(t, s, n)
    \/ \E s \in Segment, i \in Slice :
        Reuse(t, s, i) \/ PageFree(t, s, i) \/ PageAbandon(t, s, i)
    \/ Exit(t) \/ Exited(t) \/ Collect(t) \/ CollectDone(t)
    \/ Pop(t) \/ CheckSlice(t) \/ Checked(t) \/ ReclaimSlice(t) \/ Reclaimed(t)

Next ==
    \/ \E t \in Thread : Step(t)
    \/ \E s \in Segment, i \in Slice : FreeBlocks(s, i)

Spec == Init /\ [][Next]_vars
=============================================================================

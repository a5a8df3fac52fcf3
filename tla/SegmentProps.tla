---------------------------- MODULE SegmentProps ----------------------------
(***************************************************************************)
(* What makes segments correct.                                            *)
(***************************************************************************)
EXTENDS SegmentSpans

Exists(s) == seg[s].kind # "none"

\* The heads of the pages of a segment, without its info slices.
Pages(g) == {i \in Heads(g) : i # 0 /\ ~IsFree(g, i)}

\* The slices of the span at i.
SpanOf(g, i) == Span(i, g.slices[i].count)

\* alloc_hook_segment_is_valid (segment.c:255-303): the spans follow each other
\* up to the last slice.  From each slice that the code may look at there is a
\* way back to the head: in a page from the first MaxOffset ones (where blocks
\* begin) and the last, in a free span from the last.
WaysBack(g, i) ==
    LET last == i + g.slices[i].count - 1
    IN  IF IsFree(g, i) THEN {last}
        ELSE {j \in Span(i, MaxOffset + 1) \cup {last} : j <= last /\ j < g.entries}

Follows(g, i) ==
    /\ g.slices[i].count > 0
    /\ i + g.slices[i].count <= g.entries \/ g.kind = "huge"
    /\ g.kind = "normal" \/ ~IsFree(g, i) => \A j \in WaysBack(g, i) : First(g, j) = i
SpansFollow(g) == \A i \in Heads(g) : Follows(g, i)

\* used and abandoned count pages (segment.c:301), and only pages have blocks.
PagesCounted(g) ==
    /\ g.used = Cardinality(Pages(g))
    /\ g.abandoned = Cardinality(Pages(g) \ g.heap)
    /\ g.heap \cup g.live \subseteq Pages(g)

\* Free spans are coalesced whatever the order in which pages are freed, by the
\* owner or while the segment was abandoned: a segment without pages has one
\* (segment.c:963 asserts it), and none has two next to each other.
SpansCoalesced(g) == g.kind = "normal" =>
    \A i, j \in Heads(g) : IsFree(g, i) /\ IsFree(g, j) => j # i + g.slices[i].count

\* A thread's queues have exactly the free spans of its segments, each in the
\* queue for its size: none of a segment that was freed or abandoned, and all that
\* a search should find.  While it reclaims a segment, those up to where it is.
Queued(t, s) == {e \in Entries(s, seg[s]) :
    pc[t].at = "reclaim" /\ pc[t].s = s => e[3] < pc[t].i}
QueuesExact == \A t \in Thread :
    spans[t] = UNION {Queued(t, s) :
        s \in {r \in Segment : seg[r].kind = "normal" /\ seg[r].owner = t}}

\* What alloc_hook_segment_is_valid asserts of a segment is so between all steps,
\* those of a walk over an abandoned segment too; and the queues agree with it.
SpansValid ==
    /\ TypeOK
    /\ \A s \in Segment : Exists(s) =>
        SpansFollow(seg[s]) /\ PagesCounted(seg[s]) /\ SpansCoalesced(seg[s])
    /\ QueuesExact

\* What a page of a normal segment has is committed, and no delayed purge will hit
\* it; so are the info slices.  Only committed slices wait for a purge, and then a
\* time is set (segment.c:260, 545).
MasksAgree(g) ==
    /\ g.purge \subseteq g.commit /\ g.commit \subseteq g.os
    /\ \A i \in IF g.kind = "normal" THEN Pages(g) \cup {0} ELSE {0} :
        Slice \cap SpanOf(g, i) \subseteq g.commit \ g.purge
    /\ g.purge # {} => g.expire
MasksValid == \A s \in Segment : Exists(s) => MasksAgree(seg[s])

\* A segment with pages is one thread's, or on the abandoned list, or with a
\* thread that checks it: never two of these, so that nobody else frees its
\* pages, and none of these never, so that it is not lost.  All pages of an
\* abandoned one are abandoned.  A thread that has ended leaves no pages.
Checkers(s) == {t \in Thread : pc[t].at = "check" /\ pc[t].s = s}
OneOwner == \A s \in Segment :
    /\ Exists(s) =>
        Cardinality(Checkers(s)) + (IF s \in list THEN 1 ELSE 0)
            + (IF seg[s].owner # NoThread THEN 1 ELSE 0) = 1
    /\ ~Exists(s) => s \notin list /\ Checkers(s) = {}
    /\ seg[s].owner = NoThread => seg[s].heap = {} /\ seg[s].used = seg[s].abandoned
    /\ seg[s].owner = Ended => seg[s].used = 0

-----------------------------------------------------------------------------
(* The inductive invariant.                                                *)

\* The spans that begin at the slices of H follow each other, and none begins
\* inside another.
Tiles(g, H) ==
    /\ 0 \in H /\ H \subseteq 0..(g.entries - 1)
    /\ \A i \in H :
        /\ g.slices[i].count > 0
        /\ i + g.slices[i].count \in H \/ i + g.slices[i].count >= g.entries
        /\ \A j \in H : j <= i \/ j >= i + g.slices[i].count

\* The spans of a segment, its info slices first.
Laid(g) ==
    /\ g \in SegmentState /\ g.kind # "none"
    /\ Info < g.entries /\ (g.kind = "normal" => g.entries = Slices)
    /\ Tiles(g, Heads(g))
    /\ g.slices[0].count = Info /\ ~IsFree(g, 0)
    /\ g.kind = "huge" => Heads(g) = {0, Info}
    /\ \A i \in Pages(g) : g.slices[i].count \in Counts \cup HugeCounts

Sound(g) ==
    Laid(g) /\ SpansFollow(g) /\ PagesCounted(g) /\ SpansCoalesced(g) /\ MasksAgree(g)

\* Who has a segment: its owner, the list or the thread that checks it.
Place(s) ==
    \/ seg[s].owner # NoThread /\ s \notin list /\ Checkers(s) = {}
    \/ seg[s].owner = NoThread /\ s \in list /\ Checkers(s) = {}
    \/ seg[s].owner = NoThread /\ s \notin list /\ \E t \in Thread : Checkers(s) = {t}

\* A walk is at a span behind the info slices or at the end.  Of a segment that is
\* being reclaimed, the pages before are in a heap and those behind not yet.
Walks(t) == pc[t].at \in {"check", "reclaim"} =>
    /\ pc[t].s \in Segment /\ Exists(pc[t].s) /\ pc[t].i >= Info
    /\ pc[t].i \in Heads(seg[pc[t].s]) \/ pc[t].i >= seg[pc[t].s].entries
    /\ pc[t].at = "reclaim" =>
        /\ seg[pc[t].s].owner = t
        /\ Pages(seg[pc[t].s]) \ seg[pc[t].s].heap
            = {i \in Pages(seg[pc[t].s]) : i >= pc[t].i}

\* What is asked for, by an allocation.
Asks(t) ==
    /\ pc[t].n \in Counts \cup {0}
    /\ pc[t].at = "find" \/ (pc[t].at = "reclaim" /\ pc[t].stop) => pc[t].n \in Counts

\* An owner has pages of its segment in its heap, or the segment has none.
Kept(s) ==
    seg[s].owner \in Thread /\ seg[s].heap = {}
        /\ ~(pc[seg[s].owner].at = "reclaim" /\ pc[seg[s].owner].s = s)
    => seg[s].used = 0

IInv ==
    /\ TypeOK
    /\ \A s \in Segment :
        IF Exists(s) THEN Sound(seg[s]) /\ Place(s) /\ Kept(s)
        ELSE seg[s] = NoSegment /\ s \notin list
    /\ \A s \in Segment :
        /\ seg[s].owner = NoThread => seg[s].heap = {}
        /\ seg[s].owner = Ended => seg[s].used = 0
    /\ \A t \in Thread : Walks(t) /\ Asks(t)
    /\ QueuesExact

-----------------------------------------------------------------------------
\* segment.c:931: a huge page "cannot fail as we commit in advance", and 929 asserts
\* that its segment is committed as a whole.
DocHugeCommitted == \A s \in Segment :
    seg[s].kind = "huge" => seg[s].commit = Slice

\* Pages with blocks in use are disjoint ranges of slices behind the info slices;
\* a page with none goes away before its slices are part of another.  With their
\* split, coalescing, abandon and reclaim, segments implement a pool of ranges.
Ranges == {{s} \X Span(i, n) : s \in Segment, i \in Slice \ (0..(Info - 1)),
                               n \in Counts \cup HugeCounts}
LivePages == UNION {{{s} \X SpanOf(seg[s], i) : i \in seg[s].live} : s \in Segment}
Pool == INSTANCE BitPool WITH
    Thread <- {"pages"}, Range <- Ranges, held <- [t \in {"pages"} |-> LivePages]
ImplementsPool == Pool!Spec
=============================================================================

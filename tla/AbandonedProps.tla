--------------------------- MODULE AbandonedProps ---------------------------
(***************************************************************************)
(* What the abandoned list must do, and why it does: the set that it       *)
(* implements, the properties of its readers, and its inductive invariant. *)
(***************************************************************************)
EXTENDS AbandonedList

\* Where a thread has a segment in its hands, moves the visited list over, and is
\* counted as a reader.
HandAt == {"link", "push", "leave", "clear", "have", "visitLink", "visitCas",
           "await", "unmap"}
MovingAt == {"swap", "swapCas", "prepend", "splice", "prependCas"}
ReadAt == {"load", "next", "take", "leave"}

\* The visited segments that t is moving to the abandoned list: those up to the
\* last one, whose link already shows into the abandoned list.
Grabbed(t) == IF pc[t].at \in MovingAt THEN Reach(next, pc[t].seg, pc[t].anext) ELSE {}
Listed == Chain(abandoned.ptr) \cup Chain(visited) \cup UNION {Grabbed(t) : t \in Thread}

Holds(t, s) == threadId[s] = t \/ (pc[t].seg = s /\ pc[t].at \in HandAt)

\* Where a segment is: each place that the state has it at, which should be one.
Places(s, listed) ==
    {t \in Thread : Holds(t, s)} \cup (IF s \in listed THEN {"abandoned"} ELSE {})
        \cup (IF s \notin mapped THEN {"unmapped"} ELSE {})
Place ==
    LET listed == Listed
    IN  [s \in Segment |->
            LET places == Places(s, listed)
            IN  IF Cardinality(places) = 1 THEN CHOOSE p \in places : TRUE ELSE "lost"]

\* With pushes, pops, the moves of the visited list and frees in any order, the
\* list is a set: a pop that lost its race (a tag that did not change, a link
\* that was overwritten) would put a segment in two places or in none.
Set == INSTANCE AbandonedSet WITH
    Abandoned <- "abandoned", Unmapped <- "unmapped",
    place <- Place
ImplementsSet == Set!Spec

\* A pop reads abandoned_next of a segment that another thread has popped in the
\* meantime: its memory must still be there (_alloc_hook_abandoned_await_readers).
\* The assertions of abandoned_push, visited_push and segment_reclaim: a segment
\* that comes out of the list has no link and no owner.
ReadersSafe == TypeOK /\ \A t \in Thread :
    /\ pc[t].at = "next" => pc[t].ts.ptr \in mapped
    /\ pc[t].at = "have" => next[pc[t].seg] = Null /\ threadId[pc[t].seg] = NoThread
    /\ pc[t].at = "idle" => \A s \in Segment : threadId[s] = t => next[s] = Null

\* A pop that no other thread interferes with finds nothing only if there is
\* nothing, neither abandoned nor visited: so the main thread, which comes last,
\* leaves no segment behind (abandoned_reclaim_all).
DrainedWhenAlone == \A t \in Thread :
    pc[t].at = "empty" /\ pc[t].calm => Listed = {}

-----------------------------------------------------------------------------
(* The inductive invariant.                                                *)

Held(t) == {s \in Segment : Holds(t, s)}
Mine(t) == Held(t) \cup Grabbed(t)
Shared == Chain(abandoned.ptr) \cup Chain(visited)

\* A mapped segment is in one chain or with one thread, one that is not is nowhere.
OneHome ==
    /\ Chain(abandoned.ptr) \cap Chain(visited) = {}
    /\ Shared \subseteq mapped
    /\ mapped \subseteq Shared \cup UNION {Mine(t) : t \in Thread}
    /\ \A t \in Thread :
           /\ Held(t) \cap Grabbed(t) = {}
           /\ Mine(t) \subseteq mapped \ Shared
           /\ \A u \in Thread \ {t} : Mine(t) \cap Mine(u) = {}

\* A chain comes to an end.
Ends(first) == first # Null => \E s \in Chain(first) : next[s] = Null

\* The local variables at each place.
Shape(c) ==
    /\ c.at \in MovingAt \cup (HandAt \ {"leave"}) => c.seg # Null
    /\ c.seg # Null => c.at \in MovingAt \cup HandAt
    /\ c.anext # Null => c.at \in {"take", "splice", "prependCas", "visitLink", "visitCas"}
    /\ c.at \in {"next", "take"} => c.ts.ptr # Null
    /\ c.at = "swapCas" => c.ts.ptr = Null

\* What a thread has read or written of the links is still so.  That holds of the link
\* of a segment it is about to take as long as the tag has not changed.
Linked(t) ==
    /\ pc[t].at = "push" => next[pc[t].seg] = pc[t].ts.ptr
    /\ pc[t].at = "visitCas" => next[pc[t].seg] = pc[t].anext
    /\ pc[t].at = "have" => next[pc[t].seg] = Null
    /\ pc[t].at = "take" /\ abandoned = pc[t].ts => pc[t].anext = next[pc[t].ts.ptr]
    /\ pc[t].at \in {"swap", "swapCas", "prepend"} => Ends(pc[t].seg)
    /\ pc[t].at \in {"splice", "prependCas"} => pc[t].anext \in Grabbed(t)
    /\ pc[t].at = "prependCas" => next[pc[t].anext] = pc[t].ts.ptr

\* A segment that somebody reads stays, and is not past the wait for readers.
Reading(t) ==
    pc[t].at = "next" =>
        /\ pc[t].ts.ptr \in mapped
        /\ \A u \in Thread : pc[u].at = "unmap" => pc[u].seg # pc[t].ts.ptr

\* An owned segment has no link, one in a thread's hands no owner.
Unlinked ==
    /\ \A s \in Segment : threadId[s] # NoThread => next[s] = Null
    /\ \A t \in Thread :
           pc[t].at \in HandAt /\ pc[t].seg # Null => threadId[pc[t].seg] = NoThread

\* A pop that is alone takes what it sees.
Alone(t) == pc[t].calm =>
    /\ \A u \in Thread \ {t} : pc[u].at = "idle"
    /\ pc[t].at = "revisit" /\ pc[t].call # "force" => abandoned.ptr = Null
    /\ pc[t].at \in {"enter", "load"} => abandoned.ptr # Null
    /\ pc[t].at \in {"next", "take"} => abandoned = pc[t].ts
    /\ pc[t].at = "leave" => pc[t].seg # Null
    /\ pc[t].at = "empty" => abandoned.ptr = Null /\ visited = Null

Counted == readers = Cardinality({t \in Thread : pc[t].at \in ReadAt})

IInv ==
    /\ TypeOK /\ OneHome /\ Unlinked /\ Counted
    /\ Ends(abandoned.ptr) /\ Ends(visited)
    /\ \A t \in Thread : Shape(pc[t]) /\ Linked(t) /\ Reading(t) /\ Alone(t)
=============================================================================

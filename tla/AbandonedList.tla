---------------------------- MODULE AbandonedList ----------------------------
(***************************************************************************)
(* The abandoned list of alloc_hook_segment.c: a lock-free stack of        *)
(* segments under a tagged pointer, a second stack of visited segments     *)
(* that moves over as a whole, and the count of readers that a thread      *)
(* awaits before it frees a segment.  Each access to shared memory is a    *)
(* step of its own.                                                        *)
(*                                                                         *)
(* What is in a segment decides whether a popped one is reclaimed, freed   *)
(* or put on the visited list: SegmentSpans models that, here it is free.  *)
(* abandoned_count and abandoned_visited_count are read by nobody but the  *)
(* code that changes them and are left out.  A weak CAS that fails for no  *)
(* reason leads back to a state the thread has been in.                    *)
(***************************************************************************)
EXTENDS Naturals, FiniteSets

CONSTANTS
    Thread, NoThread,
    Segment,    \* the segment-sized pieces of memory
    Null,       \* no segment
    Tags        \* how many tags there are: one for each copy that a thread may
                \* hold of `abandoned', and one more

ASSUME AbandonedAssumption ==
    /\ NoThread \notin Thread /\ Null \notin Segment
    /\ IsFiniteSet(Thread) /\ Tags \in Nat /\ Tags > Cardinality(Thread)

VARIABLES
    abandoned,  \* the tagged pointer to the first abandoned segment
    visited,    \* abandoned_visited
    next,       \* each segment's abandoned_next
    threadId,   \* each segment's thread_id
    mapped,     \* the segments whose memory is allocated
    readers,    \* abandoned_readers
    pc          \* where each thread is

vars == <<abandoned, visited, next, threadId, mapped, readers, pc>>

Tag == 0..(Tags - 1)
Tagged == [ptr : Segment \cup {Null}, tag : Tag]

\* call: what the thread does with the list, ts: its copy of `abandoned', seg: the
\* segment in hand, or the first of the visited ones, anext: what it read from it,
\* or the last of the visited ones.
\* calm: no other thread has been in a call since this pop began; the code does
\* not have it, DrainedWhenAlone is about it.
Call == {"none", "reclaim", "collect", "force", "all"}
Label == {"idle", "link", "push", "pop", "revisit", "swap", "swapCas", "prepend",
          "splice", "prependCas", "enter", "load", "next", "take", "leave", "clear",
          "have", "visit", "visitLink", "visitCas", "await", "unmap", "empty"}
Control ==
    [at : Label, call : Call, ts : Tagged, seg : Segment \cup {Null},
     anext : Segment \cup {Null}, calm : BOOLEAN]

NoTag == [ptr |-> Null, tag |-> 0]
Idle == [at |-> "idle", call |-> "none", ts |-> NoTag, seg |-> Null,
         anext |-> Null, calm |-> FALSE]

TypeOK ==
    /\ abandoned \in Tagged /\ visited \in Segment \cup {Null}
    /\ next \in [Segment -> Segment \cup {Null}]
    /\ threadId \in [Segment -> Thread \cup {NoThread}]
    /\ mapped \subseteq Segment
    /\ readers \in 0..Cardinality(Thread)
    /\ pc \in [Thread -> Control]

Init ==
    /\ abandoned = NoTag /\ visited = Null
    /\ next = [s \in Segment |-> Null]
    /\ threadId = [s \in Segment |-> NoThread]
    /\ mapped = {} /\ readers = 0
    /\ pc = [t \in Thread |-> Idle]

\* t goes on with control state c; a call of another thread is not alone any more.
Step(t, c) ==
    pc' = [u \in Thread |-> IF u = t THEN c ELSE [pc[u] EXCEPT !.calm = FALSE]]
Goto(t, at) == Step(t, [pc[t] EXCEPT !.at = at])

\* Mutant of NewTag: no tag.
SameTag(ts) == ts.tag

\* alloc_hook_tagged_segment counts the tag up.  There are 2^25 tags, so that it is
\* taken to be one that no thread has a copy of.
NewTag(ts) ==
    CHOOSE n \in Tag \ {ts.tag} :
        \A t \in Thread : pc[t].ts.tag # n
TaggedSegment(s, ts) == [ptr |-> s, tag |-> NewTag(ts)]

\* The CAS on `abandoned' of t, whose copy becomes what is there if it fails.
Cas(t, s, success, failure) ==
    IF abandoned = pc[t].ts
      THEN abandoned' = TaggedSegment(s, abandoned) /\ Step(t, success)
      ELSE UNCHANGED abandoned /\ Step(t, [failure EXCEPT !.ts = abandoned])

-----------------------------------------------------------------------------
(* A segment's life outside of the list.                                   *)

\* segment_alloc, with memory that may have been a segment before.
Alloc(t, s) ==
    /\ pc[t].at = "idle" /\ s \notin mapped
    /\ mapped' = mapped \cup {s}
    /\ threadId' = [threadId EXCEPT ![s] = t]
    /\ next' = [next EXCEPT ![s] = Null]
    /\ Step(t, Idle)
    /\ UNCHANGED <<abandoned, visited, readers>>

\* segment_os_free of an own segment.
Free(t, s) ==
    /\ pc[t].at = "idle" /\ threadId[s] = t
    /\ threadId' = [threadId EXCEPT ![s] = NoThread]
    /\ Step(t, [Idle EXCEPT !.at = "await", !.seg = s])
    /\ UNCHANGED <<abandoned, visited, next, mapped, readers>>

\* Mutant of Await: nobody waits.
NoAwait(t) ==
    /\ pc[t].at = "await"
    /\ Goto(t, "unmap")
    /\ UNCHANGED <<abandoned, visited, next, threadId, mapped, readers>>

\* _alloc_hook_abandoned_await_readers
Await(t) ==
    /\ pc[t].at = "await" /\ readers = 0
    /\ Goto(t, "unmap")
    /\ UNCHANGED <<abandoned, visited, next, threadId, mapped, readers>>

\* _alloc_hook_arena_free; a reclaim that freed its segment goes on popping.
Unmap(t) ==
    /\ pc[t].at = "unmap"
    /\ mapped' = mapped \ {pc[t].seg}
    /\ IF pc[t].call = "none"
         THEN Step(t, Idle)
         ELSE Step(t, [Idle EXCEPT !.at = "pop", !.call = pc[t].call,
                                   !.calm = pc[t].calm])
    /\ UNCHANGED <<abandoned, visited, next, threadId, readers>>

-----------------------------------------------------------------------------
(* abandoned_push                                                          *)

\* segment_abandon, with the first load of abandoned_push.
Abandon(t, s) ==
    /\ pc[t].at = "idle" /\ threadId[s] = t
    /\ threadId' = [threadId EXCEPT ![s] = NoThread]
    /\ next' = [next EXCEPT ![s] = Null]
    /\ Step(t, [Idle EXCEPT !.at = "link", !.seg = s, !.ts = abandoned])
    /\ UNCHANGED <<abandoned, visited, mapped, readers>>

Link(t) ==
    /\ pc[t].at = "link"
    /\ next' = [next EXCEPT ![pc[t].seg] = pc[t].ts.ptr]
    /\ Goto(t, "push")
    /\ UNCHANGED <<abandoned, visited, threadId, mapped, readers>>

Push(t) ==
    /\ pc[t].at = "push"
    /\ Cas(t, pc[t].seg, Idle, [pc[t] EXCEPT !.at = "link"])
    /\ UNCHANGED <<visited, next, threadId, mapped, readers>>

-----------------------------------------------------------------------------
(* abandoned_visited_revisit                                               *)

\* Where it returns to: abandoned_collect calls it before the first pop, and
\* a pop of an empty list when there may be visited segments.
Revisited(t) == [pc[t] EXCEPT !.at = IF @ = "revisit" THEN "empty" ELSE "enter",
                              !.seg = Null, !.ts = NoTag]
ForceRevisited(t) == [Revisited(t) EXCEPT !.at = "pop", !.call = "collect"]
RevisitDone(t) == IF pc[t].call = "force" THEN ForceRevisited(t) ELSE Revisited(t)

\* The quick check and the exchange.
Revisit(t) ==
    /\ pc[t].at = "revisit"
    /\ visited' = Null
    /\ IF visited = Null
         THEN Step(t, RevisitDone(t))
         ELSE Step(t, [pc[t] EXCEPT !.at = "swap", !.seg = visited])
    /\ UNCHANGED <<abandoned, next, threadId, mapped, readers>>

\* First try to swap directly.
Swap(t) ==
    /\ pc[t].at = "swap"
    /\ Step(t, [pc[t] EXCEPT !.at = IF abandoned.ptr = Null THEN "swapCas" ELSE "prepend",
                             !.ts = abandoned])
    /\ UNCHANGED <<abandoned, visited, next, threadId, mapped, readers>>

SwapCas(t) ==
    /\ pc[t].at = "swapCas"
    /\ Cas(t, pc[t].seg, RevisitDone(t), [pc[t] EXCEPT !.at = "prepend"])
    /\ UNCHANGED <<visited, next, threadId, mapped, readers>>

\* The segments from `first' on along the links, up to `last' if they lead there:
\* the least set that has the first one and, with each but the last, the next one.
Reach(link, first, last) ==
    {s \in Segment :
        \A R \in SUBSET Segment :
            /\ first \in R \cup {Null}
            /\ \A r \in R \ {last} : link[r] \in R \cup {Null}
            => s \in R}

\* The segments of a chain: nobody else walks it, or all its cells are stable.
Chain(first) == Reach(next, first, Null)
Last(first) == CHOOSE s \in Chain(first) : next[s] = Null

Prepend(t) ==
    /\ pc[t].at = "prepend"
    /\ Step(t, [pc[t] EXCEPT !.at = "splice", !.ts = abandoned,
                             !.anext = Last(pc[t].seg)])
    /\ UNCHANGED <<abandoned, visited, next, threadId, mapped, readers>>

Splice(t) ==
    /\ pc[t].at = "splice"
    /\ next' = [next EXCEPT ![pc[t].anext] = pc[t].ts.ptr]
    /\ Goto(t, "prependCas")
    /\ UNCHANGED <<abandoned, visited, threadId, mapped, readers>>

PrependCas(t) ==
    /\ pc[t].at = "prependCas"
    /\ Cas(t, pc[t].seg, [RevisitDone(t) EXCEPT !.anext = Null],
           [pc[t] EXCEPT !.at = "splice"])
    /\ UNCHANGED <<visited, next, threadId, mapped, readers>>

-----------------------------------------------------------------------------
(* abandoned_pop                                                           *)

\* segment_try_reclaim, abandoned_collect, abandoned_reclaim_all
StartCall(t, call) ==
    /\ pc[t].at = "idle"
    /\ Step(t, [Idle EXCEPT !.at = IF call = "force" THEN "revisit" ELSE "pop",
                            !.call = call,
                            !.calm = \A u \in Thread \ {t} : pc[u].at = "idle"])
    /\ UNCHANGED <<abandoned, visited, next, threadId, mapped, readers>>

\* Mutant of Pop: an empty list is not filled with the visited segments.
PopNoRevisit(t) ==
    /\ pc[t].at = "pop"
    /\ Goto(t, IF abandoned.ptr = Null THEN "empty" ELSE "enter")
    /\ UNCHANGED <<abandoned, visited, next, threadId, mapped, readers>>

\* The check whether the list is empty.
Pop(t) ==
    /\ pc[t].at = "pop"
    /\ Goto(t, IF abandoned.ptr = Null THEN "revisit" ELSE "enter")
    /\ UNCHANGED <<abandoned, visited, next, threadId, mapped, readers>>

Enter(t) ==
    /\ pc[t].at = "enter"
    /\ readers' = readers + 1
    /\ Goto(t, "load")
    /\ UNCHANGED <<abandoned, visited, next, threadId, mapped>>

Loaded(t) == [pc[t] EXCEPT !.at = IF abandoned.ptr = Null THEN "leave" ELSE "next",
                           !.ts = abandoned, !.anext = Null]

Load(t) ==
    /\ pc[t].at = "load"
    /\ Step(t, Loaded(t))
    /\ UNCHANGED <<abandoned, visited, next, threadId, mapped, readers>>

\* Reads abandoned_next of a segment that another thread may have popped.
ReadNext(t) ==
    /\ pc[t].at = "next"
    /\ Step(t, [pc[t] EXCEPT !.at = "take", !.anext = next[pc[t].ts.ptr]])
    /\ UNCHANGED <<abandoned, visited, next, threadId, mapped, readers>>

Take(t) ==
    /\ pc[t].at = "take"
    /\ Cas(t, pc[t].anext,
           [pc[t] EXCEPT !.at = "leave", !.seg = pc[t].ts.ptr, !.anext = Null],
           Loaded(t))
    /\ UNCHANGED <<visited, next, threadId, mapped, readers>>

Leave(t) ==
    /\ pc[t].at = "leave"
    /\ readers' = readers - 1
    /\ Step(t, [pc[t] EXCEPT !.at = IF pc[t].seg = Null THEN "empty" ELSE "clear",
                             !.ts = NoTag])
    /\ UNCHANGED <<abandoned, visited, next, threadId, mapped>>

Clear(t) ==
    /\ pc[t].at = "clear"
    /\ next' = [next EXCEPT ![pc[t].seg] = Null]
    /\ Goto(t, "have")
    /\ UNCHANGED <<abandoned, visited, threadId, mapped, readers>>

\* No segment, or max_tries of them: the call returns.
Return(t) ==
    /\ \/ pc[t].at = "empty"
       \/ pc[t].at = "pop" /\ pc[t].call \in {"reclaim", "collect"}
    /\ Step(t, Idle)
    /\ UNCHANGED <<abandoned, visited, next, threadId, mapped, readers>>

-----------------------------------------------------------------------------
(* What the callers of abandoned_pop do with the segment.                  *)

\* segment_reclaim; it frees the segment if no page is in use.  try_reclaim returns
\* one with the space it looks for.
Reclaim(t) ==
    /\ pc[t].at = "have"
    /\ \/ Goto(t, "await") /\ UNCHANGED threadId
       \/ /\ threadId' = [threadId EXCEPT ![pc[t].seg] = t]
          /\ \/ Step(t, [pc[t] EXCEPT !.at = "pop", !.seg = Null])
             \/ pc[t].call = "reclaim" /\ Step(t, Idle)
    /\ UNCHANGED <<abandoned, visited, next, mapped, readers>>

\* It goes on the visited list; reclaim_all never does that.
Visit(t) ==
    /\ pc[t].at = "have" /\ pc[t].call # "all"
    /\ Step(t, [pc[t] EXCEPT !.at = "visitLink", !.anext = visited])
    /\ UNCHANGED <<abandoned, visited, next, threadId, mapped, readers>>

VisitLink(t) ==
    /\ pc[t].at = "visitLink"
    /\ next' = [next EXCEPT ![pc[t].seg] = pc[t].anext]
    /\ Goto(t, "visitCas")
    /\ UNCHANGED <<abandoned, visited, threadId, mapped, readers>>

VisitCas(t) ==
    /\ pc[t].at = "visitCas"
    /\ IF visited = pc[t].anext
         THEN visited' = pc[t].seg /\ Step(t, [pc[t] EXCEPT !.at = "pop", !.seg = Null,
                                                            !.anext = Null])
         ELSE UNCHANGED visited /\ Step(t, [pc[t] EXCEPT !.at = "visitLink",
                                                         !.anext = visited])
    /\ UNCHANGED <<abandoned, next, threadId, mapped, readers>>

Next ==
    \E t \in Thread :
        \/ \E s \in Segment : Alloc(t, s) \/ Free(t, s) \/ Abandon(t, s)
        \/ \E call \in Call \ {"none"} : StartCall(t, call)
        \/ Link(t) \/ Push(t)
        \/ Revisit(t) \/ Swap(t) \/ SwapCas(t) \/ Prepend(t) \/ Splice(t) \/ PrependCas(t)
        \/ Pop(t) \/ Enter(t) \/ Load(t) \/ ReadNext(t) \/ Take(t) \/ Leave(t) \/ Clear(t)
        \/ Return(t) \/ Reclaim(t) \/ Visit(t) \/ VisitLink(t) \/ VisitCas(t)
        \/ Await(t) \/ Unmap(t)

Spec == Init /\ [][Next]_vars
=============================================================================

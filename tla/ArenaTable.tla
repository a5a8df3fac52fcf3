----------------------------- MODULE ArenaTable -----------------------------
(***************************************************************************)
(* The table of arenas of alloc_hook_arena.c: how memory for a segment is  *)
(* looked for in the arenas and then taken from the OS, how arenas are     *)
(* reserved, registered and destroyed, and the segment map that the        *)
(* segments are entered in.                                                *)
(*                                                                         *)
(* Of an arena only the blocks in use are kept: what happens to the other  *)
(* bits of its blocks is in Arena.  The static area for descriptors is     *)
(* left out: they ask for ALLOC_HOOK_ALIGNMENT_MAX, more than it has.      *)
(***************************************************************************)
EXTENDS OsMemory, SegmentMap

CONSTANTS
    Calls,      \* bound: the calls that a thread makes, see Call
    MaxCalls,   \* bound: how many calls are begun
    MaxArenas,
    Spare,      \* the table entries that arena_reserve leaves (4)
    Reserve,    \* pages of a fresh arena if there are n: the option arena_reserve, which
                \* is doubled with every eight arenas; 0 for none
    NumaNode    \* the NUMA node of each thread

Op == {"none", "alloc", "reserve", "manage", "huge"}

\* size, align, offset in pages; id: the requested arena or 0; exclusive, node: of
\* the arena that is made.
Call ==
    [op : Op, size : 0..Pages, align : 1..Pages, offset : 0..Pages, commit : BOOLEAN,
     large : BOOLEAN, id : 0..MaxArenas, exclusive : BOOLEAN, node : {-1, 0, 1}]

\* The pages before the offset that make the page at the offset the aligned one.
Extra(c) == AlignUp(c.offset, c.align) - c.offset

\* Only segments are allocated from arenas: their alignment and the offset of a huge
\* page in them are those of whole segments (segment.c:806-813), and a size with an
\* offset is so big that its extra pages are whole steps of its rounding.
ASSUME ArenaTableAssumption ==
    /\ Calls \subseteq Call /\ IsFiniteSet(Thread)
    /\ \A c \in Calls :
         /\ c.size > 0
         /\ c.op = "alloc" =>
              /\ c.align % Block = 0 /\ c.offset % Block = 0
              /\ GoodSize(c.size + Extra(c)) = GoodSize(c.size) + Extra(c)
         /\ c.op = "huge" => c.size % Block = 0
    /\ {MaxCalls, MaxArenas, Spare} \subseteq Nat
    /\ Reserve \in [0..MaxArenas -> {n \in Nat : n % Block = 0}]
    /\ NumaNode \in [Thread -> {0, 1}]

VARIABLES
    arenas,     \* alloc_hook_arenas
    count,      \* alloc_hook_arena_count
    live,       \* the memory of the segments
    map,        \* alloc_hook_segment_map
    external,   \* pages the program has mapped for arenas of its own
    lost,       \* history: descriptors of arenas for which there was no entry
    calls,      \* bound: the calls begun
    ended       \* arena_unsafe_destroy_all has run

osVars == <<mem, tryOk, hugeStart, pc>>
tableVars == <<arenas, count, live, map, external, lost, calls, ended>>
vars == <<osVars, tableVars>>

Index == 0..(MaxArenas - 1)

\* kind: memid.memkind; start, size: the area; meta: the page of the descriptor.
Kind == {"os", "huge", "external"}
ArenaOf ==
    [kind : Kind, start : Page, size : 1..Pages, meta : Page, pinned : BOOLEAN,
     exclusive : BOOLEAN, node : {-1, 0, 1}, inuse : SUBSET (0..Pages)]
NoArena == [kind |-> "none"]

Used == {i \in Index : arenas[i] # NoArena}
BlockCount(a) == a.size \div Block

\* A segment's memory.  id: its arena or 0 for the OS; base, p, size: as in its
\* memid; committed: the pages that the segment takes for committed.
ExtentOf ==
    [id : 0..MaxArenas, base : Page, p : Page, size : 1..Pages, req : 0..MaxArenas,
     committed : SUBSET Page]

Extents(e) == IF e.id = 0 THEN OsExtent(e.base, e.p, e.size) ELSE {}
Bits(a, e) == {(q - a.start) \div Block : q \in Span(e.p, e.size)}

NoCall == [op |-> "none", size |-> 0, align |-> 1, offset |-> 0, commit |-> FALSE,
           large |-> FALSE, id |-> 0, exclusive |-> FALSE, node |-> -1]
Idle == [at |-> "idle", call |-> NoCall, ask |-> 0, align |-> 1, skip |-> 0,
         commit |-> FALSE, large |-> FALSE, lo |-> 0, n |-> 0, pinned |-> FALSE,
         stray |-> NoPage, meta |-> NoPage, stage |-> "table", i |-> 0, max |-> 0,
         near |-> TRUE, ext |-> {}]

\* stage: looks in the table, or in a fresh arena, or asks the OS for a segment.
Label ==
    {"idle", "map", "misaligned", "over", "pre", "post", "have", "got", "failed",
     "claim", "claimCas", "huge", "stray", "freeHuge", "count", "try", "reserve",
     "fallback", "commitInfo", "enter", "giveBack", "free", "meta", "add", "retreat",
     "store", "undo"}
Control ==
    [at : Label, call : Calls \cup {NoCall}, ask : Nat, align : Nat \ {0},
     skip : Nat, commit : BOOLEAN, large : BOOLEAN, lo : Nat,
     n : 0..Pages, pinned : BOOLEAN, stray : Page \cup {NoPage},
     meta : Page \cup {NoPage}, stage : {"table", "fresh", "os"},
     i : 0..(MaxArenas + Cardinality(Thread)),
     max : 0..(MaxArenas + Cardinality(Thread)), near : BOOLEAN, ext : SUBSET ExtentOf]

Init ==
    /\ mem = [q \in Page |-> "free"]
    /\ tryOk = 0 /\ hugeStart = 0
    /\ pc = [t \in Thread |-> Idle]
    /\ arenas = [i \in Index |-> NoArena] /\ count = 0
    /\ live = {} /\ map = {} /\ external = {} /\ lost = {}
    /\ calls = 0 /\ ended = FALSE

Goto(t, at) == Set(t, [pc[t] EXCEPT !.at = at])

-----------------------------------------------------------------------------
(* arena_alloc_aligned                                                     *)

\* Thread t makes call c.
Calling(t, c, op) ==
    /\ c.op = op /\ pc[t].at = "idle" /\ ~ended /\ calls < MaxCalls
    /\ calls' = calls + 1
    /\ UNCHANGED <<tryOk, hugeStart, arenas, count, live, map, lost, ended>>

\* An arena is tried if the size is half a block and the alignment is that of a
\* segment.
Alloc(t, c) ==
    /\ Calling(t, c, "alloc")
    /\ Set(t, [Idle EXCEPT !.call = c,
          !.at = IF 2 * c.size >= Block /\ c.align <= Block /\ c.offset = 0
                 THEN "count" ELSE "fallback"])
    /\ UNCHANGED <<mem, external>>

\* reserve_os_memory_ex
ReserveOsMemory(t, c) ==
    /\ Calling(t, c, "reserve")
    /\ Set(t, AskOs([Idle EXCEPT !.call = c], AlignUp(c.size, Block), Block, 0, c.commit,
                    c.large))
    /\ UNCHANGED <<mem, external>>

\* reserve_huge_os_pages_at_ex
ReserveHugePages(t, c) ==
    /\ Calling(t, c, "huge")
    /\ Set(t, [Idle EXCEPT !.call = c, !.at = "claim", !.ask = c.size])
    /\ UNCHANGED <<mem, external>>

\* manage_os_memory_ex, of memory that the program has mapped.
ManageOsMemory(t, c) ==
    /\ Calling(t, c, "manage")
    /\ \E p \in Places(c.size) :
         /\ p % Block = 0
         /\ mem' = Map(p, c.size, TRUE)
         /\ external' = external \cup Span(p, c.size)
         /\ Set(t, [Idle EXCEPT !.call = c, !.at = "meta", !.lo = p, !.n = c.size,
                                !.ask = c.size])

\* arena_try_alloc: the arenas there are now.
CountArenas(t) ==
    /\ pc[t].at = "count"
    /\ Set(t, IF count = 0 THEN [pc[t] EXCEPT !.at = "reserve"]
              ELSE IF pc[t].call.id = 0
                   THEN [pc[t] EXCEPT !.at = "try", !.max = count]
              ELSE IF pc[t].call.id - 1 < count
                   THEN [pc[t] EXCEPT !.at = "try", !.i = pc[t].call.id - 1,
                                      !.max = pc[t].call.id]
              ELSE [pc[t] EXCEPT !.at = "reserve"])
    /\ UNCHANGED <<mem, tryOk, hugeStart, tableVars>>

\* arena_id_is_suitable
IdSuitable(id, exclusive, req) == (~exclusive /\ req = 0) \/ id = req

\* arena_try_alloc_at_id: first the arenas of the node, then the others.
Suitable(t, i) ==
    LET a == arenas[i]
        numa == a.node < 0 \/ a.node = NumaNode[t]
    IN  /\ a # NoArena
        /\ pc[t].call.large \/ ~a.pinned
        /\ IdSuitable(i + 1, a.exclusive, pc[t].call.id)
        /\ pc[t].call.id = 0 => (pc[t].near = numa)

\* Where the search may find needed blocks that are free.
Runs(a, needed) ==
    {b \in 0..(BlockCount(a) - needed) : Span(b, needed) \cap a.inuse = {}}

NextArena(t) ==
    LET c == pc[t]
    IN  IF c.i + 1 < c.max THEN [c EXCEPT !.i = c.i + 1]
        ELSE IF c.stage = "fresh" THEN [c EXCEPT !.at = "fallback"]
        ELSE IF c.call.id = 0 /\ c.near THEN [c EXCEPT !.i = 0, !.near = FALSE]
        ELSE [c EXCEPT !.at = "reserve"]

\* The claim of the blocks (Bitmap says how), which is at once their allocation.
Claimed(t, i, b) ==
    arenas' = [arenas EXCEPT ![i].inuse =
                  @ \cup Span(b, AlignUp(pc[t].call.size, Block) \div Block)]

TryArena(t) ==
    LET c == pc[t]
        i == c.i
        needed == AlignUp(c.call.size, Block) \div Block
    IN  /\ c.at = "try"
        /\ IF i \in Index /\ Suitable(t, i) /\ Runs(arenas[i], needed) # {}
           THEN \E b \in Runs(arenas[i], needed) :
                LET p == arenas[i].start + b * Block
                IN  /\ Claimed(t, i, b)
                    /\ Set(t, [c EXCEPT !.at = "enter", !.ext =
                           {[id |-> i + 1, base |-> p, p |-> p, size |-> c.call.size,
                             req |-> c.call.id, committed |-> {}]}])
           ELSE Set(t, NextArena(t)) /\ UNCHANGED arenas
        /\ UNCHANGED <<mem, tryOk, hugeStart, count, live, map, external, lost, calls, ended>>

\* arena_reserve, once: a fresh arena of the default size.
ReserveArena(t) ==
    LET c == pc[t]
        size == Reserve[count]
        fresh == c.call.id = 0 /\ count <= MaxArenas - Spare /\ size > 0 /\ size >= c.call.size
    IN  /\ c.at = "reserve"
        /\ Set(t, IF fresh THEN AskOs(c, size, Block, 0, FALSE, c.call.large)
                  ELSE [c EXCEPT !.at = "fallback"])
        /\ UNCHANGED <<mem, tryOk, hugeStart, tableVars>>

\* The OS, unless an arena was asked for.
Fallback(t) ==
    LET c == pc[t].call
    IN  /\ pc[t].at = "fallback"
        /\ Set(t, IF c.id # 0 THEN Idle
                  ELSE AskOs([Idle EXCEPT !.call = c, !.stage = "os"], c.size, c.align,
                             c.offset, c.commit, c.large))
        /\ UNCHANGED <<mem, tryOk, hugeStart, tableVars>>

\* Is the memory that a thread asks the OS for the segment's, and not an arena's?
Direct(c) == c.stage = "os"

OsFailed(t) ==
    /\ pc[t].at = "failed"
    /\ Set(t, IF pc[t].call.op = "alloc" /\ ~Direct(pc[t])
              THEN [pc[t] EXCEPT !.at = "fallback"] ELSE Idle)
    /\ UNCHANGED <<mem, tryOk, hugeStart, tableVars>>

\* The memory is there: a segment for segment_os_alloc, which commits at least the
\* part for its own fields, or the area of an arena.
OsGot(t) ==
    LET c == pc[t]
        p == c.lo + c.skip
        e == [id |-> 0, base |-> c.lo, p |-> p, size |-> c.call.size, req |-> 0,
              committed |-> IF c.commit THEN Span(p, c.call.size) ELSE {}]
    IN  /\ c.at = "got"
        /\ Set(t, IF ~Direct(c) THEN [c EXCEPT !.at = "meta"]
                  ELSE [Idle EXCEPT !.at = IF c.commit THEN "enter" ELSE "commitInfo",
                                    !.ext = {e}])
        /\ UNCHANGED <<mem, tryOk, hugeStart, tableVars>>

CommitInfo(t) ==
    LET e == CHOOSE x \in pc[t].ext : TRUE
    IN  /\ pc[t].at = "commitInfo"
        /\ \/ /\ mem' = Protect({e.p}, "rw")
              /\ Set(t, [pc[t] EXCEPT !.at = "enter",
                                      !.ext = {[e EXCEPT !.committed = {e.p}]}])
           \/ Goto(t, "giveBack") /\ UNCHANGED mem
        /\ UNCHANGED <<tryOk, hugeStart, tableVars>>

\* segment_map_allocated_at
Enter(t) ==
    /\ pc[t].at = "enter"
    /\ live' = live \cup pc[t].ext
    /\ map' = map \cup {e.p \div Block : e \in pc[t].ext}
    /\ Set(t, Idle)
    /\ UNCHANGED <<mem, tryOk, hugeStart, arenas, count, external, lost, calls, ended>>

-----------------------------------------------------------------------------
(* What a segment does with its memory, and arena_free.                    *)

\* Bound: the segment commits or decommits all of it but its first page.
CommitPart(t, e) ==
    LET part == Span(e.p + 1, e.size - 1)
    IN  /\ pc[t].at = "idle" /\ ~ended /\ e.id = 0 /\ ~(part \subseteq e.committed)
        /\ mem' = Protect(part, "rw")
        /\ live' = (live \ {e}) \cup {[e EXCEPT !.committed = @ \cup part]}
        /\ UNCHANGED <<tryOk, hugeStart, pc, arenas, count, map, external, lost, calls, ended>>

DecommitPart(t, e) ==
    LET part == Span(e.p + 1, e.size - 1)
    IN  /\ pc[t].at = "idle" /\ ~ended /\ e.id = 0
        /\ part # {} /\ part \subseteq e.committed
        /\ mem' = Decommit(e.p + 1, e.size - 1)
        /\ live' = (live \ {e}) \cup
                   {[e EXCEPT !.committed = IF DEBUG THEN @ \ part ELSE @]}
        /\ UNCHANGED <<tryOk, hugeStart, pc, arenas, count, map, external, lost, calls, ended>>

\* Mutant of BeginFree: the bit in the map stays.
ForgetFreed(t, e) ==
    /\ pc[t].at = "idle" /\ ~ended
    /\ live' = live \ {e}
    /\ Set(t, [Idle EXCEPT !.at = "free", !.ext = {e}])
    /\ UNCHANGED <<mem, tryOk, hugeStart, arenas, count, map, external, lost, calls, ended>>

\* segment_os_free: segment_map_freed_at
BeginFree(t, e) ==
    /\ pc[t].at = "idle" /\ ~ended
    /\ live' = live \ {e}
    /\ map' = map \ {e.p \div Block}
    /\ Set(t, [Idle EXCEPT !.at = "free", !.ext = {e}])
    /\ UNCHANGED <<mem, tryOk, hugeStart, arenas, count, external, lost, calls, ended>>

\* arena_free: the OS memory at once, or the blocks of the arena.
ArenaFree(t) ==
    LET e == CHOOSE x \in pc[t].ext : TRUE
    IN  /\ pc[t].at \in {"free", "giveBack"}
        /\ \/ e.id = 0 /\ mem' = Unmap(Extents(e)) /\ UNCHANGED arenas
           \/ /\ e.id # 0
              /\ arenas' = [arenas EXCEPT ![e.id - 1].inuse = @ \ Bits(arenas[e.id - 1], e)]
              /\ UNCHANGED mem
        /\ Set(t, Idle)
        /\ UNCHANGED <<tryOk, hugeStart, count, live, map, external, lost, calls, ended>>

-----------------------------------------------------------------------------
(* manage_os_memory_ex2 and arena_add                                      *)

\* The descriptor, anywhere.
AllocMeta(t) ==
    /\ pc[t].at = "meta"
    /\ \/ \E p \in Places(1) :
            /\ mem' = Map(p, 1, TRUE)
            /\ Set(t, [pc[t] EXCEPT !.at = "add", !.meta = p])
       \/ Goto(t, "undo") /\ UNCHANGED mem
    /\ UNCHANGED <<tryOk, hugeStart, tableVars>>

\* Take the next index; there may be none, and then the descriptor is forgotten.
AddArena(t) ==
    /\ pc[t].at = "add"
    /\ count' = count + 1
    /\ Set(t, IF count < MaxArenas THEN [pc[t] EXCEPT !.at = "store", !.i = count]
              ELSE [pc[t] EXCEPT !.at = "retreat"])
    /\ UNCHANGED <<mem, tryOk, hugeStart, arenas, live, map, external, lost, calls, ended>>

Retreat(t) ==
    /\ pc[t].at = "retreat"
    /\ count' = count - 1
    /\ lost' = lost \cup {pc[t].meta}
    /\ Set(t, [pc[t] EXCEPT !.at = "undo", !.meta = NoPage])
    /\ UNCHANGED <<mem, tryOk, hugeStart, arenas, live, map, external, calls, ended>>

\* Mutant of IndexOf: the count is read again when the arena is stored.
LastIndex(t) == IF count > MaxArenas THEN MaxArenas - 1 ELSE count - 1

\* Where the arena is stored: the index that AddArena took.
IndexOf(t) == pc[t].i

\* Publish it.  An allocation that reserved it goes on to try it.
StoreArena(t) ==
    LET c == pc[t]
        op == c.call.op
        a == [kind |-> IF op = "huge" THEN "huge"
                       ELSE IF op = "manage" THEN "external" ELSE "os",
              start |-> c.lo, size |-> c.ask, meta |-> c.meta,
              pinned |-> c.pinned, exclusive |-> c.call.exclusive,
              node |-> IF op \in {"huge", "manage"} THEN c.call.node ELSE -1,
              inuse |-> {}]
        i == IndexOf(t)
    IN  /\ c.at = "store"
        /\ arenas' = [arenas EXCEPT ![i] = a]
        /\ external' = IF op = "manage" THEN external \ Span(c.lo, c.ask) ELSE external
        /\ Set(t, IF op = "alloc"
                  THEN [Idle EXCEPT !.call = c.call, !.at = "try", !.stage = "fresh",
                                    !.i = i, !.max = i + 1]
                  ELSE Idle)
        /\ UNCHANGED <<mem, tryOk, hugeStart, count, live, map, lost, calls, ended>>

\* No arena after all: the area goes back to where it came from.  That of the program
\* stays with it.
UndoManage(t) ==
    /\ pc[t].at = "undo" /\ pc[t].call.op = "manage"
    /\ Set(t, Idle)
    /\ UNCHANGED <<mem, tryOk, hugeStart, tableVars>>

UndoReserve(t) ==
    LET c == pc[t]
    IN  /\ c.at = "undo" /\ c.call.op \in {"reserve", "alloc"}
        /\ mem' = Unmap(OsExtent(c.lo, c.lo, c.ask))
        /\ Set(t, IF c.call.op = "alloc" THEN [c EXCEPT !.at = "fallback", !.n = 0] ELSE Idle)
        /\ UNCHANGED <<tryOk, hugeStart, tableVars>>

\* Huge pages go back one by one (FreeHuge).
UndoHuge(t) ==
    /\ \/ pc[t].at = "undo" /\ pc[t].call.op = "huge" /\ Goto(t, "freeHuge")
       \/ pc[t].at = "freeHuge" /\ pc[t].n = 0 /\ Set(t, Idle)
    /\ UNCHANGED <<mem, tryOk, hugeStart, tableVars>>

-----------------------------------------------------------------------------
(* arenas_unsafe_destroy, at the end of the process                        *)

Owned == {i \in Used : arenas[i].kind # "external"}

Area(a) == Span(a.start, a.size)
Area0(i) == Area(arenas[i])

\* The descriptors of all arenas are freed, those that are kept included; the count
\* becomes the last index that is kept.
UnsafeDestroy ==
    /\ ~ended /\ \A t \in Thread : pc[t].at = "idle"
    /\ ended' = TRUE
    /\ mem' = Unmap((UNION {Area0(i) : i \in Owned}) \cup {arenas[i].meta : i \in Used})
    /\ arenas' = [i \in Index |-> IF i \in Owned THEN NoArena ELSE arenas[i]]
    /\ count' = Max({0} \cup (Used \ Owned))
    /\ UNCHANGED <<tryOk, hugeStart, pc, live, map, external, lost, calls>>

Step(t) ==
    \/ OsStep(t) /\ UNCHANGED tableVars
    \/ \E c \in Calls : \/ Alloc(t, c) \/ ReserveOsMemory(t, c)
                        \/ ReserveHugePages(t, c) \/ ManageOsMemory(t, c)
    \/ CountArenas(t) \/ TryArena(t) \/ ReserveArena(t) \/ Fallback(t)
    \/ OsFailed(t) \/ OsGot(t) \/ CommitInfo(t) \/ Enter(t)
    \/ \E e \in live : CommitPart(t, e) \/ DecommitPart(t, e) \/ BeginFree(t, e)
    \/ ArenaFree(t) \/ AllocMeta(t) \/ AddArena(t) \/ Retreat(t) \/ StoreArena(t)
    \/ UndoManage(t) \/ UndoReserve(t) \/ UndoHuge(t)

Next == UnsafeDestroy \/ \E t \in Thread : Step(t)

Spec == Init /\ [][Next]_vars
=============================================================================

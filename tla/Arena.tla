------------------------------- MODULE Arena -------------------------------
(***************************************************************************)
(* One arena of alloc_hook_arena.c: allocation of a range of its blocks,   *)
(* free, and the purge of freed blocks, which another thread may do later. *)
(*                                                                         *)
(* The four bitmaps are sets of blocks and lie in one field, so that each  *)
(* access to a range is one atomic step; what a claim is made of when it   *)
(* crosses fields is in Bitmap.  The dirty and committed bits of a block   *)
(* are only used by who has claimed it.                                    *)
(***************************************************************************)
EXTENDS Integers

CONSTANTS
    Thread,
    Blocks,     \* block_count
    Counts,     \* bound: the numbers of blocks that are asked for
    Options     \* the kinds of arena and the options, see Option

Option ==
    [pinned : BOOLEAN,          \* memid.is_pinned: no committed and purge bitmaps
     committed : BOOLEAN,       \* memid.initially_committed
     zero : BOOLEAN,            \* memid.initially_zero
     recommit : BOOLEAN,        \* what os_purge returns: memory is decommitted
     delay : {"never", "now", "later"}]     \* arena_purge_delay

ASSUME ArenaAssumption ==
    /\ Blocks \in Nat \ {0} /\ Counts \subseteq 1..Blocks
    /\ Options \subseteq Option
    /\ \A o \in Options : o.pinned => o.committed

VARIABLES
    opt,        \* the arena's kind and the options
    inuse,      \* blocks_inuse
    dirty,      \* blocks_dirty
    committed,  \* blocks_committed
    purge,      \* blocks_purge
    expire,     \* purge_expire is set
    os,         \* the blocks that the OS has committed as a whole
    written,    \* history: if opt.zero, the blocks a program has had
    hold,       \* the memory each thread has: its memid and whether it is committed
    pc          \* where each thread is

vars == <<opt, inuse, dirty, committed, purge, expire, os, written, hold, pc>>
shared == <<opt, inuse, dirty, committed, purge, expire, os, written, hold>>

Block == 0..(Blocks - 1)
Span(b, n) == b..(b + n - 1)

Label == {"idle", "unschedule", "describe", "expire", "mark", "release",
          "guard", "due", "scan", "claim", "purge", "unclaim", "rearm"}

\* commit: the argument.  bit, len: the range at which a purge is.  seen:
\* the field of blocks_purge it has read; full: full_purge.
Control ==
    [at : Label, commit : BOOLEAN, bit : 0..Blocks, len : 0..Blocks,
     seen : SUBSET Block, full : BOOLEAN]

Idle == [at |-> "idle", commit |-> FALSE, bit |-> 0, len |-> 0, seen |-> {},
         full |-> TRUE]

\* run: the blocks; full: the holder takes all of it for committed
\* (memid.initially_committed, then the segment's commit mask is full); zero:
\* memid.initially_zero.
Memory == [run : SUBSET Block, full : BOOLEAN, zero : BOOLEAN]
None == [run |-> {}, full |-> FALSE, zero |-> FALSE]

TypeOK ==
    /\ opt \in Options
    /\ inuse \subseteq Block /\ dirty \subseteq Block
    /\ committed \subseteq Block /\ purge \subseteq Block
    /\ expire \in BOOLEAN
    /\ os \subseteq Block /\ written \subseteq Block
    /\ hold \in [Thread -> Memory]
    /\ pc \in [Thread -> Control]

\* manage_os_memory_ex2
Init ==
    /\ opt \in Options
    /\ inuse = {} /\ dirty = {} /\ purge = {} /\ expire = FALSE
    /\ committed = IF opt.committed /\ ~opt.pinned THEN Block ELSE {}
    /\ os = IF opt.committed THEN Block ELSE {}
    /\ written = {}
    /\ hold = [t \in Thread |-> None]
    /\ pc = [t \in Thread |-> Idle]

GoTo(t, at) == pc' = [pc EXCEPT ![t].at = at]

-----------------------------------------------------------------------------
(* arena_try_alloc_at                                                      *)

\* The search finds some free range (Bitmap says which).
Alloc(t, b, n, commit) ==
    /\ pc[t] = Idle /\ hold[t].run = {}
    /\ Span(b, n) \subseteq Block /\ Span(b, n) \cap inuse = {}
    /\ inuse' = inuse \cup Span(b, n)
    /\ hold' = [hold EXCEPT ![t].run = Span(b, n)]
    /\ pc' = [pc EXCEPT ![t].at = IF opt.pinned THEN "describe" ELSE "unschedule",
                        ![t].commit = commit]
    /\ UNCHANGED <<opt, dirty, committed, purge, expire, os, written>>

\* None of the claimed blocks should be scheduled for a purge.
Unschedule(t) ==
    /\ pc[t].at = "unschedule"
    /\ purge' = purge \ hold[t].run
    /\ GoTo(t, "describe")
    /\ UNCHANGED <<opt, inuse, dirty, committed, expire, os, written, hold>>

\* Set the dirty bits; initially_zero tells whether all were zero.
Dirtied(m) == [m EXCEPT !.zero = opt.zero /\ m.run \cap dirty = {}]

\* The dirty and the committed bits, and the commit if it is asked for and some
\* bit was not set: it may fail, and then the bits stay set.  Pinned memory is
\* always committed.
Describe(t) ==
    /\ pc[t].at = "describe"
    /\ dirty' = IF opt.zero THEN dirty \cup hold[t].run ELSE dirty
    /\ LET m    == Dirtied(hold[t])
           Is(c) == hold' = [hold EXCEPT ![t] = [m EXCEPT !.full = c]]
       IN  \/ /\ opt.pinned
              /\ Is(TRUE)
              /\ UNCHANGED <<committed, os>>
           \/ /\ ~opt.pinned /\ ~pc[t].commit
              /\ Is(m.run \subseteq committed)
              /\ UNCHANGED <<committed, os>>
           \/ /\ ~opt.pinned /\ pc[t].commit
              /\ committed' = committed \cup m.run
              /\ \/ /\ m.run \subseteq committed
                    /\ Is(TRUE) /\ UNCHANGED os
                 \/ /\ ~(m.run \subseteq committed)
                    /\ \/ Is(TRUE) /\ os' = os \cup m.run
                       \/ Is(FALSE) /\ UNCHANGED os
    /\ pc' = [pc EXCEPT ![t] = Idle]
    /\ UNCHANGED <<opt, inuse, purge, expire, written>>

-----------------------------------------------------------------------------
(* The segment that lies in the memory: a normal one in one block, a huge  *)
(* one in several.  A normal one commits and purges parts of its block;    *)
(* here, the last part that was missing and the first that then is.        *)

Normal(t) == \E b \in Block : hold[t].run = {b}

Commit(t) ==
    /\ pc[t] = Idle /\ Normal(t) /\ ~hold[t].full
    /\ os' = os \cup hold[t].run
    /\ hold' = [hold EXCEPT ![t].full = TRUE]
    /\ UNCHANGED <<opt, inuse, dirty, committed, purge, expire, written, pc>>

Decommit(t) ==
    /\ pc[t] = Idle /\ Normal(t) /\ hold[t].full
    /\ ~opt.pinned /\ opt.recommit /\ opt.delay # "never"
    /\ os' = os \ hold[t].run
    /\ hold' = [hold EXCEPT ![t].full = FALSE]
    /\ UNCHANGED <<opt, inuse, dirty, committed, purge, expire, written, pc>>

-----------------------------------------------------------------------------
(* arena_free                                                              *)

\* Mutant of Free: a range that is partly committed stays marked committed.
FreeKeepsBits(t) ==
    /\ pc[t] = Idle /\ hold[t].run # {}
    /\ hold' = [hold EXCEPT ![t].full = FALSE, ![t].zero = FALSE]
    /\ written' = IF opt.zero THEN written \cup hold[t].run ELSE written
    /\ GoTo(t, IF opt.pinned \/ opt.delay = "never" THEN "release" ELSE "expire")
    /\ UNCHANGED <<opt, inuse, dirty, committed, purge, expire, os>>

\* A range that is not committed as a whole is marked as not committed.
Free(t) ==
    /\ pc[t] = Idle /\ hold[t].run # {}
    /\ committed' = IF ~opt.pinned /\ ~hold[t].full
                    THEN committed \ hold[t].run ELSE committed
    /\ hold' = [hold EXCEPT ![t].full = FALSE, ![t].zero = FALSE]
    /\ written' = IF opt.zero THEN written \cup hold[t].run ELSE written
    /\ GoTo(t, IF opt.pinned \/ opt.delay = "never" THEN "release" ELSE "expire")
    /\ UNCHANGED <<opt, inuse, dirty, purge, expire, os>>

\* Mutant of Purge: the committed bits stay.
PurgeKeepsBits(r) ==
    /\ purge' = purge \ r
    /\ os' = IF opt.recommit THEN os \ r ELSE os
    /\ UNCHANGED committed

\* arena_purge of the blocks r: with their purge bits, decommitted memory loses
\* its committed bits.
Purge(r) ==
    /\ purge' = purge \ r
    /\ committed' = IF opt.recommit THEN committed \ r ELSE committed
    /\ os' = IF opt.recommit THEN os \ r ELSE os

\* arena_schedule_purge: purge at once, or set the time and then the bits.
SetExpire(t) ==
    /\ pc[t].at = "expire"
    /\ IF opt.delay = "now"
         THEN /\ Purge(hold[t].run)
              /\ GoTo(t, "release")
              /\ UNCHANGED expire
         ELSE /\ expire' = TRUE
              /\ GoTo(t, "mark")
              /\ UNCHANGED <<purge, committed, os>>
    /\ UNCHANGED <<opt, inuse, dirty, written, hold>>

Mark(t) ==
    /\ pc[t].at = "mark"
    /\ purge' = purge \cup hold[t].run
    /\ GoTo(t, "release")
    /\ UNCHANGED <<opt, inuse, dirty, committed, expire, os, written, hold>>

\* arenas_try_purge has nothing to do unless purges are delayed.
TryPurge(t) == pc' = [pc EXCEPT ![t] =
    IF opt.delay = "later" THEN [Idle EXCEPT !.at = "guard"] ELSE Idle]

\* Make it available to others again.
Release(t) ==
    /\ pc[t].at = "release"
    /\ inuse' = inuse \ hold[t].run
    /\ hold' = [hold EXCEPT ![t] = None]
    /\ TryPurge(t)
    /\ UNCHANGED <<opt, dirty, committed, purge, expire, os, written>>

\* arena_collect
Collect(t) ==
    /\ pc[t] = Idle /\ opt.delay = "later"
    /\ TryPurge(t)
    /\ UNCHANGED shared

-----------------------------------------------------------------------------
(* arenas_try_purge and arena_try_purge                                    *)

\* Only one thread purges at a time; who finds another one at it leaves.
Guarded == {"due", "scan", "claim", "purge", "unclaim", "rearm"}

Guard(t) ==
    /\ pc[t].at = "guard"
    /\ pc' = [pc EXCEPT ![t] = IF \E u \in Thread : pc[u].at \in Guarded THEN Idle
                               ELSE [@ EXCEPT !.at = "due"]]
    /\ UNCHANGED shared

\* Purges are due if the time has come or the purge is forced.
Due(t) ==
    /\ pc[t].at = "due"
    /\ \/ /\ pc' = [pc EXCEPT ![t] = Idle]
          /\ UNCHANGED expire
       \/ /\ expire /\ ~opt.pinned
          /\ expire' = FALSE
          /\ GoTo(t, "scan")
    /\ UNCHANGED <<opt, inuse, dirty, committed, purge, os, written, hold>>

\* On to the next range of ones in the purge mask, from bit b on.
Seek(c, b) ==
    IF \A d \in c.seen : d < b
      THEN [Idle EXCEPT !.at = "rearm", !.full = c.full]
      ELSE LET first == CHOOSE d \in c.seen : d >= b /\ \A e \in c.seen : e >= b => d <= e
               len   == CHOOSE n \in 1..Blocks :
                           Span(first, n) \subseteq c.seen /\ first + n \notin c.seen
           IN  [c EXCEPT !.at = "claim", !.bit = first, !.len = len,
                         !.seen = {d \in @ : d >= first}]

Scan(t) ==
    /\ pc[t].at = "scan"
    /\ pc' = [pc EXCEPT ![t] = Seek([@ EXCEPT !.seen = purge], 0)]
    /\ UNCHANGED shared

\* The range a purge is at.
At(t) == Span(pc[t].bit, pc[t].len)

\* Mutant of TryClaim: only the first block is looked at.
TryClaimFirst(t) ==
    /\ pc[t].at = "claim"
    /\ \/ /\ pc[t].bit \notin inuse
          /\ inuse' = inuse \cup At(t)
          /\ GoTo(t, "purge")
       \/ /\ pc[t].bit \in inuse
          /\ pc' = [pc EXCEPT ![t] = Seek(@, @.bit + 1)]
          /\ UNCHANGED inuse
    /\ UNCHANGED <<opt, dirty, committed, purge, expire, os, written, hold>>

\* Try to claim the longest prefix of the range that is not in use.
TryClaim(t) ==
    /\ pc[t].at = "claim"
    /\ \/ /\ At(t) \cap inuse = {}
          /\ inuse' = inuse \cup At(t)
          /\ GoTo(t, "purge")
       \/ /\ At(t) \cap inuse # {}
          /\ pc' = [pc EXCEPT ![t] = IF @.len > 1 THEN [pc[t] EXCEPT !.len = @ - 1]
                                     ELSE Seek(@, @.bit + 1)]
          /\ UNCHANGED inuse
    /\ UNCHANGED <<opt, dirty, committed, purge, expire, os, written, hold>>

\* Purge what is still to be purged now that the blocks are claimed
\* (arena_purge_range).
PurgeRange(t) ==
    /\ pc[t].at = "purge"
    /\ Purge(At(t) \cap purge)
    /\ pc' = [pc EXCEPT ![t].at = "unclaim", ![t].seen = purge,
                        ![t].full = @ /\ At(t) \subseteq purge]
    /\ UNCHANGED <<opt, inuse, dirty, expire, written, hold>>

Unclaim(t) ==
    /\ pc[t].at = "unclaim"
    /\ inuse' = inuse \ At(t)
    /\ pc' = [pc EXCEPT ![t] = Seek(@, @.bit + @.len + 1)]
    /\ UNCHANGED <<opt, dirty, committed, purge, expire, os, written, hold>>

\* If not fully purged, set the time for another purge.
Rearm(t) ==
    /\ pc[t].at = "rearm"
    /\ expire' = (expire \/ ~pc[t].full)
    /\ pc' = [pc EXCEPT ![t] = Idle]
    /\ UNCHANGED <<opt, inuse, dirty, committed, purge, os, written, hold>>

-----------------------------------------------------------------------------
Step(t) ==
    \/ \E b \in Block, n \in Counts, commit \in BOOLEAN : Alloc(t, b, n, commit)
    \/ Unschedule(t) \/ Describe(t)
    \/ Commit(t) \/ Decommit(t)
    \/ Free(t) \/ SetExpire(t) \/ Mark(t) \/ Release(t)
    \/ Collect(t) \/ Guard(t) \/ Due(t) \/ Scan(t) \/ TryClaim(t)
    \/ PurgeRange(t) \/ Unclaim(t) \/ Rearm(t)

Next == \E t \in Thread : Step(t)

Spec == Init /\ [][Next]_vars
=============================================================================

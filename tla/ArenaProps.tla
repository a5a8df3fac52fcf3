----------------------------- MODULE ArenaProps -----------------------------
(***************************************************************************)
(* What makes an arena correct.                                            *)
(***************************************************************************)
EXTENDS Arena

\* The range a thread has claimed to purge it, and all blocks it has claimed.
Purging(t) == IF pc[t].at \in {"purge", "unclaim"} THEN At(t) ELSE {}
Mine(t) == hold[t].run \cup Purging(t)

\* A bit in use has one claim behind it, of a program or of a purge: none is
\* lost, and who frees or unclaims a range finds all its bits still set
\* (arena.c:664 reports a double free otherwise).
ClaimsAccounted ==
    /\ TypeOK
    /\ inuse = UNION {Mine(t) : t \in Thread}
    /\ \A t \in Thread : hold[t].run \cap Purging(t) = {}
    /\ \A t, u \in Thread : t # u => Mine(t) \cap Mine(u) = {}

\* The ranges a thread has claimed.
Claims(t) == {hold[t].run, Purging(t)} \ {{}}

\* Allocations and purges claim ranges as from a pool: a purge never takes
\* blocks a program has, nor an allocation those a purge is at.
Ranges == (SUBSET Block) \ {{}}
Pool == INSTANCE BitPool WITH
    Range <- Ranges, held <- [t \in Thread |-> Claims(t)]
ImplementsPool == Pool!Spec

\* What a memid says is so, as long as the program has the memory: what it was
\* told is committed stays committed (arena.c:236: the purge that the last
\* user of the blocks scheduled never hits it), and memory that it was told is
\* zero was nobody's before.
MemidIsTrue == \A t \in Thread :
    /\ hold[t].full => hold[t].run \subseteq os
    /\ hold[t].zero => hold[t].run \cap written = {}

\* The places inside arena_try_alloc_at and inside arena_free.
Allocating == {"unschedule", "describe"}
Freeing == {"expire", "mark", "release"}

\* The committed bit of a block that is not committed is seen by nobody but a
\* holder who knows better, after a commit that failed (arena.c:253-263):
\* neither a free, nor a purge, which would reset the block (arena.c:446-453,
\* "we should never reset decommitted parts", 657), nor the next allocation.
CommittedIsReal == \A b \in committed \ os :
    \E t \in Thread :
        /\ b \in hold[t].run /\ ~hold[t].full
        /\ pc[t].at \notin Allocating \cup Freeing

\* A thread at its place: memory is described only to who has it as its own, its
\* blocks are dirty from then on, a purge is at a range of blocks, and pinned
\* memory is never purged.
Placed(t) ==
    /\ hold[t].run = {} => hold[t] = None
    /\ pc[t].at \in Allocating \cup Freeing =>
           hold[t].run # {} /\ ~hold[t].full /\ ~hold[t].zero
    /\ pc[t].at \notin Allocating /\ opt.zero => hold[t].run \subseteq dirty
    /\ pc[t].at \in {"claim", "purge", "unclaim"} => At(t) # {} /\ At(t) \subseteq Block
    /\ pc[t].at \in {"expire", "mark", "scan", "claim", "purge", "unclaim", "rearm"} =>
           ~opt.pinned

\* The inductive invariant.
IInv ==
    /\ ClaimsAccounted /\ MemidIsTrue /\ CommittedIsReal
    /\ \A t \in Thread : Placed(t)
    /\ written \subseteq dirty
    /\ opt.pinned => committed = {} /\ os = Block
=============================================================================
